------------------------- MODULE LoadService_proofs -------------------------
(***************************************************************************)
(* The load service keeps its types, its worker serves one load at a time, *)
(* and its queue runs one load at a time and waits for nobody who will not *)
(* answer: for every set of databases, every relation of children, and     *)
(* whatever the bounds are.                                                *)
(***************************************************************************)
EXTENDS LoadService, SequenceTheorems, TLAPS

(* A load under way that the queue counts; one that its caller may be told  *)
(* of; one that a worker has had.                                           *)
Running == {"sizing", "main", "posted"}
Told == {"posted"} \cup Answered \cup Over
Begun == Running \cup Answered \cup Over

(* What the stage of a load says of its other fields.                       *)
LoadOK(l, n) ==
  /\ l \in Loads
  /\ l.by \in 0 .. n
  /\ l.kind # "refresh" \/ l.stage \in {"main"} \cup Answered => l.db \in Database
  /\ l.kind = "child" => l.parent \in Database
  /\ l.stage \in {"opening", "queued", "noting"} => l.kind = "child"
  /\ l.stage = "probing" => l.kind = "refresh"
LoadsOK(L) == L \in Seq(Loads) /\ \A i \in DOMAIN L : LoadOK(L[i], Len(L))

(* The queue q of the loads L while load c is under way, or none: QueueSerial *)
(* of the state in the middle of a step.                                    *)
Serial(L, q, c) ==
  /\ q \in Seq(DOMAIN L)
  /\ c \in DOMAIN L \cup {0}
  /\ \A i \in DOMAIN L : /\ i = c <=> L[i].kind = "child" /\ L[i].stage \in Running
                         /\ L[i].stage = "queued" <=> \E n \in DOMAIN q : q[n] = i
  /\ \A m, n \in DOMAIN q : q[m] = q[n] => m = n
Queue == /\ Serial(loads, pendingLoads, currentPendingLoad)
         /\ pendingLoads # <<>> => currentPendingLoad # 0

(* The isolates, the current one, and the loads they have had.              *)
Workers ==
  /\ WorkerServesOne
  /\ databaseWorker \in Isolate \cup {0}
  /\ workerBusy \in BOOLEAN /\ uncreated \in BOOLEAN
  /\ uncreated => databaseWorker = 0
  /\ isolate \in [Isolate -> Isolates]
  /\ databaseWorker # 0 => isolate[databaseWorker].state = "live"
  /\ \A w \in Isolate :
       /\ isolate[w].working # {} => isolate[w].state = "live"
       /\ isolate[w].handler # 0 =>
            /\ isolate[w].handler \in DOMAIN loads
            /\ loads[isolate[w].handler].stage \in Told

Registry ==
  /\ records \in [Database -> Database \cup {None}]
  /\ childRecords \subseteq Open
  /\ currentKey \in Open \cup {None}
  /\ emptyParam \in Database \cup {None}
  /\ attempted \subseteq Database
Counts == pendingByParent \in [Database -> Nat] /\ announced \subseteq Database
Bounds == /\ childDbEnable \in BOOLEAN /\ ability \in BOOLEAN
          /\ asks \in Nat /\ faults \in Nat

Inv == LoadsOK(loads) /\ Queue /\ Workers /\ Registry /\ Counts /\ Bounds

(* What a stage becomes when the queue goes on.                             *)
Sized(old, new) == new = old \/ (old = "queued" /\ new = "sizing")

(* What a step may do to the loads, as the workers see it.                  *)
Onward ==
  /\ \A i \in DOMAIN loads :
       i \in DOMAIN loads' /\ (loads[i].stage \in Told => loads'[i].stage \in Told)
  /\ \A i \in DOMAIN loads' : loads'[i].stage = "posted" =>
       i \in DOMAIN loads /\ loads[i].stage = "posted"

-----------------------------------------------------------------------------
(* One load of the sequence.                                                *)

(* A load with another stage.                                               *)
LEMMA NewStage ==
  ASSUME NEW l \in Loads, NEW stage \in Stages
  PROVE  LET k == [l EXCEPT !.stage = stage]
         IN  /\ k \in Loads /\ k.stage = stage /\ k.db = l.db /\ k.kind = l.kind
             /\ k.by = l.by /\ k.parent = l.parent
  BY DEF Loads

(* The places of a sequence of loads.                                       *)
LEMMA Places ==
  ASSUME NEW L, LoadsOK(L)
  PROVE  /\ L \in Seq(Loads) /\ Len(L) \in Nat /\ DOMAIN L = 1 .. Len(L)
         /\ 0 \notin DOMAIN L
         /\ \A i \in DOMAIN L : L[i] \in Loads /\ LoadOK(L[i], Len(L))
  <1>1. L \in Seq(Loads) /\ \A i \in DOMAIN L : LoadOK(L[i], Len(L))
    BY DEF LoadsOK
  <1>2. Len(L) \in Nat /\ DOMAIN L = 1 .. Len(L)
    BY <1>1
  <1>3. 0 \notin DOMAIN L
    BY <1>2
  <1> QED BY <1>1, <1>2, <1>3 DEF LoadOK

(* Another load at one place.                                               *)
LEMMA Replaced ==
  ASSUME NEW L, LoadsOK(L), NEW i \in DOMAIN L, NEW l, LoadOK(l, Len(L))
  PROVE  LET M == [L EXCEPT ![i] = l]
         IN  /\ LoadsOK(M) /\ DOMAIN M = DOMAIN L /\ Len(M) = Len(L)
             /\ M[i] = l /\ \A j \in DOMAIN L : j # i => M[j] = L[j]
  <1> DEFINE M == [L EXCEPT ![i] = l]
  <1>1. l \in Loads
    BY DEF LoadOK
  <1>2. /\ M \in Seq(Loads) /\ Len(M) = Len(L) /\ M[i] = l
        /\ \A j \in 1 .. Len(L) : j # i => M[j] = L[j]
    BY <1>1, Places, ExceptSeq
  <1>3. DOMAIN M = DOMAIN L
    BY <1>2, Places
  <1>4. LoadsOK(M)
    BY <1>2, <1>3, Places DEF LoadsOK
  <1> QED BY <1>2, <1>3, <1>4, Places

(* Another stage at one place.                                              *)
LEMMA Staged ==
  ASSUME NEW L, LoadsOK(L), NEW i \in DOMAIN L, NEW stage \in Stages,
         stage \in {"main"} \cup Answered => L[i].db \in Database,
         stage \in {"opening", "queued", "noting"} => L[i].kind = "child",
         stage # "probing"
  PROVE  /\ LoadsOK(To(L, i, stage)) /\ DOMAIN To(L, i, stage) = DOMAIN L
         /\ Len(To(L, i, stage)) = Len(L)
         /\ \A j \in DOMAIN L : j # i => To(L, i, stage)[j] = L[j]
         /\ \A j \in DOMAIN L :
              /\ To(L, i, stage)[j].stage = IF j = i THEN stage ELSE L[j].stage
              /\ To(L, i, stage)[j].kind = L[j].kind
              /\ To(L, i, stage)[j].db = L[j].db
              /\ To(L, i, stage)[j].parent = L[j].parent
  <1> DEFINE l == [L[i] EXCEPT !.stage = stage]
  <1>1. LoadOK(L[i], Len(L)) /\ L[i] \in Loads
    BY Places
  <1>2. /\ l \in Loads /\ l.stage = stage /\ l.db = L[i].db /\ l.kind = L[i].kind
        /\ l.by = L[i].by /\ l.parent = L[i].parent
    BY <1>1, NewStage
  <1>3. LoadOK(l, Len(L))
    BY <1>1, <1>2 DEF LoadOK
  <1>4. To(L, i, stage) = [L EXCEPT ![i] = l]
    BY DEF To
  <1>5. /\ LoadsOK(To(L, i, stage)) /\ DOMAIN To(L, i, stage) = DOMAIN L
        /\ Len(To(L, i, stage)) = Len(L) /\ To(L, i, stage)[i] = l
        /\ \A j \in DOMAIN L : j # i => To(L, i, stage)[j] = L[j]
    <2> HIDE DEF l
    <2> DEFINE M == [L EXCEPT ![i] = l]
    <2>1. /\ LoadsOK(M) /\ DOMAIN M = DOMAIN L /\ Len(M) = Len(L) /\ M[i] = l
          /\ \A j \in DOMAIN L : j # i => M[j] = L[j]
      BY <1>3, Replaced
    <2>2. To(L, i, stage) = M
      BY <1>4
    <2> HIDE DEF M
    <2> QED BY <2>1, <2>2
  <1> QED BY <1>2, <1>5

(* One more load.                                                           *)
LEMMA Added ==
  ASSUME NEW L, LoadsOK(L), NEW l, LoadOK(l, Len(L))
  PROVE  /\ LoadsOK(Append(L, l)) /\ Len(Append(L, l)) = Len(L) + 1
         /\ DOMAIN Append(L, l) = DOMAIN L \cup {Len(L) + 1}
         /\ Len(L) + 1 \notin DOMAIN L
         /\ Append(L, l)[Len(L) + 1] = l
         /\ \A j \in DOMAIN L : Append(L, l)[j] = L[j]
  <1> DEFINE M == Append(L, l)
  <1>1. l \in Loads
    BY DEF LoadOK
  <1>2. L \in Seq(Loads) /\ Len(L) \in Nat /\ DOMAIN L = 1 .. Len(L)
    BY Places
  <1>3. /\ M \in Seq(Loads) /\ Len(M) = Len(L) + 1 /\ M[Len(L) + 1] = l
        /\ \A j \in 1 .. Len(L) : M[j] = L[j]
    BY <1>1, <1>2, AppendProperties
  <1>4. DOMAIN M = 1 .. Len(L) + 1
    BY <1>3
  <1>5. \A k : LoadOK(k, Len(L)) => LoadOK(k, Len(M))
    BY <1>2, <1>3 DEF LoadOK
  <1>6. \A j \in DOMAIN M : LoadOK(M[j], Len(M))
    BY <1>2, <1>3, <1>4, <1>5, Places
  <1>7. LoadsOK(M)
    BY <1>3, <1>6 DEF LoadsOK
  <1> QED BY <1>2, <1>3, <1>4, <1>7

-----------------------------------------------------------------------------
(* The queue.                                                               *)

(* The queue does not mind what becomes of loads that are not its own.      *)
LEMMA SerialKept ==
  ASSUME NEW L, NEW M, NEW q, NEW c, Serial(L, q, c),
         0 \notin DOMAIN M, DOMAIN L \subseteq DOMAIN M,
         \A i \in DOMAIN L :
           /\ M[i].kind = L[i].kind
           /\ M[i].stage = "queued" <=> L[i].stage = "queued"
           /\ M[i].kind = "child" => (M[i].stage \in Running <=> L[i].stage \in Running),
         \A i \in DOMAIN M \ DOMAIN L :
           M[i].stage # "queued" /\ ~(M[i].kind = "child" /\ M[i].stage \in Running)
  PROVE  Serial(M, q, c)
  <1>1. q \in Seq(DOMAIN L) /\ c \in DOMAIN L \cup {0}
    BY DEF Serial
  <1>2. q \in Seq(DOMAIN M) /\ c \in DOMAIN M \cup {0}
    BY <1>1, SeqMonotonic
  <1>3. ASSUME NEW i \in DOMAIN M
        PROVE  /\ i = c <=> M[i].kind = "child" /\ M[i].stage \in Running
               /\ M[i].stage = "queued" <=> \E n \in DOMAIN q : q[n] = i
    <2>1. CASE i \in DOMAIN L
      BY <2>1 DEF Serial
    <2>2. CASE i \notin DOMAIN L
      <3>1. \A n \in DOMAIN q : q[n] \in DOMAIN L
        BY <1>1
      <3> QED BY <2>2, <3>1, <1>1
    <2> QED BY <2>1, <2>2
  <1>4. \A m, n \in DOMAIN q : q[m] = q[n] => m = n
    BY DEF Serial
  <1> QED BY <1>2, <1>3, <1>4 DEF Serial

(* The head of the queue.                                                   *)
LEMMA HeadOfQueue ==
  ASSUME NEW S, NEW q \in Seq(S), q # <<>>
  PROVE  /\ Head(q) \in S /\ Tail(q) \in Seq(S)
         /\ Head(q) = q[1] /\ 1 \in DOMAIN q
         /\ \A n \in DOMAIN Tail(q) : n + 1 \in DOMAIN q /\ n + 1 # 1 /\ Tail(q)[n] = q[n + 1]
         /\ \A n \in DOMAIN q : n # 1 => \E m \in DOMAIN Tail(q) : m + 1 = n /\ Tail(q)[m] = q[n]
         /\ \A m, n \in DOMAIN Tail(q) : m + 1 = n + 1 => m = n
  <1>1. Len(q) \in Nat /\ Len(q) # 0 /\ DOMAIN q = 1 .. Len(q)
    BY EmptySeq
  <1>2. /\ Tail(q) \in Seq(S) /\ Len(Tail(q)) = Len(q) - 1
        /\ \A n \in 1 .. Len(Tail(q)) : Tail(q)[n] = q[n + 1]
    BY <1>1, HeadTailProperties
  <1>3. DOMAIN Tail(q) = 1 .. Len(q) - 1
    BY <1>2
  <1>4. Head(q) = q[1] /\ 1 \in DOMAIN q /\ Head(q) \in S
    BY <1>1, HeadTailProperties
  <1>5. ASSUME NEW n \in DOMAIN q, n # 1
        PROVE  \E m \in DOMAIN Tail(q) : m + 1 = n /\ Tail(q)[m] = q[n]
    <2>1. n - 1 \in DOMAIN Tail(q) /\ (n - 1) + 1 = n
      BY <1>1, <1>3, <1>5
    <2>2. Tail(q)[n - 1] = q[n]
      BY <1>2, <1>3, <2>1
    <2> QED BY <2>1, <2>2
  <1>6. \A n \in DOMAIN Tail(q) : n + 1 \in DOMAIN q /\ n + 1 # 1 /\ Tail(q)[n] = q[n + 1]
    BY <1>1, <1>2, <1>3
  <1>7. \A m, n \in DOMAIN Tail(q) : m + 1 = n + 1 => m = n
    BY <1>3, <1>1
  <1> QED BY <1>2, <1>4, <1>5, <1>6, <1>7

(* The next load of the queue goes under way, if there is one.              *)
LEMMA Dispatches ==
  ASSUME NEW L, LoadsOK(L), NEW q, Serial(L, q, 0), DispatchNextPendingLoad(L, q)
  PROVE  /\ LoadsOK(loads') /\ Queue' /\ DOMAIN loads' = DOMAIN L
         /\ \A i \in DOMAIN L : Sized(L[i].stage, loads'[i].stage)
  <1>1. CASE q = <<>>
    <2>1. loads' = L /\ pendingLoads' = <<>> /\ currentPendingLoad' = 0
      BY <1>1 DEF DispatchNextPendingLoad
    <2>2. Queue'
      BY <1>1, <2>1 DEF Queue
    <2>3. LoadsOK(loads') /\ DOMAIN loads' = DOMAIN L
      BY <2>1
    <2>4. \A i \in DOMAIN L : loads'[i].stage = L[i].stage
      BY <2>1
    <2> QED BY <2>2, <2>3, <2>4 DEF Sized
  <1>2. CASE q # <<>>
    <2> DEFINE h == Head(q)
               M == To(L, h, "sizing")
    <2>1. loads' = M /\ pendingLoads' = Tail(q) /\ currentPendingLoad' = h
      BY <1>2 DEF DispatchNextPendingLoad
    <2>2. q \in Seq(DOMAIN L)
      BY DEF Serial
    <2>3. h \in DOMAIN L /\ h = q[1] /\ 1 \in DOMAIN q /\ Tail(q) \in Seq(DOMAIN L)
      BY <1>2, <2>2, HeadOfQueue
    <2>4. L[h].stage = "queued"
      BY <2>3 DEF Serial
    <2>5. L[h].kind = "child"
      BY <2>3, <2>4, Places DEF LoadOK
    <2>6. /\ LoadsOK(M) /\ DOMAIN M = DOMAIN L
          /\ \A j \in DOMAIN L : /\ M[j].stage = IF j = h THEN "sizing" ELSE L[j].stage
                                /\ M[j].kind = L[j].kind
      <3>1. /\ "sizing" \in Stages /\ "sizing" \notin {"main"} \cup Answered
            /\ "sizing" # "probing"
        BY DEF Stages, InFlight, Answered
      <3> HIDE DEF h
      <3> QED BY <2>3, <3>1, Staged
    <2>7. 0 \notin DOMAIN L
      BY Places
    <2>8. \A i \in DOMAIN L : ~(L[i].kind = "child" /\ L[i].stage \in Running)
      BY <2>7 DEF Serial
    <2>9. ASSUME NEW i \in DOMAIN M
          PROVE  i = h <=> M[i].kind = "child" /\ M[i].stage \in Running
      BY <2>5, <2>6, <2>8 DEF Running
    <2>10. ASSUME NEW i \in DOMAIN M
           PROVE  M[i].stage = "queued" <=> \E n \in DOMAIN Tail(q) : Tail(q)[n] = i
      <3>1. CASE i = h
        <4>1. M[i].stage # "queued"
          BY <3>1, <2>3, <2>6
        <4>2. ASSUME NEW n \in DOMAIN Tail(q), Tail(q)[n] = i
              PROVE  FALSE
          <5>1. n + 1 \in DOMAIN q /\ n + 1 # 1 /\ q[n + 1] = q[1]
            BY <1>2, <2>2, <2>3, <3>1, <4>2, HeadOfQueue
          <5> QED BY <5>1, <2>3 DEF Serial
        <4> QED BY <4>1, <4>2
      <3>2. CASE i # h
        <4>1. M[i].stage = "queued" <=> \E n \in DOMAIN q : q[n] = i
          BY <3>2, <2>6 DEF Serial
        <4>2. ASSUME NEW n \in DOMAIN q, q[n] = i
              PROVE  \E m \in DOMAIN Tail(q) : Tail(q)[m] = i
          <5>1. n # 1
            BY <4>2, <3>2, <2>3
          <5> QED BY <4>2, <5>1, <1>2, <2>2, HeadOfQueue
        <4>3. ASSUME NEW n \in DOMAIN Tail(q), Tail(q)[n] = i
              PROVE  \E m \in DOMAIN q : q[m] = i
          BY <4>3, <1>2, <2>2, HeadOfQueue
        <4> QED BY <4>1, <4>2, <4>3
      <3> QED BY <3>1, <3>2
    <2>11. ASSUME NEW m \in DOMAIN Tail(q), NEW n \in DOMAIN Tail(q), Tail(q)[m] = Tail(q)[n]
           PROVE  m = n
      <3>1. /\ m + 1 \in DOMAIN q /\ n + 1 \in DOMAIN q /\ q[m + 1] = q[n + 1]
        BY <1>2, <2>2, <2>11, HeadOfQueue
      <3>2. m + 1 = n + 1
        BY <3>1 DEF Serial
      <3> QED BY <3>2, <1>2, <2>2, HeadOfQueue
    <2>12. Serial(M, Tail(q), h)
      <3> HIDE DEF M, h
      <3> QED BY <2>3, <2>6, <2>9, <2>10, <2>11 DEF Serial
    <2>13. h # 0
      BY <2>3, <2>7
    <2>14. Queue'
      <3> HIDE DEF M, h
      <3> QED BY <2>1, <2>12, <2>13 DEF Queue
    <2> HIDE DEF M, h
    <2>15. LoadsOK(loads') /\ DOMAIN loads' = DOMAIN L
      BY <2>1, <2>6
    <2>16. \A i \in DOMAIN L : Sized(L[i].stage, loads'[i].stage)
      BY <2>1, <2>4, <2>6 DEF Sized
    <2> QED BY <2>14, <2>15, <2>16
  <1> QED BY <1>1, <1>2

(* The end of a load that has begun moves the queue if it is the load the   *)
(* queue waits for.                                                         *)
LEMMA Finishes ==
  ASSUME LoadsOK(loads), Queue, NEW i \in DOMAIN loads, loads[i].stage \in Begun,
         NEW stage \in Answered \cup Over, stage # "noting",
         Unanswered(i) /\ stage \in Answered => loads[i].db \in Database,
         FinishPendingLoad(IF Unanswered(i) THEN To(loads, i, stage) ELSE loads, i)
  PROVE  /\ LoadsOK(loads') /\ Queue' /\ Onward
         /\ i \in DOMAIN loads' /\ loads'[i].stage # "posted"
  <1> DEFINE L == IF Unanswered(i) THEN To(loads, i, stage) ELSE loads
  <1>1. /\ LoadsOK(L) /\ DOMAIN L = DOMAIN loads
        /\ \A j \in DOMAIN loads : L[j].kind = loads[j].kind
        /\ \A j \in DOMAIN loads : j # i => L[j] = loads[j]
        /\ L[i].stage \in Answered \cup Over
    <2>1. CASE Unanswered(i)
      <3>1. stage \in Stages /\ stage \notin {"main", "opening", "queued", "noting", "probing"}
        BY DEF Stages, Answered, Over
      <3> DEFINE M == To(loads, i, stage)
      <3>2. stage \in {"main"} \cup Answered => loads[i].db \in Database
        BY <2>1, <3>1
      <3>3. /\ LoadsOK(M) /\ DOMAIN M = DOMAIN loads
            /\ \A j \in DOMAIN loads : j # i => M[j] = loads[j]
            /\ \A j \in DOMAIN loads :
                 /\ M[j].stage = IF j = i THEN stage ELSE loads[j].stage
                 /\ M[j].kind = loads[j].kind
        <4>1. stage \in {"opening", "queued", "noting"} => loads[i].kind = "child"
          BY <3>1
        <4> QED BY <3>1, <3>2, <4>1, Staged
      <3>4. L = M
        BY <2>1
      <3> HIDE DEF L, M
      <3> QED BY <3>3, <3>4
    <2>2. CASE ~Unanswered(i)
      <3>1. L = loads
        BY <2>2
      <3>2. loads[i].stage \in Answered \cup Over
        BY <2>2 DEF Unanswered, Begun, Running, InFlight
      <3> HIDE DEF L
      <3> QED BY <3>1, <3>2
    <2> QED BY <2>1, <2>2
  <1>2. L[i].stage \notin Running /\ L[i].stage # "queued"
    BY <1>1 DEF Running, Answered, Over
  <1>3. loads[i].stage # "queued"
    BY DEF Begun, Running, Answered, Over
  <1>4. /\ LoadsOK(loads') /\ Queue' /\ DOMAIN loads' = DOMAIN loads
        /\ \A j \in DOMAIN loads : Sized(L[j].stage, loads'[j].stage)
    <2>0. Serial(loads, pendingLoads, currentPendingLoad) /\ 0 \notin DOMAIN loads
      BY Places DEF Queue
    <2>1. CASE currentPendingLoad # i
      <3>1. loads' = L /\ UNCHANGED queueVars
        BY <2>1 DEF FinishPendingLoad
      <3> HIDE DEF L
      <3>2. ~(loads[i].kind = "child" /\ loads[i].stage \in Running)
        BY <2>0, <2>1 DEF Serial
      <3>3. Serial(L, pendingLoads, currentPendingLoad)
        BY <1>1, <1>2, <1>3, <2>0, <3>2, SerialKept
      <3>4. Queue'
        BY <3>1, <3>3 DEF Queue, queueVars
      <3>5. LoadsOK(loads') /\ DOMAIN loads' = DOMAIN loads
        BY <1>1, <3>1
      <3>6. \A j \in DOMAIN loads : loads'[j].stage = L[j].stage
        BY <3>1
      <3> QED BY <3>4, <3>5, <3>6 DEF Sized
    <2>2. CASE currentPendingLoad = i
      <3>1. DispatchNextPendingLoad(L, pendingLoads)
        BY <2>2 DEF FinishPendingLoad
      <3> HIDE DEF L
      <3>2. pendingLoads \in Seq(DOMAIN L)
        BY <1>1, <2>0 DEF Serial
      <3>3. ASSUME NEW j \in DOMAIN L
            PROVE  /\ 0 = j <=> L[j].kind = "child" /\ L[j].stage \in Running
                   /\ L[j].stage = "queued" <=> \E n \in DOMAIN pendingLoads : pendingLoads[n] = j
        BY <1>1, <1>2, <1>3, <2>0, <2>2 DEF Serial
      <3>4. Serial(L, pendingLoads, 0)
        BY <2>0, <3>2, <3>3 DEF Serial
      <3> QED BY <1>1, <3>1, <3>4, Dispatches
    <2> QED BY <2>1, <2>2
  <1> HIDE DEF L
  <1>5. loads'[i].stage \in Answered \cup Over
    BY <1>1, <1>2, <1>4 DEF Sized
  <1>6. Onward
    BY <1>1, <1>4, <1>5 DEF Sized, Onward, Told, Answered, Over
  <1> QED BY <1>4, <1>5, <1>6 DEF Answered, Over

-----------------------------------------------------------------------------
(* The registry, the counters, the callbacks.                               *)

(* Nothing happens to the registry.                                         *)
LEMMA RegistrySame ==
  ASSUME Registry, UNCHANGED sessionVars
  PROVE  Registry'
  BY DEF Registry, Open, sessionVars

(* Nothing happens to the counters.                                         *)
LEMMA CountsSame ==
  ASSUME Counts, UNCHANGED countVars
  PROVE  Counts'
  BY DEF Counts, countVars

(* A database is not none.                                                  *)
LEMMA NoneIsNone == None \notin Database
  BY DatabaseAssumption

(* What is closed is in order.                                              *)
LEMMA AllClosed ==
  ASSUME CloseAll
  PROVE  Registry'
  <1>1. /\ records' = [d \in Database |-> None] /\ childRecords' = {}
        /\ currentKey' = None /\ emptyParam' = None /\ attempted' = {}
    BY DEF CloseAll
  <1> QED BY <1>1 DEF Registry, Open

(* The count of one parent goes down.                                       *)
LEMMA PendingEnds ==
  ASSUME Counts, NEW p \in Database, NEW done \in SUBSET Database, EndPending(p, done)
  PROVE  Counts'
  <1> DEFINE n == IF pendingByParent[p] <= 1 THEN 0 ELSE pendingByParent[p] - 1
  <1>1. pendingByParent \in [Database -> Nat]
    BY DEF Counts
  <1>2. n \in Nat
    BY <1>1
  <1>3. pendingByParent' = [pendingByParent EXCEPT ![p] = n]
    BY DEF EndPending
  <1> HIDE DEF n
  <1>4. pendingByParent' \in [Database -> Nat]
    BY <1>1, <1>2, <1>3
  <1>5. announced' \subseteq Database
    BY DEF EndPending
  <1> QED BY <1>4, <1>5 DEF Counts

(* A callback of a load that has begun.                                     *)
LEMMA Called ==
  ASSUME LoadsOK(loads), Queue, Registry, Counts,
         NEW i \in DOMAIN loads, loads[i].stage \in Begun,
         \/ OnSuccessMessage(i) /\ loads[i].db \in Database
         \/ OnErrorMessage(i, "done")
         \/ OnErrorMessage(i, "lost")
         \/ OnExit(i)
  PROVE  /\ LoadsOK(loads') /\ Queue' /\ Onward /\ Registry' /\ Counts'
         /\ i \in DOMAIN loads' /\ loads'[i].stage # "posted"
  <1>1. CASE OnSuccessMessage(i) /\ loads[i].db \in Database
    <2>1. /\ FinishPendingLoad(IF Unanswered(i) THEN To(loads, i, "restoring") ELSE loads, i)
          /\ CloseAll \/ UNCHANGED sessionVars
          /\ UNCHANGED countVars
      BY <1>1 DEF OnSuccessMessage
    <2>2. "restoring" \in Answered \cup Over /\ "restoring" # "noting"
      BY DEF Answered
    <2> QED BY <1>1, <2>1, <2>2, Finishes, AllClosed, RegistrySame, CountsSame
  <1>2. ASSUME NEW stage \in {"done", "lost"}, OnErrorMessage(i, stage)
        PROVE  /\ LoadsOK(loads') /\ Queue' /\ Onward /\ Registry' /\ Counts'
               /\ i \in DOMAIN loads' /\ loads'[i].stage # "posted"
    <2>1. /\ FinishPendingLoad(IF Unanswered(i) THEN To(loads, i, stage) ELSE loads, i)
          /\ UNCHANGED sessionVars
          /\ IF Unanswered(i) /\ IsChild(i)
             THEN EndPending(loads[i].parent, announced)
             ELSE UNCHANGED countVars
      BY <1>2 DEF OnErrorMessage
    <2>2. stage \in Answered \cup Over /\ stage # "noting" /\ stage \notin Answered
      BY DEF Answered, Over
    <2>3. IsChild(i) => loads[i].parent \in Database
      BY Places DEF LoadOK, IsChild
    <2>4. announced \in SUBSET Database
      BY DEF Counts
    <2>5. Counts'
      BY <2>1, <2>3, <2>4, PendingEnds, CountsSame
    <2> QED BY <2>1, <2>2, <2>5, Finishes, RegistrySame
  <1>3. CASE OnExit(i)
    <2> DEFINE stage == IF loads[i].kind \in {"unlock", "add"} THEN "done" ELSE "lost"
    <2>1. /\ FinishPendingLoad(IF Unanswered(i) THEN To(loads, i, stage) ELSE loads, i)
          /\ UNCHANGED sessionVars /\ UNCHANGED countVars
      BY <1>3 DEF OnExit
    <2>2. stage \in Answered \cup Over /\ stage # "noting" /\ stage \notin Answered
      BY DEF Answered, Over
    <2> HIDE DEF stage
    <2> QED BY <2>1, <2>2, Finishes, RegistrySame, CountsSame
  <1> QED BY <1>1, <1>2, <1>3

-----------------------------------------------------------------------------
(* The workers.                                                             *)

(* Nothing happens to the workers.                                          *)
LEMMA WorkersSame ==
  ASSUME Workers, Onward, UNCHANGED workerVars
  PROVE  Workers'
  <1>1. WorkerServesOne'
    BY DEF Workers, WorkerServesOne, Onward, workerVars
  <1> QED BY <1>1 DEF Workers, Onward, workerVars

(* One isolate becomes another.  What it had posted is over or stays its    *)
(* own; what is posted now, it has.                                         *)
LEMMA OneChanges ==
  ASSUME Workers, NEW w \in Isolate, NEW r \in Isolates,
         isolate' = [isolate EXCEPT ![w] = r],
         \A i \in DOMAIN loads :
           i \in DOMAIN loads' /\ (loads[i].stage \in Told => loads'[i].stage \in Told),
         \A i \in DOMAIN loads' : loads'[i].stage = "posted" =>
           \/ i \in DOMAIN loads /\ loads[i].stage = "posted" /\ isolate[w].handler # i
           \/ i \in DOMAIN loads /\ loads[i].stage = "posted"
                /\ isolate[w].state # "exiting" /\ isolate[w].working = {}
           \/ r.handler = i /\ (r.state = "exiting" \/ r.working = {i}),
         r.working \subseteq {r.handler},
         r.working # {} => r.state = "live",
         r.handler # 0 => r.handler \in DOMAIN loads' /\ loads'[r.handler].stage \in Told,
         databaseWorker' \in Isolate \cup {0},
         databaseWorker' \notin {0, w} => databaseWorker' = databaseWorker,
         databaseWorker' = w => r.state = "live" /\ (workerBusy' <=> r.working # {}),
         databaseWorker' = 0 => (workerBusy' <=> uncreated'),
         databaseWorker' # 0 => ~uncreated',
         uncreated' \in BOOLEAN,
         databaseWorker' \notin {0, w} => workerBusy' = workerBusy,
         workerBusy' \in BOOLEAN
  PROVE  Workers'
  <1>1. isolate \in [Isolate -> Isolates]
    BY DEF Workers
  <1>2. /\ isolate' \in [Isolate -> Isolates] /\ isolate'[w] = r
        /\ \A v \in Isolate : v # w => isolate'[v] = isolate[v]
    BY <1>1
  <1>3. databaseWorker' # 0 => isolate'[databaseWorker'].state = "live"
    BY <1>2 DEF Workers
  <1>4. ASSUME NEW v \in Isolate
        PROVE  /\ isolate'[v].working # {} => isolate'[v].state = "live"
               /\ isolate'[v].handler # 0 =>
                    /\ isolate'[v].handler \in DOMAIN loads'
                    /\ loads'[isolate'[v].handler].stage \in Told
    BY <1>2 DEF Workers
  <1>5. workerBusy' <=>
          uncreated' \/ (databaseWorker' # 0 /\ isolate'[databaseWorker'].working # {})
    <2>1. databaseWorker' \notin {0, w} => (workerBusy' <=> isolate'[databaseWorker'].working # {})
      BY <1>2 DEF Workers, WorkerServesOne
    <2> QED BY <1>2, <2>1
  <1>6. \A v \in Isolate : isolate'[v].working \subseteq {isolate'[v].handler}
    BY <1>2 DEF Workers, WorkerServesOne
  <1>7. ASSUME NEW i \in DOMAIN loads', loads'[i].stage = "posted"
        PROVE  \E v \in Isolate : /\ isolate'[v].handler = i
                                  /\ isolate'[v].state = "exiting" \/ isolate'[v].working = {i}
    <2>1. CASE r.handler = i /\ (r.state = "exiting" \/ r.working = {i})
      BY <1>2, <2>1
    <2>2. CASE /\ i \in DOMAIN loads /\ loads[i].stage = "posted"
               /\ \/ isolate[w].handler # i
                  \/ isolate[w].state # "exiting" /\ isolate[w].working = {}
      <3>1. PICK v \in Isolate : /\ isolate[v].handler = i
                                 /\ isolate[v].state = "exiting" \/ isolate[v].working = {i}
        BY <2>2 DEF Workers, WorkerServesOne
      <3>2. v # w
        BY <2>2, <3>1
      <3> QED BY <1>2, <3>1, <3>2
    <2> QED BY <1>7, <2>1, <2>2
  <1>8. WorkerServesOne'
    BY <1>5, <1>6, <1>7 DEF WorkerServesOne
  <1> QED BY <1>2, <1>3, <1>4, <1>8 DEF Workers

(* The fields of an isolate.                                                *)
LEMMA IsolateOf ==
  ASSUME Workers, NEW w \in Isolate
  PROVE  /\ isolate[w].state \in {"none", "live", "exiting"}
         /\ isolate[w].handler \in Nat
         /\ isolate[w].working \subseteq {isolate[w].handler}
         /\ isolate[w] = [state |-> isolate[w].state, handler |-> isolate[w].handler,
                          working |-> isolate[w].working]
         /\ 0 \notin Isolate
  <1>1. isolate[w] \in Isolates
    BY DEF Workers
  <1>2. 0 \notin Isolate
    BY DEF Isolate
  <1> QED BY <1>1, <1>2 DEF Isolates, Workers, WorkerServesOne

(* A record of an isolate with other fields.                                *)
LEMMA IsolateWith ==
  ASSUME NEW k \in Isolates, NEW s, NEW S
  PROVE  /\ [k EXCEPT !.working = S] = [state |-> k.state, handler |-> k.handler, working |-> S]
         /\ [k EXCEPT !.state = s] = [state |-> s, handler |-> k.handler, working |-> k.working]
         /\ [[k EXCEPT !.state = s] EXCEPT !.working = S] =
              [state |-> s, handler |-> k.handler, working |-> S]
  <1>1. [k EXCEPT !.working = S] = [state |-> k.state, handler |-> k.handler, working |-> S]
    BY DEF Isolates
  <1>2. [k EXCEPT !.state = s] = [state |-> s, handler |-> k.handler, working |-> k.working]
    BY DEF Isolates
  <1>3. [[k EXCEPT !.state = s] EXCEPT !.working = S] =
          [state |-> s, handler |-> k.handler, working |-> S]
    <2>1. [[state |-> s, handler |-> k.handler, working |-> k.working] EXCEPT !.working = S] =
            [state |-> s, handler |-> k.handler, working |-> S]
      OBVIOUS
    <2> QED BY <1>2, <2>1, Zenon
  <1> QED BY <1>1, <1>2, <1>3

(* An isolate that comes to its end, or is made another record.             *)
LEMMA EndedIs ==
  ASSUME Workers, NEW w \in Isolate
  PROVE  /\ Ended(w) = [isolate EXCEPT ![w] = [state |-> "exiting",
                          handler |-> isolate[w].handler, working |-> {}]]
         /\ [state |-> "exiting", handler |-> isolate[w].handler, working |-> {}] \in Isolates
         /\ NoIsolate \in Isolates
  <1> DEFINE r == [state |-> "exiting", handler |-> isolate[w].handler, working |-> {}]
  <1>1. isolate \in [Isolate -> Isolates] /\ isolate[w] \in Isolates
    BY DEF Workers
  <1>2. [[isolate[w] EXCEPT !.state = "exiting"] EXCEPT !.working = {}] = r
    BY <1>1, IsolateWith
  <1>3. Ended(w) = [isolate EXCEPT ![w] = r]
    BY <1>1, <1>2 DEF Ended
  <1>4. r \in Isolates
    BY IsolateOf DEF Isolates
  <1>5. NoIsolate \in Isolates
    BY DEF Isolates, NoIsolate
  <1> QED BY <1>3, <1>4, <1>5

(* A worker comes to its end: the load it had is told so, or is told later. *)
LEMMA WorkerEnds ==
  ASSUME Workers, Onward, NEW w \in Isolate, NEW r \in Isolates,
         isolate' = [isolate EXCEPT ![w] = r], r.working = {}, r.state # "live",
         r.handler \in {0, isolate[w].handler},
         isolate[w].handler # 0 /\ r # NoIsolate => r.state = "exiting" /\ r.handler = isolate[w].handler,
         r = NoIsolate /\ isolate[w].handler \in DOMAIN loads' =>
           loads'[isolate[w].handler].stage # "posted",
         0 \notin DOMAIN loads',
         ForgetIf(databaseWorker = w)
  PROVE  Workers'
  <1>1. /\ IF databaseWorker = w
           THEN databaseWorker' = 0 /\ workerBusy' = FALSE
           ELSE UNCHANGED <<databaseWorker, workerBusy>>
        /\ UNCHANGED uncreated
    BY DEF ForgetIf
  <1>2. /\ isolate[w].handler \in DOMAIN loads \/ isolate[w].handler = 0
        /\ isolate[w].handler # 0 => loads[isolate[w].handler].stage \in Told
        /\ databaseWorker \in Isolate \cup {0} /\ workerBusy \in BOOLEAN
        /\ databaseWorker = 0 => (workerBusy <=> uncreated)
        /\ uncreated \in BOOLEAN /\ (databaseWorker # 0 => ~uncreated)
    BY DEF Workers, WorkerServesOne
  <1>3. /\ \A i \in DOMAIN loads :
             i \in DOMAIN loads' /\ (loads[i].stage \in Told => loads'[i].stage \in Told)
        /\ \A i \in DOMAIN loads' : loads'[i].stage = "posted" =>
             i \in DOMAIN loads /\ loads[i].stage = "posted"
    BY DEF Onward
  <1>4. \A i \in DOMAIN loads' : loads'[i].stage = "posted" =>
          \/ i \in DOMAIN loads /\ loads[i].stage = "posted" /\ isolate[w].handler # i
          \/ r.handler = i /\ (r.state = "exiting" \/ r.working = {i})
    BY <1>3
  <1>5. r.handler # 0 => r.handler \in DOMAIN loads' /\ loads'[r.handler].stage \in Told
    BY <1>2, <1>3
  <1>6. /\ databaseWorker' \in Isolate \cup {0} /\ databaseWorker' # w
        /\ databaseWorker' \notin {0, w} => databaseWorker' = databaseWorker
        /\ databaseWorker' = 0 => (workerBusy' <=> uncreated')
        /\ databaseWorker' # 0 => ~uncreated'
        /\ uncreated' \in BOOLEAN
        /\ databaseWorker' \notin {0, w} => workerBusy' = workerBusy
        /\ workerBusy' \in BOOLEAN
    BY <1>1, <1>2, IsolateOf
  <1> QED BY <1>3, <1>4, <1>5, <1>6, OneChanges

-----------------------------------------------------------------------------
(* The steps of workers.                                                    *)

(* The counters of the user and of faults.                                  *)
LEMMA BoundsSame ==
  ASSUME Bounds, UNCHANGED userVars, faults' \in Nat
  PROVE  Bounds'
  BY DEF Bounds, userVars

(* One more fault.                                                          *)
LEMMA OneMoreFault ==
  ASSUME Bounds, faults' = faults + 1
  PROVE  faults' \in Nat
  BY DEF Bounds

(* The handler of an isolate belongs to a load that has begun.              *)
LEMMA HandlerOf ==
  ASSUME Inv, NEW w \in Isolate, isolate[w].handler # 0
  PROVE  /\ isolate[w].handler \in DOMAIN loads
         /\ loads[isolate[w].handler].stage \in Begun
  BY DEF Inv, Workers, Told, Begun, Running

(* A worker answers.                                                        *)
LEMMA AnswerInv ==
  ASSUME Inv, NEW w \in Isolate, NEW i \in DOMAIN loads, Answer(w, i)
  PROVE  Inv'
  <1>1. /\ isolate[w].state = "live" /\ i \in isolate[w].working
        /\ isolate' = [isolate EXCEPT ![w].working = @ \ {i}]
        /\ workerBusy' = (workerBusy /\ w # databaseWorker)
        /\ \/ loads[i].db # None /\ OnSuccessMessage(isolate[w].handler)
           \/ OnErrorMessage(isolate[w].handler, "done")
        /\ UNCHANGED <<databaseWorker, uncreated, userVars, faults>>
    BY DEF Answer
  <1>2. isolate[w].handler = i /\ i # 0
    BY <1>1, IsolateOf, Places DEF Inv
  <1>3. loads[i].db \in Database \cup {None}
    BY Places DEF Inv, Loads
  <1>4. /\ LoadsOK(loads') /\ Queue' /\ Onward /\ Registry' /\ Counts'
        /\ i \in DOMAIN loads' /\ loads'[i].stage # "posted"
    BY <1>1, <1>2, <1>3, HandlerOf, Called DEF Inv
  <1> DEFINE r == [state |-> "live", handler |-> i, working |-> {}]
  <1>5. isolate' = [isolate EXCEPT ![w] = r] /\ r \in Isolates
    <2>1. isolate \in [Isolate -> Isolates] /\ isolate[w] \in Isolates
      BY DEF Inv, Workers
    <2>2. isolate[w].working \ {i} = {}
      BY <1>1, <1>2, IsolateOf DEF Inv
    <2>3. [isolate[w] EXCEPT !.working = isolate[w].working \ {i}] = r
      BY <1>1, <1>2, <2>1, <2>2, IsolateWith
    <2>4. r \in Isolates
      BY <1>2, IsolateOf DEF Inv, Isolates
    <2> QED BY <1>1, <2>1, <2>3, <2>4
  <1>6. Workers'
    <2>1. r.working = {} /\ r.handler = i /\ r.state = "live"
      OBVIOUS
    <2>2. /\ databaseWorker' \in Isolate \cup {0} /\ workerBusy' \in BOOLEAN
          /\ databaseWorker' = databaseWorker
          /\ databaseWorker' = w => ~workerBusy'
          /\ databaseWorker' # w => workerBusy' = workerBusy
          /\ uncreated' = uncreated
      BY <1>1 DEF Inv, Workers
    <2>3. w # 0
      BY IsolateOf DEF Inv
    <2>4. /\ databaseWorker = 0 => (workerBusy <=> uncreated)
          /\ databaseWorker # 0 => ~uncreated
          /\ uncreated \in BOOLEAN
      BY DEF Inv, Workers, WorkerServesOne
    <2>5. /\ databaseWorker' = 0 => (workerBusy' <=> uncreated')
          /\ databaseWorker' # 0 => ~uncreated'
          /\ uncreated' \in BOOLEAN
          /\ databaseWorker' \notin {0, w} => workerBusy' = workerBusy
      BY <2>2, <2>3, <2>4
    <2>6. loads[i].stage \in Told
      BY <1>2 DEF Inv, Workers
    <2>7. loads'[i].stage \in Told
      BY <1>4, <2>6 DEF Onward
    <2> HIDE DEF r
    <2> QED BY <1>2, <1>4, <1>5, <2>1, <2>2, <2>5, <2>7, OneChanges DEF Inv, Onward
  <1>7. Bounds'
    BY <1>1, BoundsSame DEF Inv, Bounds
  <1> QED BY <1>4, <1>6, <1>7 DEF Inv

(* A worker fails.                                                          *)
LEMMA WorkerFailsInv ==
  ASSUME Inv, NEW w \in Isolate, WorkerFails(w)
  PROVE  Inv'
  <1> DEFINE r == [state |-> "exiting", handler |-> isolate[w].handler, working |-> {}]
  <1>1. /\ faults' = faults + 1 /\ isolate' = Ended(w)
        /\ ForgetIf(databaseWorker = w)
        /\ IF isolate[w].handler = 0 THEN NoCallback ELSE OnAllErrors(isolate[w].handler)
        /\ UNCHANGED userVars
    BY DEF WorkerFails
  <1>2. LoadsOK(loads') /\ Queue' /\ Onward /\ Registry' /\ Counts'
    <2>1. CASE isolate[w].handler = 0
      <3>1. UNCHANGED <<loads, queueVars, sessionVars, countVars>>
        BY <1>1, <2>1 DEF NoCallback
      <3> QED BY <3>1, RegistrySame, CountsSame DEF Inv, Queue, Onward, queueVars
    <2>2. CASE isolate[w].handler # 0
      <3>1. \/ OnErrorMessage(isolate[w].handler, "lost")
            \/ OnErrorMessage(isolate[w].handler, "done")
        BY <1>1, <2>2 DEF OnAllErrors
      <3> QED BY <2>2, <3>1, HandlerOf, Called DEF Inv
    <2> QED BY <2>1, <2>2
  <1>3. isolate' = [isolate EXCEPT ![w] = r] /\ r \in Isolates
    BY <1>1, EndedIs DEF Inv
  <1>4. 0 \notin DOMAIN loads'
    BY <1>2, Places
  <1>5. r.working = {} /\ r.handler = isolate[w].handler /\ r.state = "exiting" /\ r # NoIsolate
    BY DEF NoIsolate
  <1>6. Workers'
    <2> HIDE DEF r
    <2> QED BY <1>1, <1>2, <1>3, <1>4, <1>5, WorkerEnds DEF Inv
  <1>7. Bounds'
    BY <1>1, OneMoreFault, BoundsSame DEF Inv
  <1> QED BY <1>2, <1>6, <1>7 DEF Inv

(* A worker exits.                                                          *)
LEMMA WorkerExitsInv ==
  ASSUME Inv, NEW w \in Isolate, WorkerExits(w), faults' \in Nat
  PROVE  Inv'
  <1>1. /\ isolate' = [isolate EXCEPT ![w] = NoIsolate]
        /\ ForgetIf(databaseWorker = w)
        /\ IF isolate[w].handler = 0 THEN NoCallback ELSE OnExit(isolate[w].handler)
        /\ UNCHANGED userVars
    BY DEF WorkerExits
  <1>2. /\ LoadsOK(loads') /\ Queue' /\ Onward /\ Registry' /\ Counts'
        /\ isolate[w].handler # 0 => loads'[isolate[w].handler].stage # "posted"
    <2>1. CASE isolate[w].handler = 0
      <3>1. UNCHANGED <<loads, queueVars, sessionVars, countVars>>
        BY <1>1, <2>1 DEF NoCallback
      <3> QED BY <2>1, <3>1, RegistrySame, CountsSame DEF Inv, Queue, Onward, queueVars
    <2>2. CASE isolate[w].handler # 0
      BY <1>1, <2>2, HandlerOf, Called DEF Inv
    <2> QED BY <2>1, <2>2
  <1>3. 0 \notin DOMAIN loads'
    BY <1>2, Places
  <1>4. NoIsolate.working = {} /\ NoIsolate.handler = 0 /\ NoIsolate.state = "none"
    BY DEF NoIsolate
  <1>5. NoIsolate \in Isolates
    BY EndedIs DEF Inv
  <1>6. Workers'
    BY <1>1, <1>2, <1>3, <1>4, <1>5, WorkerEnds DEF Inv
  <1>7. Bounds'
    BY <1>1, BoundsSame DEF Inv
  <1> QED BY <1>2, <1>6, <1>7 DEF Inv
-----------------------------------------------------------------------------
(* The steps of one load.                                                   *)

(* A load whose scan begins.                                                *)
LEMMA NewScan ==
  ASSUME NEW l \in Loads, NEW left \in Seq(Database)
  PROVE  LET k == [[l EXCEPT !.stage = "scanning"] EXCEPT !.left = left]
         IN  /\ k \in Loads /\ k.stage = "scanning" /\ k.db = l.db /\ k.kind = l.kind
             /\ k.by = l.by /\ k.parent = l.parent
  BY DEF Loads, Stages, Answered

(* The same for a refresh that is to read the database of now.              *)
LEMMA NewDb ==
  ASSUME NEW l \in Loads, NEW d \in Database \cup {None}
  PROVE  LET k == [[l EXCEPT !.stage = "sizing"] EXCEPT !.db = d]
         IN  /\ k \in Loads /\ k.stage = "sizing" /\ k.db = d /\ k.kind = l.kind
             /\ k.by = l.by /\ k.parent = l.parent
  BY DEF Loads, Stages, InFlight

(* A load with other children to look at.                                   *)
LEMMA NewLeft ==
  ASSUME NEW l \in Loads, NEW left \in Seq(Database)
  PROVE  LET k == [l EXCEPT !.left = left]
         IN  /\ k \in Loads /\ k.stage = l.stage /\ k.db = l.db /\ k.kind = l.kind
             /\ k.by = l.by /\ k.parent = l.parent
  BY DEF Loads

(* A load that has queued a child.                                          *)
LEMMA NewQueued ==
  ASSUME NEW l \in Loads
  PROVE  LET k == [l EXCEPT !.queued = TRUE]
         IN  /\ k \in Loads /\ k.stage = l.stage /\ k.db = l.db /\ k.kind = l.kind
             /\ k.by = l.by /\ k.parent = l.parent
  BY DEF Loads

(* One load becomes another, of which the queue takes no notice.            *)
LEMMA Rewritten ==
  ASSUME LoadsOK(loads), Queue, NEW i \in DOMAIN loads, NEW l, LoadOK(l, Len(loads)),
         loads' = [loads EXCEPT ![i] = l], UNCHANGED queueVars,
         l.kind = loads[i].kind, l.stage # "queued", loads[i].stage # "queued",
         l.kind = "child" => (l.stage \in Running <=> loads[i].stage \in Running)
  PROVE  /\ LoadsOK(loads') /\ Queue' /\ DOMAIN loads' = DOMAIN loads
         /\ loads'[i] = l /\ \A j \in DOMAIN loads : j # i => loads'[j] = loads[j]
         /\ (loads[i].stage \in Told => l.stage \in Told)
              /\ (l.stage = "posted" => loads[i].stage = "posted") => Onward
  <1> DEFINE M == [loads EXCEPT ![i] = l]
  <1>1. /\ LoadsOK(M) /\ DOMAIN M = DOMAIN loads /\ M[i] = l
        /\ \A j \in DOMAIN loads : j # i => M[j] = loads[j]
    BY Replaced
  <1>2. loads' = M
    OBVIOUS
  <1> HIDE DEF M
  <1>3. Serial(loads, pendingLoads, currentPendingLoad) /\ 0 \notin DOMAIN loads
    BY Places DEF Queue
  <1>4. Serial(M, pendingLoads, currentPendingLoad)
    BY <1>1, <1>3, SerialKept
  <1>5. Queue'
    BY <1>2, <1>4 DEF Queue, queueVars
  <1>6. /\ LoadsOK(loads') /\ DOMAIN loads' = DOMAIN loads /\ loads'[i] = l
        /\ \A j \in DOMAIN loads : j # i => loads'[j] = loads[j]
    BY <1>1, <1>2
  <1>7. ASSUME loads[i].stage \in Told => l.stage \in Told,
               l.stage = "posted" => loads[i].stage = "posted"
        PROVE  Onward
    <2>1. \A j \in DOMAIN loads :
            /\ loads[j].stage \in Told => loads'[j].stage \in Told
            /\ loads'[j].stage = "posted" => loads[j].stage = "posted"
      BY <1>6, <1>7
    <2> QED BY <1>6, <2>1 DEF Onward
  <1> QED BY <1>5, <1>6, <1>7

(* One load goes to another stage, of which the queue takes no notice.      *)
LEMMA Stays ==
  ASSUME LoadsOK(loads), Queue, NEW i \in DOMAIN loads, NEW stage \in Stages,
         stage \in {"main"} \cup Answered => loads[i].db \in Database,
         stage \in {"opening", "noting"} => loads[i].kind = "child",
         stage \notin {"queued", "probing"}, loads[i].stage # "queued",
         loads[i].kind = "child" => (stage \in Running <=> loads[i].stage \in Running),
         loads' = To(loads, i, stage), UNCHANGED queueVars
  PROVE  /\ LoadsOK(loads') /\ Queue' /\ DOMAIN loads' = DOMAIN loads
         /\ loads'[i].stage = stage
         /\ \A j \in DOMAIN loads : j # i => loads'[j] = loads[j]
         /\ (loads[i].stage \in Told => stage \in Told)
              /\ (stage = "posted" => loads[i].stage = "posted") => Onward
  <1> DEFINE l == [loads[i] EXCEPT !.stage = stage]
  <1>1. LoadOK(loads[i], Len(loads)) /\ loads[i] \in Loads
    BY Places
  <1>2. /\ l \in Loads /\ l.stage = stage /\ l.db = loads[i].db /\ l.kind = loads[i].kind
        /\ l.by = loads[i].by /\ l.parent = loads[i].parent
    BY <1>1, NewStage
  <1>3. loads' = [loads EXCEPT ![i] = l]
    BY DEF To
  <1> HIDE DEF l
  <1>4. LoadOK(l, Len(loads))
    BY <1>1, <1>2 DEF LoadOK
  <1> QED BY <1>2, <1>3, <1>4, Rewritten

(* One load more, of which the queue takes no notice.                       *)
LEMMA Joins ==
  ASSUME LoadsOK(loads), Queue, NEW M, LoadsOK(M), DOMAIN M = DOMAIN loads,
         \A j \in DOMAIN M : M[j].kind = loads[j].kind /\ M[j].stage = loads[j].stage,
         NEW l, LoadOK(l, Len(M)), l.stage \notin {"queued", "posted"},
         ~(l.kind = "child" /\ l.stage \in Running),
         loads' = Append(M, l), UNCHANGED queueVars
  PROVE  LoadsOK(loads') /\ Queue' /\ Onward
  <1> DEFINE N == Append(M, l)
  <1>1. /\ LoadsOK(N) /\ DOMAIN N = DOMAIN M \cup {Len(M) + 1}
        /\ N[Len(M) + 1] = l /\ \A j \in DOMAIN M : N[j] = M[j]
    BY Added
  <1>2. loads' = N
    OBVIOUS
  <1> HIDE DEF N
  <1>3. Serial(loads, pendingLoads, currentPendingLoad) /\ 0 \notin DOMAIN N
    BY <1>1, Places DEF Queue
  <1>4. \A j \in DOMAIN N \ DOMAIN loads : N[j] = l
    BY <1>1
  <1>5. \A j \in DOMAIN loads : N[j].kind = loads[j].kind /\ N[j].stage = loads[j].stage
    BY <1>1
  <1>6. DOMAIN loads \subseteq DOMAIN N
    BY <1>1
  <1>7. Serial(N, pendingLoads, currentPendingLoad)
    BY <1>3, <1>4, <1>5, <1>6, SerialKept
  <1>8. Queue'
    BY <1>2, <1>7 DEF Queue, queueVars
  <1>9. Onward
    BY <1>2, <1>4, <1>5, <1>6 DEF Onward
  <1> QED BY <1>1, <1>2, <1>8, <1>9
-----------------------------------------------------------------------------
(* The registry, when a database is opened.                                 *)

(* A database is put.                                                       *)
LEMMA PutKeeps ==
  ASSUME Registry, NEW d \in Database, NEW child, Put(d, child),
         UNCHANGED <<emptyParam, attempted>>, currentKey' \in Open \cup {d, None}
  PROVE  Registry' /\ records'[d] = d
  <1>1. /\ records' = [records EXCEPT ![d] = d]
        /\ childRecords' \subseteq childRecords \cup {d}
    BY DEF Put
  <1>2. records \in [Database -> Database \cup {None}] /\ childRecords \subseteq Open
    BY DEF Registry
  <1>3. /\ records' \in [Database -> Database \cup {None}] /\ records'[d] = d
        /\ \A e \in Database : e # d => records'[e] = records[e]
    BY <1>1, <1>2
  <1>4. Open' = Open \cup {d}
    BY <1>3, NoneIsNone DEF Open
  <1> QED BY <1>1, <1>2, <1>3, <1>4 DEF Registry

(* The session object is filled anew.                                       *)
LEMMA ResetKeeps ==
  ASSUME Registry, NEW d \in Database, ResetDbFileParam(d)
  PROVE  Registry'
  <1>1. CASE currentKey = None
    <2>1. UNCHANGED <<records, childRecords, currentKey, attempted>> /\ emptyParam' = d
      BY <1>1 DEF ResetDbFileParam
    <2> QED BY <2>1 DEF Registry, Open
  <1>2. CASE currentKey # None
    <2>1. /\ records' = [records EXCEPT ![currentKey] = d]
          /\ UNCHANGED <<childRecords, currentKey, attempted, emptyParam>>
      BY <1>2 DEF ResetDbFileParam
    <2>2. currentKey \in Database /\ currentKey \in Open
      BY <1>2 DEF Registry, Open
    <2>3. /\ records' \in [Database -> Database \cup {None}] /\ records'[currentKey] = d
          /\ \A e \in Database : e # currentKey => records'[e] = records[e]
      BY <2>1, <2>2 DEF Registry
    <2>4. Open' = Open
      BY <2>2, <2>3, NoneIsNone DEF Open
    <2> QED BY <2>1, <2>3, <2>4 DEF Registry
  <1> QED BY <1>1, <1>2

-----------------------------------------------------------------------------
(* The steps of a load that the workers take no part in.                    *)

(* What is left to show of such a step.                                     *)
LEMMA Rest ==
  ASSUME Inv, LoadsOK(loads'), Queue', Onward, UNCHANGED workerVars, Registry', Counts',
         UNCHANGED userVars, UNCHANGED faults
  PROVE  Inv'
  <1>1. Workers'
    BY WorkersSame DEF Inv
  <1>2. Bounds'
    BY BoundsSame DEF Inv, Bounds
  <1> QED BY <1>1, <1>2 DEF Inv

(* A small database is read on the main thread.                             *)
LEMMA LoadOnMainInv ==
  ASSUME Inv, NEW i \in DOMAIN loads, LoadOnMain(i)
  PROVE  Inv'
  <1>1. /\ loads[i].stage = "sizing" /\ loads[i].db \in Database
        /\ loads' = To(loads, i, "main")
        /\ UNCHANGED <<queueVars, workerVars, sessionVars, countVars, userVars, faults>>
    BY DatabaseAssumption DEF LoadOnMain
  <1>2. /\ "main" \in Stages /\ "main" \in Running /\ "sizing" \in Running
        /\ "sizing" \notin Told /\ "main" \notin {"opening", "noting", "queued", "probing", "posted"}
    BY DEF Stages, InFlight, Running, Told, Answered, Over
  <1>3. LoadsOK(loads') /\ Queue' /\ Onward
    BY <1>1, <1>2, Stays DEF Inv
  <1> QED BY <1>1, <1>3, Rest, RegistrySame, CountsSame DEF Inv

(* A big one finds the worker busy.                                         *)
LEMMA RefuseBusyInv ==
  ASSUME Inv, NEW i \in DOMAIN loads, RefuseBusy(i)
  PROVE  Inv'
  <1>1. /\ loads[i].stage = "sizing" /\ OnErrorMessage(i, "done")
        /\ UNCHANGED <<workerVars, userVars, faults>>
    BY DEF RefuseBusy
  <1>2. "sizing" \in Begun
    BY DEF Begun, Running
  <1>3. LoadsOK(loads') /\ Queue' /\ Onward /\ Registry' /\ Counts'
    BY <1>1, <1>2, Called DEF Inv
  <1> QED BY <1>1, <1>3, Rest

(* The main thread has read it.                                             *)
LEMMA MainAnswersInv ==
  ASSUME Inv, NEW i \in DOMAIN loads, MainAnswers(i)
  PROVE  Inv'
  <1>1. /\ loads[i].stage = "main"
        /\ OnSuccessMessage(i) \/ OnErrorMessage(i, "done")
        /\ UNCHANGED <<workerVars, userVars, faults>>
    BY DEF MainAnswers
  <1>2. "main" \in Begun
    BY DEF Begun, Running
  <1>3. loads[i].db \in Database
    BY <1>1, Places DEF Inv, LoadOK
  <1>4. LoadsOK(loads') /\ Queue' /\ Onward /\ Registry' /\ Counts'
    BY <1>1, <1>2, <1>3, Called DEF Inv
  <1> QED BY <1>1, <1>4, Rest

(* A load that was answered, or is only asked for, is over.                 *)
LEMMA EndsHere ==
  ASSUME LoadsOK(loads), Queue, NEW i \in DOMAIN loads,
         loads[i].stage \in Answered \cup Asked, loads' = To(loads, i, "done"), UNCHANGED queueVars
  PROVE  LoadsOK(loads') /\ Queue' /\ Onward
  <1>1. /\ "done" \in Stages /\ "done" \notin Running /\ "done" \in Told
        /\ "done" \notin {"main", "opening", "noting", "queued", "probing", "posted"} \cup Answered
        /\ loads[i].stage \notin Running /\ loads[i].stage # "queued"
    BY DEF Stages, Running, Told, Answered, Asked, Over
  <1> QED BY <1>1, Stays

(* The model cannot be restored.                                            *)
LEMMA RestoreFailsInv ==
  ASSUME Inv, NEW i \in DOMAIN loads, RestoreFails(i)
  PROVE  Inv'
  <1>1. /\ loads[i].stage = "restoring" /\ loads' = To(loads, i, "done")
        /\ IF IsChild(i) THEN EndPending(loads[i].parent, announced) ELSE UNCHANGED countVars
        /\ UNCHANGED <<queueVars, workerVars, sessionVars, userVars, faults>>
    BY DEF RestoreFails
  <1>2. LoadsOK(loads') /\ Queue' /\ Onward
    BY <1>1, EndsHere DEF Inv, Answered
  <1>3. IsChild(i) => loads[i].parent \in Database
    BY Places DEF Inv, LoadOK, IsChild
  <1>4. announced \in SUBSET Database
    BY DEF Inv, Counts
  <1>5. Counts'
    BY <1>1, <1>3, <1>4, PendingEnds, CountsSame DEF Inv
  <1> QED BY <1>1, <1>2, <1>5, Rest, RegistrySame DEF Inv

(* A scan begins.                                                           *)
LEMMA ScanBegins ==
  ASSUME LoadsOK(loads), Queue, NEW i \in DOMAIN loads,
         loads[i].stage \in Answered, NEW rec, rec[loads[i].db] \in Database,
         loads[i].db \in Database, loads' = Scans(loads, i, rec), UNCHANGED queueVars
  PROVE  LoadsOK(loads') /\ Queue' /\ Onward
  <1>0. PICK k \in Loads : k = loads[i]
    BY Places
  <1>2. PICK left \in Seq(Database) : left = AutoOpen[rec[k.db]]
    BY <1>0, DatabaseAssumption
  <1> DEFINE l == [[k EXCEPT !.stage = "scanning"] EXCEPT !.left = left]
  <1>1. LoadOK(loads[i], Len(loads)) /\ loads[i] \in Loads
    BY Places
  <1>4. loads' = [loads EXCEPT ![i] = l]
    BY <1>0, <1>2 DEF Scans
  <1>5. /\ l \in Loads /\ l.stage = "scanning" /\ l.db = k.db /\ l.kind = k.kind
        /\ l.by = k.by /\ l.parent = k.parent
    BY NewScan
  <1> HIDE DEF l
  <1>6. LoadOK(l, Len(loads))
    BY <1>0, <1>1, <1>5 DEF LoadOK
  <1>7. /\ "scanning" \notin Running /\ "scanning" \in Told
        /\ loads[i].stage \notin Running /\ loads[i].stage # "queued"
    BY DEF Running, Told, Answered
  <1>8. /\ LoadsOK(loads') /\ Queue'
        /\ (loads[i].stage \in Told => l.stage \in Told)
             /\ (l.stage = "posted" => loads[i].stage = "posted") => Onward
    BY <1>0, <1>4, <1>5, <1>6, <1>7, Rewritten
  <1> QED BY <1>5, <1>7, <1>8

(* The page of a password opens the database.                               *)
LEMMA PageOpensInv ==
  ASSUME Inv, NEW i \in DOMAIN loads, PageOpens(i)
  PROVE  Inv'
  <1> DEFINE d == loads[i].db
  <1>1. /\ loads[i].stage = "restoring" /\ Put(d, FALSE)
        /\ currentKey' \in {d} \cup Open
        /\ \/ loads' = Scans(loads, i, records') /\ announced' = announced \ {d}
           \/ loads' = To(loads, i, "done") /\ UNCHANGED announced
        /\ UNCHANGED <<queueVars, workerVars, emptyParam, attempted, pendingByParent,
                       userVars, faults>>
    BY DEF PageOpens
  <1>2. "restoring" \in Answered
    BY DEF Answered
  <1>3. d \in Database
    BY <1>1, <1>2, Places DEF Inv, LoadOK
  <1>4. Registry' /\ records'[d] = d
    BY <1>1, <1>3, PutKeeps DEF Inv
  <1>5. LoadsOK(loads') /\ Queue' /\ Onward
    BY <1>1, <1>2, <1>3, <1>4, ScanBegins, EndsHere DEF Inv
  <1>6. Counts'
    BY <1>1 DEF Inv, Counts
  <1> QED BY <1>1, <1>4, <1>5, <1>6, Rest

(* A refresh puts the model it read in the session object of now.           *)
LEMMA RefreshEndsInv ==
  ASSUME Inv, NEW i \in DOMAIN loads, RefreshEnds(i)
  PROVE  Inv'
  <1>1. /\ loads[i].stage = "restoring" /\ ResetDbFileParam(loads[i].db)
        /\ loads' = To(loads, i, "done")
        /\ UNCHANGED <<queueVars, workerVars, countVars, userVars, faults>>
    BY DEF RefreshEnds
  <1>2. "restoring" \in Answered
    BY DEF Answered
  <1>3. loads[i].db \in Database
    BY <1>1, <1>2, Places DEF Inv, LoadOK
  <1>4. LoadsOK(loads') /\ Queue' /\ Onward
    BY <1>1, <1>2, EndsHere DEF Inv
  <1> QED BY <1>1, <1>3, <1>4, Rest, ResetKeeps, CountsSame DEF Inv

(* A child is opened.                                                       *)
LEMMA ChildOpensInv ==
  ASSUME Inv, NEW i \in DOMAIN loads, ChildOpens(i)
  PROVE  Inv'
  <1>1. /\ loads[i].stage = "restoring" /\ loads[i].kind = "child"
        /\ Put(loads[i].db, TRUE)
        /\ currentKey' \in {loads[i].db, currentKey}
        /\ loads' = To(loads, i, "noting")
        /\ UNCHANGED <<queueVars, workerVars, emptyParam, attempted, countVars, userVars, faults>>
    BY DEF ChildOpens, IsChild
  <1>2. "restoring" \in Answered /\ "noting" \in Stages
    BY DEF Answered, Stages
  <1>3. loads[i].db \in Database
    BY <1>1, <1>2, Places DEF Inv, LoadOK
  <1>4. currentKey' \in Open \cup {loads[i].db, None}
    BY <1>1 DEF Inv, Registry
  <1>5. Registry'
    BY <1>1, <1>3, <1>4, PutKeeps DEF Inv
  <1>6. "restoring" \notin Running /\ "noting" \notin Running /\ "noting" \in Told
    BY DEF Running, Told, Answered
  <1>7. LoadsOK(loads') /\ Queue' /\ Onward
    BY <1>1, <1>2, <1>3, <1>6, Stays DEF Inv
  <1> QED BY <1>1, <1>5, <1>7, Rest, CountsSame DEF Inv

(* Its own children are looked for.                                         *)
LEMMA ChildScansInv ==
  ASSUME Inv, NEW i \in DOMAIN loads, ChildScans(i)
  PROVE  Inv'
  <1>1. loads[i].stage = "noting"
        /\ UNCHANGED <<queueVars, workerVars, sessionVars, userVars, faults>>
    BY DEF ChildScans
  <1>2. "noting" \in Answered
    BY DEF Answered
  <1>3. loads[i].db \in Database /\ loads[i].parent \in Database
    BY <1>1, <1>2, Places DEF Inv, LoadOK
  <1>4. announced \in SUBSET Database
    BY DEF Inv, Counts
  <1>5. CASE /\ loads[i].db \in Open
             /\ loads' = Scans(loads, i, records) /\ announced' = announced \ {loads[i].db}
             /\ UNCHANGED pendingByParent
    <2>1. records[loads[i].db] \in Database
      BY <1>5 DEF Inv, Registry, Open
    <2>2. LoadsOK(loads') /\ Queue' /\ Onward
      BY <1>1, <1>2, <1>3, <1>5, <2>1, ScanBegins DEF Inv
    <2>3. Counts'
      BY <1>5 DEF Inv, Counts
    <2> QED BY <1>1, <2>2, <2>3, Rest, RegistrySame DEF Inv
  <1>6. CASE loads' = To(loads, i, "done") /\ EndPending(loads[i].parent, announced)
    <2>1. LoadsOK(loads') /\ Queue' /\ Onward
      BY <1>1, <1>2, <1>6, EndsHere DEF Inv
    <2>2. Counts'
      BY <1>3, <1>4, <1>6, PendingEnds DEF Inv
    <2> QED BY <1>1, <2>1, <2>2, Rest, RegistrySame DEF Inv
  <1> QED BY <1>5, <1>6 DEF ChildScans

(* A child that is to be opened.                                            *)
LEMMA Child ==
  ASSUME NEW c \in Database, NEW p \in Database, NEW n \in Nat, NEW by \in 0 .. n,
         NEW makeCurrent \in BOOLEAN
  PROVE  /\ LoadOK(NewChild(c, p, by, makeCurrent), n)
         /\ NewChild(c, p, by, makeCurrent).stage = "opening"
  <1> DEFINE k == NewChild(c, p, by, makeCurrent)
  <1>1. /\ k.stage = "opening" /\ k.by = by /\ k.kind = "child" /\ k.db = c /\ k.parent = p
    BY DEF NewChild
  <1>2. "opening" \in Stages /\ "child" \in Kinds /\ <<>> \in Seq(Database) /\ by \in Nat
    BY DEF Stages, Asked, Kinds
  <1>3. k \in Loads
    BY <1>2 DEF NewChild, Loads
  <1> HIDE DEF k
  <1>4. LoadOK(k, n)
    BY <1>1, <1>3 DEF LoadOK
  <1> QED BY <1>1, <1>4 DEF k

(* A scan takes the next child.                                             *)
LEMMA ScanNextInv ==
  ASSUME Inv, NEW i \in DOMAIN loads, ScanNext(i)
  PROVE  Inv'
  <1>0. PICK k \in Loads : k = loads[i]
    BY Places DEF Inv
  <1>1. LoadOK(k, Len(loads)) /\ Len(loads) \in Nat
    BY <1>0, Places DEF Inv
  <1>2. k.stage = "scanning" /\ k.left # <<>> /\ k.left \in Seq(Database)
    BY <1>0 DEF ScanNext, Scanning, Loads
  <1>3. PICK c \in Database : c = Head(k.left)
    BY <1>2, HeadOfQueue
  <1>4. PICK left \in Seq(Database) : left = Tail(k.left)
    BY <1>2, HeadOfQueue
  <1> DEFINE l == [k EXCEPT !.left = left]
             L == [loads EXCEPT ![i] = l]
  <1>5. L = [loads EXCEPT ![i].left = Tail(@)]
    BY <1>0, <1>4
  <1>6. /\ \/ loads' = L /\ UNCHANGED attempted
           \/ loads' = Append(L, NewChild(c, k.db, i, FALSE)) /\ attempted' = attempted \cup {c}
        /\ UNCHANGED <<queueVars, workerVars, records, childRecords, currentKey,
                       emptyParam, countVars, userVars, faults>>
    BY <1>0, <1>3, <1>5 DEF ScanNext
  <1>7. /\ l \in Loads /\ l.stage = k.stage /\ l.db = k.db /\ l.kind = k.kind
        /\ l.by = k.by /\ l.parent = k.parent
    BY NewLeft
  <1>8. /\ k.db \in Database /\ "scanning" \notin Running
    BY <1>1, <1>2 DEF LoadOK, Answered, Running
  <1> HIDE DEF l
  <1>9. LoadOK(l, Len(loads))
    BY <1>1, <1>7 DEF LoadOK
  <1>10. /\ LoadsOK(L) /\ DOMAIN L = DOMAIN loads /\ Len(L) = Len(loads) /\ L[i] = l
         /\ \A j \in DOMAIN loads : j # i => L[j] = loads[j]
    BY <1>9, Replaced DEF Inv
  <1>11. \A j \in DOMAIN L : L[j].kind = loads[j].kind /\ L[j].stage = loads[j].stage
    BY <1>0, <1>7, <1>10
  <1>12. LoadsOK(loads') /\ Queue' /\ Onward
    <2>1. CASE loads' = L
      <3>1. /\ LoadsOK(loads') /\ Queue'
            /\ (loads[i].stage \in Told => l.stage \in Told)
                 /\ (l.stage = "posted" => loads[i].stage = "posted") => Onward
        BY <1>0, <1>2, <1>6, <1>7, <1>8, <1>9, <2>1, Rewritten DEF Inv
      <3> QED BY <1>0, <1>7, <3>1
    <2>2. CASE loads' = Append(L, NewChild(c, k.db, i, FALSE))
      <3>1. i \in 0 .. Len(loads)
        BY <1>1, Places DEF Inv
      <3>2. PICK n : n = NewChild(c, k.db, i, FALSE)
        OBVIOUS
      <3>3. LoadOK(n, Len(L)) /\ n.stage = "opening"
        BY <1>1, <1>8, <1>10, <3>1, <3>2, Child
      <3>4. n.stage \notin {"queued", "posted"} \cup Running
        BY <3>3 DEF Running
      <3>5. loads' = Append(L, n)
        BY <2>2, <3>2
      <3> HIDE DEF L
      <3> QED BY <1>6, <1>10, <1>11, <3>3, <3>4, <3>5, Joins DEF Inv
    <2> QED BY <1>6, <2>1, <2>2
  <1>13. Registry'
    BY <1>6 DEF Inv, Registry, Open
  <1> QED BY <1>6, <1>12, <1>13, Rest, CountsSame DEF Inv

(* A scan ends.                                                             *)
LEMMA ScanEndsInv ==
  ASSUME Inv, NEW i \in DOMAIN loads, ScanEnds(i)
  PROVE  Inv'
  <1> DEFINE done == IF loads[i].queued THEN announced ELSE announced \cup {loads[i].db}
  <1>1. /\ loads[i].stage = "scanning" /\ loads' = To(loads, i, "done")
        /\ IF IsChild(i)
           THEN EndPending(loads[i].parent, done)
           ELSE announced' = done /\ UNCHANGED pendingByParent
        /\ UNCHANGED <<queueVars, workerVars, sessionVars, userVars, faults>>
    BY DEF ScanEnds, Scanning
  <1>2. "scanning" \in Answered
    BY DEF Answered
  <1>3. LoadsOK(loads') /\ Queue' /\ Onward
    BY <1>1, <1>2, EndsHere DEF Inv
  <1>4. loads[i].db \in Database /\ (IsChild(i) => loads[i].parent \in Database)
    BY <1>1, <1>2, Places DEF Inv, LoadOK, IsChild
  <1>5. done \in SUBSET Database
    BY <1>4 DEF Inv, Counts
  <1> HIDE DEF done
  <1>6. Counts'
    <2>1. CASE IsChild(i)
      BY <1>1, <1>4, <1>5, <2>1, PendingEnds DEF Inv
    <2>2. CASE ~IsChild(i)
      BY <1>1, <1>5, <2>2 DEF Inv, Counts
    <2> QED BY <2>1, <2>2
  <1> QED BY <1>1, <1>3, <1>6, Rest, RegistrySame DEF Inv

(* A load joins the queue.                                                  *)
LEMMA Enqueues ==
  ASSUME LoadsOK(loads), Queue, NEW i \in DOMAIN loads, loads[i].stage = "opening",
         NEW L, LoadsOK(L), DOMAIN L = DOMAIN loads,
         \A j \in DOMAIN L : L[j].kind = loads[j].kind /\ L[j].stage = loads[j].stage,
         EnqueueLoad(L, i)
  PROVE  LoadsOK(loads') /\ Queue' /\ Onward
  <1> DEFINE M == To(L, i, "queued")
             q == pendingLoads
             r == Append(pendingLoads, i)
             c == currentPendingLoad
  <1>1. Serial(loads, q, c)
    BY DEF Queue
  <1>2. L[i].kind = "child" /\ L[i].stage = "opening"
    BY Places DEF LoadOK
  <1>3. /\ LoadsOK(M) /\ DOMAIN M = DOMAIN L
        /\ \A j \in DOMAIN L : /\ M[j].stage = IF j = i THEN "queued" ELSE L[j].stage
                              /\ M[j].kind = L[j].kind
    <2>1. /\ "queued" \in Stages /\ "queued" \notin {"main"} \cup Answered
      BY DEF Stages, InFlight, Answered
    <2> QED BY <1>2, <2>1, Staged
  <1>4. /\ q \in Seq(DOMAIN L) /\ c \in DOMAIN L \cup {0}
        /\ Len(q) \in Nat /\ DOMAIN q = 1 .. Len(q)
    BY <1>1 DEF Serial
  <1>5. /\ r \in Seq(DOMAIN L) /\ DOMAIN r = DOMAIN q \cup {Len(q) + 1}
        /\ Len(q) + 1 \notin DOMAIN q
        /\ r[Len(q) + 1] = i /\ \A n \in DOMAIN q : r[n] = q[n]
    <2>1. /\ r \in Seq(DOMAIN L) /\ Len(r) = Len(q) + 1
          /\ r[Len(q) + 1] = i /\ \A n \in 1 .. Len(q) : r[n] = q[n]
      BY <1>4, AppendProperties
    <2>2. DOMAIN r = 1 .. Len(q) + 1
      BY <2>1
    <2> QED BY <1>4, <2>1, <2>2
  <1>6. \A n \in DOMAIN q : q[n] # i
    BY <1>1, <1>2 DEF Serial
  <1> HIDE DEF M, r, q, c
  <1>7. ASSUME NEW j \in DOMAIN M
        PROVE  /\ j = c <=> M[j].kind = "child" /\ M[j].stage \in Running
               /\ M[j].stage = "queued" <=> \E n \in DOMAIN r : r[n] = j
    <2>1. /\ j = c <=> loads[j].kind = "child" /\ loads[j].stage \in Running
          /\ loads[j].stage = "queued" <=> \E n \in DOMAIN q : q[n] = j
      BY <1>1, <1>3 DEF Serial
    <2>2. CASE j = i
      BY <1>2, <1>3, <1>5, <2>1, <2>2 DEF Running
    <2>3. CASE j # i
      BY <1>3, <1>5, <2>1, <2>3
    <2> QED BY <2>2, <2>3
  <1>8. \A m, n \in DOMAIN r : r[m] = r[n] => m = n
    BY <1>1, <1>5, <1>6 DEF Serial
  <1>9. Serial(M, r, c)
    BY <1>3, <1>4, <1>5, <1>7, <1>8 DEF Serial
  <1>10. /\ LoadsOK(loads') /\ Queue' /\ DOMAIN loads' = DOMAIN M
         /\ \A j \in DOMAIN M : Sized(M[j].stage, loads'[j].stage)
    <2>1. CASE c # 0
      <3>1. loads' = M /\ pendingLoads' = r /\ currentPendingLoad' = c
        BY <2>1 DEF EnqueueLoad, M, r, c
      <3>2. Queue'
        BY <1>9, <2>1, <3>1 DEF Queue
      <3>3. \A j \in DOMAIN M : loads'[j].stage = M[j].stage
        BY <3>1
      <3> QED BY <1>3, <3>1, <3>2, <3>3 DEF Sized
    <2>2. CASE c = 0
      <3>1. DispatchNextPendingLoad(M, r)
        BY <2>2 DEF EnqueueLoad, M, r, c
      <3> QED BY <1>3, <1>9, <2>2, <3>1, Dispatches
    <2> QED BY <2>1, <2>2
  <1>11. \A j \in DOMAIN loads :
           /\ loads[j].stage \in Told => loads'[j].stage \in Told
           /\ loads'[j].stage = "posted" => loads[j].stage = "posted"
    BY <1>2, <1>3, <1>10 DEF Sized, Told, Answered, Over
  <1> QED BY <1>3, <1>10, <1>11 DEF Onward

(* A child joins the queue.                                                 *)
LEMMA ChildQueuedInv ==
  ASSUME Inv, NEW i \in DOMAIN loads, ChildQueued(i)
  PROVE  Inv'
  <1> DEFINE p == loads[i].parent
             by == loads[i].by
             L == IF by = 0 THEN loads ELSE [loads EXCEPT ![by].queued = TRUE]
  <1>1. /\ loads[i].stage = "opening"
        /\ pendingByParent' = [pendingByParent EXCEPT ![p] = @ + 1]
        /\ EnqueueLoad(L, i)
        /\ UNCHANGED <<workerVars, sessionVars, announced, userVars, faults>>
    BY DEF ChildQueued
  <1>2. p \in Database /\ by \in 0 .. Len(loads)
    BY <1>1, Places DEF Inv, LoadOK
  <1>3. /\ LoadsOK(L) /\ DOMAIN L = DOMAIN loads
        /\ \A j \in DOMAIN L : L[j].kind = loads[j].kind /\ L[j].stage = loads[j].stage
    <2>1. CASE by = 0
      <3>1. L = loads
        BY <2>1
      <3> HIDE DEF L
      <3> QED BY <3>1 DEF Inv
    <2>2. CASE by # 0
      <3>1. by \in DOMAIN loads
        BY <1>2, <2>2, Places DEF Inv
      <3>2. PICK k \in Loads : k = loads[by]
        BY <3>1, Places DEF Inv
      <3> DEFINE l == [k EXCEPT !.queued = TRUE]
                 M == [loads EXCEPT ![by] = l]
      <3>3. L = M
        BY <2>2, <3>2
      <3>4. /\ l \in Loads /\ l.stage = k.stage /\ l.db = k.db /\ l.kind = k.kind
            /\ l.by = k.by /\ l.parent = k.parent
        BY NewQueued
      <3> HIDE DEF l, L, by
      <3>5. LoadOK(k, Len(loads))
        BY <3>1, <3>2, Places DEF Inv
      <3>6. LoadOK(l, Len(loads))
        BY <3>4, <3>5 DEF LoadOK
      <3>7. /\ LoadsOK(M) /\ DOMAIN M = DOMAIN loads /\ M[by] = l
            /\ \A j \in DOMAIN loads : j # by => M[j] = loads[j]
        BY <3>1, <3>6, Replaced DEF Inv
      <3> HIDE DEF M
      <3>8. \A j \in DOMAIN M : M[j].kind = loads[j].kind /\ M[j].stage = loads[j].stage
        BY <3>2, <3>4, <3>7
      <3> QED BY <3>3, <3>7, <3>8
    <2> QED BY <2>1, <2>2
  <1> HIDE DEF L
  <1>4. LoadsOK(loads') /\ Queue' /\ Onward
    BY <1>1, <1>3, Enqueues DEF Inv
  <1> HIDE DEF p
  <1>5. pendingByParent' \in [Database -> Nat]
    <2>1. pendingByParent \in [Database -> Nat]
      BY DEF Inv, Counts
    <2>2. pendingByParent[p] + 1 \in Nat
      BY <1>2, <2>1
    <2> QED BY <1>1, <2>1, <2>2
  <1>6. Counts'
    BY <1>1, <1>5 DEF Inv, Counts
  <1> QED BY <1>1, <1>4, <1>6, Rest, RegistrySame DEF Inv

(* A child is given up.                                                     *)
LEMMA ChildSkippedInv ==
  ASSUME Inv, NEW i \in DOMAIN loads, ChildSkipped(i)
  PROVE  Inv'
  <1>1. /\ loads[i].stage = "opening" /\ loads' = To(loads, i, "done")
        /\ UNCHANGED <<queueVars, workerVars, sessionVars, countVars, userVars, faults>>
    BY DEF ChildSkipped
  <1>2. LoadsOK(loads') /\ Queue' /\ Onward
    BY <1>1, EndsHere DEF Inv, Asked
  <1> QED BY <1>1, <1>2, Rest, RegistrySame, CountsSame DEF Inv

(* A refresh knows whether the remote file is unchanged.                    *)
LEMMA ProbeEndsInv ==
  ASSUME Inv, NEW i \in DOMAIN loads, ProbeEnds(i)
  PROVE  Inv'
  <1>1. /\ loads[i].stage = "probing"
        /\ UNCHANGED <<queueVars, workerVars, sessionVars, countVars, userVars, faults>>
    BY DEF ProbeEnds
  <1>2. LoadsOK(loads') /\ Queue' /\ Onward
    <2>1. CASE loads' = To(loads, i, "done")
      BY <1>1, <2>1, EndsHere DEF Inv, Asked
    <2>2. CASE loads' = [loads EXCEPT ![i].stage = "sizing", ![i].db = currentKey]
      <3>1. PICK k \in Loads : k = loads[i]
        BY Places DEF Inv
      <3>2. PICK d \in Database \cup {None} : d = currentKey
        BY DEF Inv, Registry, Open
      <3> DEFINE l == [[k EXCEPT !.stage = "sizing"] EXCEPT !.db = d]
      <3>4. loads' = [loads EXCEPT ![i] = l]
        BY <2>2, <3>1, <3>2
      <3>5. /\ l \in Loads /\ l.stage = "sizing" /\ l.db = d /\ l.kind = k.kind
            /\ l.by = k.by /\ l.parent = k.parent
        BY NewDb
      <3> HIDE DEF l
      <3>6. LoadOK(k, Len(loads)) /\ k.stage = "probing" /\ k.kind = "refresh"
        BY <1>1, <3>1, Places DEF Inv, LoadOK
      <3>7. "sizing" \notin {"main"} \cup Answered /\ "probing" \notin Told
        BY DEF Answered, Told, Over
      <3>8. LoadOK(l, Len(loads))
        BY <3>5, <3>6, <3>7 DEF LoadOK
      <3>9. /\ LoadsOK(loads') /\ Queue'
            /\ (loads[i].stage \in Told => l.stage \in Told)
                 /\ (l.stage = "posted" => loads[i].stage = "posted") => Onward
        BY <1>1, <3>1, <3>4, <3>5, <3>6, <3>8, Rewritten DEF Inv
      <3> QED BY <1>1, <3>5, <3>7, <3>9
    <2> QED BY <2>1, <2>2 DEF ProbeEnds
  <1> QED BY <1>1, <1>2, Rest, RegistrySame, CountsSame DEF Inv
-----------------------------------------------------------------------------
(* The steps that change the current worker.                                *)

(* ensureWorker() gives the current worker, or a new one: neither has a     *)
(* load when the service is not busy.                                       *)
LEMMA TargetIs ==
  ASSUME Workers, ~workerBusy, databaseWorker = 0 => Free # {}
  PROVE  /\ Target \in Isolate /\ isolate[Target].working = {}
         /\ isolate[Target].state # "exiting"
         /\ databaseWorker # 0 => Target = databaseWorker
  <1>1. CASE databaseWorker = 0
    <2>1. Target \in Free
      BY <1>1 DEF Target
    <2>2. Target \in Isolate /\ isolate[Target].state = "none"
      BY <2>1 DEF Free
    <2> QED BY <1>1, <2>2 DEF Workers
  <1>2. CASE databaseWorker # 0
    <2>1. Target = databaseWorker
      BY <1>2 DEF Target
    <2> QED BY <1>2, <2>1 DEF Workers, WorkerServesOne
  <1> QED BY <1>1, <1>2

(* A load is posted.                                                        *)
LEMMA PostInv ==
  ASSUME Inv, NEW i \in DOMAIN loads, Post(i)
  PROVE  Inv'
  <1> DEFINE r == [state |-> "live", handler |-> i, working |-> {i}]
  <1>1. /\ loads[i].stage = "sizing" /\ ~workerBusy
        /\ databaseWorker = 0 => Free # {}
        /\ workerBusy' = TRUE /\ databaseWorker' = Target
        /\ loads' = To(loads, i, "posted")
        /\ UNCHANGED <<uncreated, queueVars, sessionVars, countVars, userVars, faults>>
    BY DEF Post
  <1>2. PICK w \in Isolate : w = Target
    BY <1>1, TargetIs DEF Inv
  <1>3. /\ isolate[w].working = {} /\ isolate[w].state # "exiting"
        /\ databaseWorker # 0 => w = databaseWorker
    BY <1>1, <1>2, TargetIs DEF Inv
  <1>4. i \in Nat /\ i # 0
    BY Places DEF Inv
  <1>5. isolate' = [isolate EXCEPT ![w] = r] /\ r \in Isolates
    <2>1. isolate' = [isolate EXCEPT ![w] =
                       [state |-> "live", handler |-> i, working |-> isolate[w].working \cup {i}]]
      BY <1>2 DEF Post
    <2>2. isolate[w].working \cup {i} = {i}
      BY <1>3
    <2>3. r \in Isolates
      BY <1>4 DEF Isolates
    <2> QED BY <2>1, <2>2, <2>3
  <1>6. /\ LoadsOK(loads') /\ Queue' /\ DOMAIN loads' = DOMAIN loads
        /\ loads'[i].stage = "posted"
        /\ \A j \in DOMAIN loads : j # i => loads'[j] = loads[j]
    <2>1. /\ "posted" \in Stages /\ "posted" \in Running /\ "sizing" \in Running
          /\ "posted" \notin {"main", "opening", "noting", "queued", "probing"} \cup Answered
      BY DEF Stages, InFlight, Running, Answered
    <2> QED BY <1>1, <2>1, Stays DEF Inv
  <1>7. Workers'
    <2>1. r.handler = i /\ r.working = {i} /\ r.state = "live"
      OBVIOUS
    <2>2. \A j \in DOMAIN loads :
            j \in DOMAIN loads' /\ (loads[j].stage \in Told => loads'[j].stage \in Told)
      BY <1>6 DEF Told
    <2>3. \A j \in DOMAIN loads' : loads'[j].stage = "posted" =>
            \/ /\ j \in DOMAIN loads /\ loads[j].stage = "posted"
               /\ isolate[w].state # "exiting" /\ isolate[w].working = {}
            \/ r.handler = j /\ (r.state = "exiting" \/ r.working = {j})
      BY <1>3, <1>6, <2>1
    <2>4. r.handler \in DOMAIN loads' /\ loads'[r.handler].stage \in Told
      BY <1>6, <2>1 DEF Told
    <2>5. /\ databaseWorker' = w /\ workerBusy' = TRUE /\ w # 0 /\ ~uncreated'
          /\ uncreated' \in BOOLEAN
      BY <1>1, <1>2 DEF Isolate, Inv, Workers, WorkerServesOne
    <2> HIDE DEF r
    <2> QED BY <1>5, <2>1, <2>2, <2>3, <2>4, <2>5, OneChanges DEF Inv
  <1>8. Bounds'
    BY <1>1, BoundsSame DEF Inv, Bounds
  <1> QED BY <1>1, <1>6, <1>7, <1>8, RegistrySame, CountsSame DEF Inv

(* An isolate without a load is made to live.                               *)
LEMMA MadeLive ==
  ASSUME Workers, NEW w \in Isolate, isolate[w].working = {},
         isolate' = [isolate EXCEPT ![w].state = "live"]
  PROVE  LET r == [state |-> "live", handler |-> isolate[w].handler, working |-> {}]
         IN  isolate' = [isolate EXCEPT ![w] = r] /\ r \in Isolates
  <1> DEFINE r == [state |-> "live", handler |-> isolate[w].handler, working |-> {}]
  <1>1. isolate \in [Isolate -> Isolates] /\ isolate[w] \in Isolates
    BY DEF Workers
  <1>2. [isolate[w] EXCEPT !.state = "live"] = r
    BY <1>1, IsolateWith
  <1>3. r \in Isolates
    BY IsolateOf DEF Isolates
  <1> QED BY <1>1, <1>2, <1>3

(* A load cannot be posted: its isolate stays, the reference is dropped.    *)
LEMMA PostFailsInv ==
  ASSUME Inv, NEW i \in DOMAIN loads, PostFails(i)
  PROVE  Inv'
  <1>1. /\ loads[i].stage = "sizing" /\ ~workerBusy
        /\ databaseWorker = 0 => Free # {}
        /\ faults' = faults + 1
        /\ workerBusy' = FALSE /\ databaseWorker' = 0
        /\ OnErrorMessage(i, "done")
        /\ UNCHANGED <<uncreated, userVars>>
    BY DEF PostFails
  <1>2. PICK w \in Isolate : w = Target
    BY <1>1, TargetIs DEF Inv
  <1>3. isolate[w].working = {} /\ isolate[w].state # "exiting"
    BY <1>1, <1>2, TargetIs DEF Inv
  <1> DEFINE r == [state |-> "live", handler |-> isolate[w].handler, working |-> {}]
  <1>4. isolate' = [isolate EXCEPT ![w] = r] /\ r \in Isolates
    <2>1. isolate' = [isolate EXCEPT ![w].state = "live"]
      BY <1>2 DEF PostFails
    <2> QED BY <1>3, <2>1, MadeLive DEF Inv
  <1>5. "sizing" \in Begun
    BY DEF Begun, Running
  <1>6. LoadsOK(loads') /\ Queue' /\ Onward /\ Registry' /\ Counts'
    BY <1>1, <1>5, Called DEF Inv
  <1>7. Workers'
    <2>1. r.handler = isolate[w].handler /\ r.working = {} /\ r.state = "live"
      OBVIOUS
    <2>2. r.handler # 0 => r.handler \in DOMAIN loads' /\ loads'[r.handler].stage \in Told
      BY <1>6, <2>1 DEF Inv, Workers, Onward
    <2>3. \A j \in DOMAIN loads' : loads'[j].stage = "posted" =>
            /\ j \in DOMAIN loads /\ loads[j].stage = "posted"
            /\ isolate[w].state # "exiting" /\ isolate[w].working = {}
      BY <1>3, <1>6 DEF Onward
    <2>4. \A j \in DOMAIN loads :
            j \in DOMAIN loads' /\ (loads[j].stage \in Told => loads'[j].stage \in Told)
      BY <1>6 DEF Onward
    <2>5. databaseWorker' # w /\ uncreated' \in BOOLEAN /\ ~uncreated'
      BY <1>1 DEF Isolate, Inv, Workers, WorkerServesOne
    <2> HIDE DEF r
    <2> QED BY <1>1, <1>4, <2>1, <2>2, <2>3, <2>4, <2>5, OneChanges DEF Inv
  <1>8. Bounds'
    BY <1>1, OneMoreFault, BoundsSame DEF Inv
  <1> QED BY <1>6, <1>7, <1>8 DEF Inv

(* A load cannot create its worker: no isolate that has a load is touched.  *)
LEMMA CreateFailsInv ==
  ASSUME Inv, NEW i \in DOMAIN loads, CreateFails(i)
  PROVE  Inv'
  <1>1. /\ loads[i].stage = "sizing" /\ ~workerBusy /\ databaseWorker = 0
        /\ faults' = faults + 1
        /\ workerBusy' = TRUE /\ uncreated' = TRUE
        /\ OnErrorMessage(i, "done")
        /\ UNCHANGED <<databaseWorker, userVars>>
    BY DEF CreateFails
  <1>2. "sizing" \in Begun
    BY DEF Begun, Running
  <1>3. LoadsOK(loads') /\ Queue' /\ Onward /\ Registry' /\ Counts'
    BY <1>1, <1>2, Called DEF Inv
  <1>4. CASE UNCHANGED isolate
    <2>1. WorkerServesOne'
      BY <1>1, <1>3, <1>4 DEF Inv, Workers, WorkerServesOne, Onward
    <2>2. Workers'
      BY <1>1, <1>3, <1>4, <2>1 DEF Inv, Workers, Onward
    <2> QED BY <1>1, <1>3, <2>2, OneMoreFault, BoundsSame DEF Inv
  <1>5. CASE Free # {} /\ isolate' = [isolate EXCEPT ![Target].state = "live"]
    <2>1. PICK w \in Isolate : w = Target
      BY <1>1, <1>5, TargetIs DEF Inv
    <2>2. isolate[w].working = {} /\ isolate[w].state # "exiting"
      BY <1>1, <1>5, <2>1, TargetIs DEF Inv
    <2> DEFINE r == [state |-> "live", handler |-> isolate[w].handler, working |-> {}]
    <2>3. isolate' = [isolate EXCEPT ![w] = r] /\ r \in Isolates
      BY <1>5, <2>1, <2>2, MadeLive DEF Inv
    <2>4. r.handler = isolate[w].handler /\ r.working = {} /\ r.state = "live"
      OBVIOUS
    <2> HIDE DEF r
    <2>5. r.handler # 0 => r.handler \in DOMAIN loads' /\ loads'[r.handler].stage \in Told
      BY <1>3, <2>4 DEF Inv, Workers, Onward
    <2>6. \A j \in DOMAIN loads' : loads'[j].stage = "posted" =>
            /\ j \in DOMAIN loads /\ loads[j].stage = "posted"
            /\ isolate[w].state # "exiting" /\ isolate[w].working = {}
      BY <2>2, <1>3 DEF Onward
    <2>7. \A j \in DOMAIN loads :
            j \in DOMAIN loads' /\ (loads[j].stage \in Told => loads'[j].stage \in Told)
      BY <1>3 DEF Onward
    <2>8. databaseWorker' = 0 /\ databaseWorker' # w /\ uncreated' \in BOOLEAN
      BY <1>1 DEF Isolate
    <2>9. Workers'
      BY <1>1, <2>3, <2>4, <2>5, <2>6, <2>7, <2>8, OneChanges DEF Inv
    <2> QED BY <1>1, <1>3, <2>9, OneMoreFault, BoundsSame DEF Inv
  <1> QED BY <1>4, <1>5 DEF CreateFails

(* A worker is made ready.                                                  *)
LEMMA PrewarmInv ==
  ASSUME Inv, Prewarm
  PROVE  Inv'
  <1>1. /\ ~workerBusy /\ databaseWorker = 0 /\ Free # {}
        /\ databaseWorker' = Target
        /\ UNCHANGED <<loads, workerBusy, uncreated, queueVars, sessionVars, countVars,
                       userVars, faults>>
    BY DEF Prewarm
  <1>2. PICK w \in Isolate : w = Target
    BY <1>1, TargetIs DEF Inv
  <1>3. isolate[w].working = {} /\ isolate[w].state # "exiting"
    BY <1>1, <1>2, TargetIs DEF Inv
  <1> DEFINE r == [state |-> "live", handler |-> 0, working |-> {}]
  <1>4. isolate' = [isolate EXCEPT ![w] = r] /\ r \in Isolates
    <2>1. [NoIsolate EXCEPT !.state = "live"] = r
      BY DEF NoIsolate
    <2>2. isolate' = [isolate EXCEPT ![w] = [NoIsolate EXCEPT !.state = "live"]]
      BY <1>2 DEF Prewarm
    <2>3. r \in Isolates
      BY DEF Isolates
    <2> QED BY <2>1, <2>2, <2>3
  <1>5. loads' = loads
    BY <1>1
  <1>6. Workers'
    <2>1. r.handler = 0 /\ r.working = {} /\ r.state = "live"
      OBVIOUS
    <2>2. /\ databaseWorker' = w /\ ~workerBusy' /\ w # 0 /\ workerBusy' \in BOOLEAN
          /\ ~uncreated' /\ uncreated' \in BOOLEAN
      BY <1>1, <1>2 DEF Isolate, Inv, Workers, WorkerServesOne
    <2> HIDE DEF r
    <2> QED BY <1>3, <1>4, <1>5, <2>1, <2>2, OneChanges DEF Inv, Workers
  <1>7. LoadsOK(loads') /\ Queue' /\ Registry' /\ Counts' /\ Bounds'
    BY <1>1, RegistrySame, CountsSame, BoundsSame DEF Inv, Queue, queueVars, Bounds
  <1> QED BY <1>6, <1>7 DEF Inv

(* The service lets its worker go.                                          *)
LEMMA Stops ==
  ASSUME Workers, loads' = loads, LoadsOK(loads), StopWorker
  PROVE  Workers'
  <1>1. Onward /\ 0 \notin DOMAIN loads'
    BY Places DEF Onward
  <1>2. CASE databaseWorker = 0
    <2>1. UNCHANGED workerVars
      BY <1>2 DEF StopWorker, ForgetIf, workerVars
    <2> QED BY <1>1, <2>1, WorkersSame
  <1>3. CASE databaseWorker # 0
    <2>1. PICK w \in Isolate : w = databaseWorker
      BY <1>3 DEF Workers
    <2> DEFINE r == [state |-> "exiting", handler |-> isolate[w].handler, working |-> {}]
    <2>2. isolate' = Ended(w) /\ ForgetIf(databaseWorker = w)
      BY <1>3, <2>1 DEF StopWorker, ForgetIf
    <2>3. isolate' = [isolate EXCEPT ![w] = r] /\ r \in Isolates
      BY <2>2, EndedIs
    <2>4. r.working = {} /\ r.handler = isolate[w].handler /\ r.state = "exiting" /\ r # NoIsolate
      BY DEF NoIsolate
    <2> HIDE DEF r
    <2> QED BY <1>1, <2>2, <2>3, <2>4, WorkerEnds
  <1> QED BY <1>2, <1>3
-----------------------------------------------------------------------------
(* What the user does.                                                      *)

(* Nothing happens to the loads.                                            *)
LEMMA LoadsSame ==
  ASSUME Inv, UNCHANGED <<loads, queueVars>>
  PROVE  LoadsOK(loads') /\ Queue' /\ Onward
  BY DEF Inv, Queue, queueVars, Onward

(* What is left to show of something the user asked for.                    *)
LEMMA RestOfAsk ==
  ASSUME Inv, LoadsOK(loads'), Queue', Onward, Workers', Registry', Counts',
         Ask, childDbEnable' \in BOOLEAN, ability' \in BOOLEAN, UNCHANGED faults
  PROVE  Inv'
  <1>1. Bounds'
    BY DEF Inv, Bounds, Ask
  <1> QED BY <1>1 DEF Inv

(* A load that a page starts.                                               *)
LEMMA Page ==
  ASSUME NEW d \in Database \cup {None}, NEW n \in Nat,
         NEW kind \in {"unlock", "add", "refresh"}, NEW stage \in {"sizing", "probing"},
         stage = "sizing" => d \in Database, stage = "probing" => kind = "refresh"
  PROVE  /\ LoadOK(PageLoad(d, kind, stage), n)
         /\ PageLoad(d, kind, stage).stage = stage /\ PageLoad(d, kind, stage).kind = kind
  <1> DEFINE k == PageLoad(d, kind, stage)
  <1>1. k.stage = stage /\ k.by = 0 /\ k.kind = kind /\ k.db = d
    BY DEF PageLoad
  <1>2. stage \in Stages /\ kind \in Kinds /\ <<>> \in Seq(Database) /\ stage \notin Answered
    BY DEF Stages, Asked, InFlight, Kinds, Answered
  <1>3. k \in Loads
    BY <1>2 DEF PageLoad, Loads
  <1> HIDE DEF k
  <1>4. LoadOK(k, n)
    BY <1>1, <1>2, <1>3 DEF LoadOK
  <1> QED BY <1>1, <1>4 DEF k

(* A page starts it.                                                        *)
LEMMA PageAsks ==
  ASSUME Inv, Ask, NEW d \in Database \cup {None},
         NEW kind \in {"unlock", "add", "refresh"}, NEW stage \in {"sizing", "probing"},
         stage = "sizing" => d \in Database, stage = "probing" => kind = "refresh",
         loads' = Append(loads, PageLoad(d, kind, stage)),
         UNCHANGED <<queueVars, workerVars, sessionVars, countVars, childDbEnable, ability, faults>>
  PROVE  Inv'
  <1>1. PICK l : l = PageLoad(d, kind, stage)
    OBVIOUS
  <1>2. Len(loads) \in Nat
    BY Places DEF Inv
  <1>3. LoadOK(l, Len(loads)) /\ l.stage = stage /\ l.kind = kind
    BY <1>1, <1>2, Page
  <1>4. LoadsOK(loads') /\ Queue' /\ Onward
    BY <1>1, <1>3, Joins DEF Inv
  <1>5. Workers' /\ Registry' /\ Counts'
    BY <1>4, WorkersSame, RegistrySame, CountsSame DEF Inv
  <1> QED BY <1>4, <1>5, RestOfAsk DEF Inv, Bounds

(* The user opens a database.                                               *)
LEMMA UnlockInv ==
  ASSUME Inv, NEW d \in Primary, NEW kind \in {"unlock", "add"}, Unlock(d, kind)
  PROVE  Inv'
  <1>1. /\ Ask /\ loads' = Append(loads, PageLoad(d, kind, "sizing"))
        /\ UNCHANGED <<queueVars, workerVars, sessionVars, countVars, childDbEnable, ability, faults>>
    BY DEF Unlock
  <1>2. d \in Database
    BY DatabaseAssumption
  <1> QED BY <1>1, <1>2, PageAsks

(* The user refreshes the current database.                                 *)
LEMMA RefreshInv ==
  ASSUME Inv, Refresh
  PROVE  Inv'
  <1>1. /\ Ask /\ loads' = Append(loads, PageLoad(None, "refresh", "probing"))
        /\ UNCHANGED <<queueVars, workerVars, sessionVars, countVars, childDbEnable, ability, faults>>
    BY DEF Refresh
  <1> QED BY <1>1, PageAsks

(* The user opens a child.                                                  *)
LEMMA OpenManuallyInv ==
  ASSUME Inv, NEW p \in Database, NEW c \in Database, OpenManually(p, c)
  PROVE  Inv'
  <1>1. /\ Ask
        /\ UNCHANGED <<queueVars, workerVars, records, childRecords, emptyParam,
                       countVars, childDbEnable, ability, faults>>
    BY DEF OpenManually
  <1>2. CASE c \in Open
    <2>1. currentKey' = c /\ UNCHANGED <<loads, attempted>>
      BY <1>2 DEF OpenManually
    <2>2. LoadsOK(loads') /\ Queue' /\ Onward
      BY <1>1, <2>1, LoadsSame
    <2>3. Registry'
      BY <1>1, <1>2, <2>1 DEF Inv, Registry, Open
    <2>4. Workers' /\ Counts'
      BY <1>1, <2>2, WorkersSame, CountsSame DEF Inv
    <2> QED BY <1>1, <2>2, <2>3, <2>4, RestOfAsk DEF Inv, Bounds
  <1>3. CASE c \notin Open
    <2>1. /\ loads' = Append(loads, NewChild(c, p, 0, TRUE))
          /\ attempted' = attempted \cup {c} /\ UNCHANGED currentKey
      BY <1>3 DEF OpenManually
    <2>2. PICK l : l = NewChild(c, p, 0, TRUE)
      OBVIOUS
    <2>3. Len(loads) \in Nat /\ 0 \in 0 .. Len(loads)
      BY Places DEF Inv
    <2>4. LoadOK(l, Len(loads)) /\ l.stage = "opening"
      BY <2>2, <2>3, Child
    <2>5. l.stage \notin {"queued", "posted"} \cup Running
      BY <2>4 DEF Running
    <2>6. LoadsOK(loads') /\ Queue' /\ Onward
      BY <1>1, <2>1, <2>2, <2>4, <2>5, Joins DEF Inv
    <2>7. Registry'
      BY <1>1, <2>1 DEF Inv, Registry, Open
    <2>8. Workers' /\ Counts'
      BY <1>1, <2>6, WorkersSame, CountsSame DEF Inv
    <2> QED BY <1>1, <2>6, <2>7, <2>8, RestOfAsk DEF Inv, Bounds
  <1> QED BY <1>2, <1>3

(* The user switches to another open database.                              *)
LEMMA SwitchToInv ==
  ASSUME Inv, NEW d \in Database, SwitchTo(d)
  PROVE  Inv'
  <1>1. /\ d \in Open /\ currentKey' = d
        /\ UNCHANGED <<loads, queueVars, workerVars, records, childRecords, emptyParam,
                       attempted, countVars, userVars, faults>>
    BY DEF SwitchTo
  <1>2. Registry'
    BY <1>1 DEF Inv, Registry, Open
  <1> QED BY <1>1, <1>2, LoadsSame, CountsSame, Rest DEF Inv

(* The children are closed, and the current database is one that remains.   *)
LEMMA SetChildDbEnableInv ==
  ASSUME Inv, NEW on \in BOOLEAN, SetChildDbEnable(on)
  PROVE  Inv'
  <1>1. /\ Ask /\ childDbEnable' = on
        /\ UNCHANGED <<loads, queueVars, workerVars, emptyParam, attempted, countVars,
                       ability, faults>>
    BY DEF SetChildDbEnable
  <1>2. LoadsOK(loads') /\ Queue' /\ Onward
    BY <1>1, LoadsSame
  <1>3. Registry'
    <2>1. CASE on
      <3>1. UNCHANGED <<records, childRecords, currentKey>>
        BY <2>1 DEF SetChildDbEnable
      <3> QED BY <1>1, <3>1, RegistrySame DEF Inv, sessionVars
    <2>2. CASE ~on
      <3>1. /\ records' = [d \in Database |-> IF d \in childRecords THEN None ELSE records[d]]
            /\ childRecords' = {} /\ currentKey' \in CurrentWithout(childRecords)
        BY <2>2 DEF SetChildDbEnable
      <3>2. /\ records \in [Database -> Database \cup {None}] /\ currentKey \in Open \cup {None}
        BY DEF Inv, Registry
      <3>3. /\ records' \in [Database -> Database \cup {None}]
            /\ \A d \in Database : d \in childRecords => records'[d] = None
            /\ \A d \in Database : d \notin childRecords => records'[d] = records[d]
        BY <3>1, <3>2
      <3>4. Open' = Open \ childRecords
        BY <3>3 DEF Open
      <3>5. currentKey' \in Open' \cup {None}
        BY <3>1, <3>2, <3>4 DEF CurrentWithout
      <3> QED BY <1>1, <3>1, <3>3, <3>5 DEF Inv, Registry
    <2> QED BY <2>1, <2>2
  <1>4. Workers' /\ Counts'
    BY <1>1, <1>2, WorkersSame, CountsSame DEF Inv
  <1> QED BY <1>1, <1>2, <1>3, <1>4, RestOfAsk DEF Inv, Bounds

(* All databases are closed.                                                *)
LEMMA CloseInv ==
  ASSUME Inv, Close
  PROVE  Inv'
  <1>1. /\ Ask /\ CloseAll
        /\ UNCHANGED <<loads, queueVars, workerVars, countVars, childDbEnable, ability, faults>>
    BY DEF Close
  <1>2. LoadsOK(loads') /\ Queue' /\ Onward
    BY <1>1, LoadsSame
  <1>3. Workers' /\ Counts' /\ Registry'
    BY <1>1, <1>2, WorkersSame, CountsSame, AllClosed DEF Inv
  <1> QED BY <1>1, <1>2, <1>3, RestOfAsk DEF Inv, Bounds

(* The ability goes.                                                        *)
LEMMA DestroyInv ==
  ASSUME Inv, Destroy
  PROVE  Inv'
  <1>1. /\ Ask /\ ability' = FALSE /\ CloseAll /\ StopWorker
        /\ UNCHANGED <<loads, queueVars, countVars, childDbEnable, faults>>
    BY DEF Destroy
  <1>2. LoadsOK(loads') /\ Queue' /\ Onward
    BY <1>1, LoadsSame
  <1>3. Workers' /\ Counts' /\ Registry'
    BY <1>1, Stops, CountsSame, AllClosed DEF Inv
  <1> QED BY <1>1, <1>2, <1>3, RestOfAsk DEF Inv, Bounds

(* The ability comes again.                                                 *)
LEMMA CreateInv ==
  ASSUME Inv, Create
  PROVE  Inv'
  <1>1. /\ ability' = TRUE /\ StopWorker
        /\ UNCHANGED <<loads, queueVars, sessionVars, countVars, childDbEnable, asks, faults>>
    BY DEF Create
  <1>2. LoadsOK(loads') /\ Queue' /\ Onward
    BY <1>1, LoadsSame
  <1>3. Workers' /\ Counts' /\ Registry'
    BY <1>1, Stops, CountsSame, RegistrySame DEF Inv
  <1>4. Bounds'
    BY <1>1 DEF Inv, Bounds
  <1> QED BY <1>2, <1>3, <1>4 DEF Inv

-----------------------------------------------------------------------------
(* The invariant.                                                           *)

(* It holds at the start.                                                   *)
LEMMA InvInit == Init => Inv
  <1> SUFFICES ASSUME Init
               PROVE  Inv
    OBVIOUS
  <1>1. /\ loads = <<>> /\ pendingLoads = <<>> /\ currentPendingLoad = 0
        /\ databaseWorker = 0 /\ workerBusy = FALSE /\ uncreated = FALSE
        /\ isolate = [w \in Isolate |-> NoIsolate]
        /\ records = [d \in Database |-> None] /\ childRecords = {}
        /\ currentKey = None /\ emptyParam = None /\ attempted = {}
        /\ pendingByParent = [d \in Database |-> 0] /\ announced = {}
        /\ childDbEnable = TRUE /\ ability = TRUE /\ asks = 0 /\ faults = 0
    BY DEF Init
  <1>2. DOMAIN loads = {} /\ DOMAIN pendingLoads = {}
    BY <1>1
  <1>3. LoadsOK(loads)
    BY <1>1, <1>2 DEF LoadsOK
  <1>4. Queue
    BY <1>1, <1>2 DEF Queue, Serial
  <1>5. /\ NoIsolate \in Isolates /\ NoIsolate.working = {} /\ NoIsolate.handler = 0
    BY DEF NoIsolate, Isolates
  <1>6. \A w \in Isolate : isolate[w] = NoIsolate
    BY <1>1
  <1>7. isolate \in [Isolate -> Isolates]
    BY <1>1, <1>5
  <1>8. Workers
    BY <1>1, <1>2, <1>5, <1>6, <1>7 DEF Workers, WorkerServesOne
  <1>9. Registry /\ Counts /\ Bounds
    BY <1>1 DEF Registry, Counts, Bounds, Open
  <1> QED BY <1>3, <1>4, <1>8, <1>9 DEF Inv

(* A step of a load keeps it.                                               *)
LEMMA LoadInv ==
  ASSUME Inv, NEW i \in DOMAIN loads, Load(i)
  PROVE  Inv'
  <1>1. CASE LoadOnMain(i)   BY <1>1, LoadOnMainInv
  <1>2. CASE RefuseBusy(i)   BY <1>2, RefuseBusyInv
  <1>3. CASE Post(i)         BY <1>3, PostInv
  <1>4. CASE MainAnswers(i)  BY <1>4, MainAnswersInv
  <1>5. CASE RestoreFails(i) BY <1>5, RestoreFailsInv
  <1>6. CASE PageOpens(i)    BY <1>6, PageOpensInv
  <1>7. CASE RefreshEnds(i)  BY <1>7, RefreshEndsInv
  <1>8. CASE ChildOpens(i)   BY <1>8, ChildOpensInv
  <1>9. CASE ChildScans(i)   BY <1>9, ChildScansInv
  <1>10. CASE ScanNext(i)    BY <1>10, ScanNextInv
  <1>11. CASE ScanEnds(i)    BY <1>11, ScanEndsInv
  <1>12. CASE ChildQueued(i) BY <1>12, ChildQueuedInv
  <1>13. CASE ChildSkipped(i) BY <1>13, ChildSkippedInv
  <1>14. CASE ProbeEnds(i)   BY <1>14, ProbeEndsInv
  <1> QED BY <1>1, <1>2, <1>3, <1>4, <1>5, <1>6, <1>7, <1>8, <1>9, <1>10, <1>11,
             <1>12, <1>13, <1>14 DEF Load

(* A step of the user keeps it.                                             *)
LEMMA UsersInv ==
  ASSUME Inv, Users
  PROVE  Inv'
  <1>1. ASSUME NEW d \in Primary, Unlock(d, "unlock") \/ Unlock(d, "add")
        PROVE  Inv'
    BY <1>1, UnlockInv
  <1>2. ASSUME NEW d \in Database, SwitchTo(d)
        PROVE  Inv'
    BY <1>2, SwitchToInv
  <1>3. ASSUME NEW p \in Database, NEW c \in Database, OpenManually(p, c)
        PROVE  Inv'
    BY <1>3, OpenManuallyInv
  <1>4. CASE Refresh                  BY <1>4, RefreshInv
  <1>5. CASE SetChildDbEnable(TRUE)   BY <1>5, SetChildDbEnableInv
  <1>6. CASE SetChildDbEnable(FALSE)  BY <1>6, SetChildDbEnableInv
  <1>7. CASE Close                    BY <1>7, CloseInv
  <1>8. CASE Prewarm                  BY <1>8, PrewarmInv
  <1>9. CASE Destroy                  BY <1>9, DestroyInv
  <1>10. CASE Create                  BY <1>10, CreateInv
  <1> QED BY <1>1, <1>2, <1>3, <1>4, <1>5, <1>6, <1>7, <1>8, <1>9, <1>10 DEF Users

(* Every step keeps it.                                                     *)
LEMMA InvNext == Inv /\ [Next]_vars => Inv'
  <1> SUFFICES ASSUME Inv, [Next]_vars
               PROVE  Inv'
    OBVIOUS
  <1>1. CASE Users
    BY <1>1, UsersInv
  <1>2. ASSUME NEW i \in DOMAIN loads, Load(i)
        PROVE  Inv'
    BY <1>2, LoadInv
  <1>3. ASSUME NEW w \in Isolate, ExitFollows(w)
        PROVE  Inv'
    BY <1>3, WorkerExitsInv DEF ExitFollows, Inv, Bounds
  <1>4. ASSUME NEW w \in Isolate, NEW i \in DOMAIN loads, Answer(w, i)
        PROVE  Inv'
    BY <1>4, AnswerInv
  <1>5. ASSUME NEW i \in DOMAIN loads, CreateFails(i) \/ PostFails(i)
        PROVE  Inv'
    BY <1>5, CreateFailsInv, PostFailsInv
  <1>6. ASSUME NEW w \in Isolate, WorkerFails(w)
        PROVE  Inv'
    BY <1>6, WorkerFailsInv
  <1>7. ASSUME NEW w \in Isolate, ExitUnasked(w)
        PROVE  Inv'
    <2>1. faults' \in Nat
      BY <1>7, OneMoreFault DEF ExitUnasked, Inv
    <2> QED BY <1>7, <2>1, WorkerExitsInv DEF ExitUnasked
  <1>8. CASE UNCHANGED vars
    <2>1. UNCHANGED <<loads, queueVars, workerVars, sessionVars, countVars, userVars, faults>>
      BY <1>8 DEF vars
    <2> QED BY <2>1, LoadsSame, RegistrySame, CountsSame, Rest DEF Inv
  <1>9. CASE Next
    BY <1>1, <1>2, <1>3, <1>4, <1>5, <1>6, <1>7, <1>9 DEF Next, Progress, Worker, Faults
  <1> QED BY <1>8, <1>9

(* What holds the loads, the queue, the workers and the registry together:  *)
(* the handlers of an isolate are those of a load it was given, and after   *)
(* a creation that failed there is no current worker again.                 *)
THEOREM Invariance == Spec => []Inv
  <1> QED BY InvInit, InvNext, PTL DEF Spec

-----------------------------------------------------------------------------
(* The theorems.                                                            *)

(* The variables have their types, the current database is one that is      *)
(* open, and only open databases are marked as children.                    *)
THEOREM TypeCorrect == Spec => []TypeOK
  <1>1. Inv => TypeOK
    BY Places DEF Inv, LoadsOK, Queue, Serial, Workers, Registry, Counts, Bounds, TypeOK
  <1> QED BY <1>1, Invariance, PTL

(* The load worker serves one load at a time, its busy flag says so until a *)
(* worker cannot be created, and each load that was posted to an isolate is *)
(* answered by it or ends with it, however loads, failures, exits and       *)
(* restarts interleave.                                                     *)
THEOREM OneLoadPerWorker == Spec => []WorkerServesOne
  <1>1. Inv => WorkerServesOne
    BY DEF Inv, Workers
  <1> QED BY <1>1, Invariance, PTL

(* The load under way in the background is the one the token names, the     *)
(* queue holds each waiting load once, and it waits for a token only while  *)
(* there is somebody to give it back.                                       *)
THEOREM OneLoadOfTheQueue == Spec => []QueueSerial
  <1>1. Inv => QueueSerial
    BY DEF Inv, Queue, Serial, Running, QueueSerial, IsChild
  <1> QED BY <1>1, Invariance, PTL

=============================================================================
