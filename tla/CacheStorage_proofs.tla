------------------------ MODULE CacheStorage_proofs ------------------------
(***************************************************************************)
(* Proofs about CacheStorage, for every kind of storage and every number   *)
(* of files: its type invariant, that the version fast path of a load is   *)
(* exact but for the causes HitIsExact lists, and that a device reads its  *)
(* own writes.                                                             *)
(***************************************************************************)
EXTENDS CacheStorage, TLAPS

-----------------------------------------------------------------------------
(* Types.                                                                   *)

(* What one operation may hold when the files st have been stored and md    *)
(* is the last file encrypted.                                              *)
CallShape(r, st, md) ==
  /\ r \in Calls
  /\ r.copy \in {None, Torn} \cup 2..md
  /\ r.version \in {None} \cup st
  /\ r.expected \in {None} \cup st
  /\ r.pc \in {"fill", "filling", "label", "put", "info"} => r.copy \in 2..md
  /\ r.pc \in {"read2", "fill", "filling", "label", "got"} /\ r.kind = "download"
       => r.copy \in {None} \cup st
  /\ r.pc = "read2" /\ ~ReadInfoFirst => r.copy # None
  /\ r.pc \in {"guard", "read", "match", "probe", "copy"} => r.copy = None
  /\ r.pc \in {"guard", "read", "read2"} => r.kind = "download"

(* What the load may hold, and the save: a file to be uploaded is a new     *)
(* one, and one that has been is later than all of pt.                      *)
LoadShape(r) == r.pc \in LoadSteps /\ r.kind = "download"
SaveShape(r, st, pt) ==
  /\ r.pc \in SaveSteps
  /\ r.pc = "put" => r.kind # "download" /\ r.copy \notin st
  /\ r.pc = "info" => r.kind # "download"
  /\ r.pc \in {"info", "fill", "filling", "label"} /\ r.kind # "download"
       => r.copy \in st \ pt
OpShape(o, r, st, pt, md) ==
  /\ CallShape(r, st, md)
  /\ o = "load" => LoadShape(r)
  /\ o = "save" => SaveShape(r, st, pt)

FileTypes ==
  /\ remote \in stored /\ remote \notin past
  /\ stored \subseteq 2..made /\ past \subseteq stored
  /\ made \in Files
CacheTypes ==
  /\ cache \in {None, Torn} \cup 2..made
  /\ meta \in {None} \cup stored
  /\ late \subseteq 2..made
  /\ known \in {None} \cup stored
  /\ doubt \subseteq Doubts
OpTypes ==
  /\ op = [o \in Op |-> op[o]]
  /\ \A o \in Op : OpShape(o, op[o], stored, past, made)
Types == FileTypes /\ CacheTypes /\ OpTypes

(* There are two operations, each the other's other.                        *)
LEMMA OpFacts ==
  /\ Op = {"load", "save"}
  /\ Other("load") = "save" /\ Other("save") = "load"
  /\ \A o \in Op : Other(o) \in Op /\ Other(o) # o /\ Op = {o, Other(o)}
  BY DEF Op, Other

(* A device that does nothing holds nothing.                                *)
LEMMA IdleShape ==
  ASSUME NEW st, NEW md
  PROVE  CallShape(Idle, st, md)
  BY DEF CallShape, Idle, Calls, LoadSteps, SaveSteps, Modes, Kinds, Holds, None, Torn

(* Files are only added, so what an operation holds stays good.             *)
LEMMA ShapeGrows ==
  ASSUME NEW r, NEW st, NEW st2, NEW md \in Nat, NEW md2 \in Nat,
         CallShape(r, st, md), st \subseteq st2, md <= md2
  PROVE  CallShape(r, st2, md2)
  BY DEF CallShape

(* The doubts and the hold of an operation do not matter for its shape.     *)
LEMMA ShapeOfHistory ==
  ASSUME NEW r, NEW st, NEW md, CallShape(r, st, md)
  PROVE  /\ \A d \in SUBSET Doubts : CallShape([r EXCEPT !.doubt = d], st, md)
         /\ \A h \in Holds : CallShape([r EXCEPT !.hold = h], st, md)
<1>1. ASSUME NEW d \in SUBSET Doubts PROVE CallShape([r EXCEPT !.doubt = d], st, md)
  BY DEF CallShape, Calls
<1>2. ASSUME NEW h \in Holds PROVE CallShape([r EXCEPT !.hold = h], st, md)
  BY DEF CallShape, Calls
<1> QED
  BY <1>1, <1>2

(* Types holds what TypeOK asks for.                                        *)
LEMMA TypesOK == Types => TypeOK
<1> SUFFICES ASSUME Types PROVE TypeOK
  OBVIOUS
<1>1. op \in [Op -> Calls] /\ op["load"].pc \in LoadSteps /\ op["save"].pc \in SaveSteps
  BY OpFacts DEF Types, OpTypes, OpShape, CallShape, LoadShape, SaveShape
<1> QED
  BY <1>1 DEF Types, FileTypes, CacheTypes, TypeOK

(* It holds at first.                                                       *)
LEMMA InitTypes == Init => Types
<1> SUFFICES ASSUME Init PROVE Types
  OBVIOUS
<1>1. ASSUME NEW o \in Op PROVE OpShape(o, Idle, stored, past, made)
  BY IdleShape DEF OpShape, Idle, LoadShape, SaveShape, LoadSteps, SaveSteps
<1>2. OpTypes
  BY <1>1 DEF Init, OpTypes
<1>3. FileTypes /\ CacheTypes
  BY FileAssumption DEF Init, FileTypes, CacheTypes, Files, None, Torn
<1> QED
  BY <1>2, <1>3 DEF Types

(* A step of one operation need only keep the shape of that one.            *)
LEMMA BecomesTypes ==
  ASSUME Types, NEW o \in Op, NEW r, Becomes(o, r), UNCHANGED Storage,
         OpShape(o, r, stored, past, made)
  PROVE  OpTypes' /\ FileTypes' /\ op'[o] = r /\ op'[Other(o)] = op[Other(o)]
<1>1. op' = [p \in Op |-> IF p = o THEN r ELSE op[p]]
  BY DEF Becomes, Types, OpTypes
<1>2. stored' = stored /\ past' = past /\ made' = made /\ remote' = remote
  BY DEF Storage
<1> QED
  BY <1>1, <1>2, OpFacts DEF Types, OpTypes, FileTypes

(* The steps that change only the operation itself: what each leaves has    *)
(* the shape of an operation.                                               *)
LocalStep(o, r) == Becomes(o, r) /\ UNCHANGED <<Storage, Local, known>>

(* They keep the types when what they make of the operation is well shaped. *)
LEMMA LocalStepTypes ==
  ASSUME Types, NEW o \in Op, NEW r, LocalStep(o, r), OpShape(o, r, stored, past, made)
  PROVE  Types'
<1>1. OpTypes' /\ FileTypes'
  BY BecomesTypes DEF LocalStep
<1> QED
  BY <1>1 DEF Types, CacheTypes, LocalStep, Local, Storage

(* What Refreshed leaves has the shape of the operation.                    *)
LEMMA RefreshedShape ==
  ASSUME Types, NEW o \in Op, op[o].pc \in {"fill", "filling", "label"}
  PROVE  OpShape(o, Refreshed(o), stored, past, made)
<1> USE DEF None, Torn
<1>1. OpShape(o, op[o], stored, past, made) /\ op[o] \in Calls
  BY DEF Types, OpTypes, OpShape, CallShape
<1>2. CASE o = "load"
  <2>1. Refreshed(o) = [[op[o] EXCEPT !.hold = "own"] EXCEPT !.pc = "got"]
    BY <1>2 DEF Refreshed
  <2> QED
    BY <1>1, <1>2, <2>1
       DEF OpShape, CallShape, LoadShape, Calls, LoadSteps, SaveSteps, Holds
<1>3. CASE o = "save" /\ op[o].kind = "download"
  <2>1. Refreshed(o) = [[op[o] EXCEPT !.hold = "own"] EXCEPT !.pc = "write", !.copy = None]
    BY <1>1, <1>3 DEF Refreshed, Calls
  <2> DEFINE q == Refreshed(o)
  <2>2. q \in Calls /\ q.pc = "write" /\ q.copy = None
    <3> DEFINE k == [op[o] EXCEPT !.hold = "own"]
    <3>1. k \in Calls
      BY <1>1 DEF Calls, Holds
    <3> HIDE DEF k
    <3>2. [k EXCEPT !.pc = "write", !.copy = None] \in Calls
      BY <3>1 DEF Calls, SaveSteps
    <3>3. /\ [k EXCEPT !.pc = "write", !.copy = None].pc = "write"
          /\ [k EXCEPT !.pc = "write", !.copy = None].copy = None
      BY <3>1 DEF Calls
    <3> QED
      BY <2>1, <3>2, <3>3 DEF k
  <2>3. q.version = op[o].version /\ q.expected = op[o].expected
    BY <1>1, <2>1 DEF Calls
  <2> HIDE DEF q
  <2>4. OpShape(o, q, stored, past, made)
    BY <1>1, <1>3, <2>2, <2>3 DEF OpShape, CallShape, SaveShape, SaveSteps
  <2> QED
    BY <2>4 DEF q
<1>4. CASE o = "save" /\ op[o].kind # "download"
  <2>1. Refreshed(o) = [Idle EXCEPT !.pc = "saved", !.version = op[o].version]
    BY <1>1, <1>4 DEF Refreshed, Calls
  <2> DEFINE q == Refreshed(o)
  <2>2. q \in Calls /\ q.pc = "saved" /\ q.copy = None /\ q.expected = None
        /\ q.version = op[o].version
    <3>1. Idle \in Calls /\ "saved" \in SaveSteps /\ Idle.copy = None /\ Idle.expected = None
      BY IdleShape DEF CallShape, SaveSteps, Idle
    <3>2. op[o].version \in Nat
      BY <1>1 DEF Calls
    <3> QED
      BY <2>1, <3>1, <3>2 DEF Calls
  <2> HIDE DEF q
  <2>4. OpShape(o, q, stored, past, made)
    BY <1>1, <1>4, <2>2 DEF OpShape, CallShape, SaveShape, SaveSteps
  <2> QED
    BY <2>4 DEF q
<1> QED
  BY <1>2, <1>3, <1>4, OpFacts

(* The load's own steps.                                                    *)
LEMMA LoadTypes ==
  ASSUME Types, Probe \/ MatchMeta \/ CopyOut
  PROVE  Types'
<1> USE DEF None, Torn
<1> DEFINE l == op["load"]
<1>1. OpShape("load", l, stored, past, made) /\ l \in Calls /\ "load" \in Op
  BY OpFacts DEF Types, OpTypes, OpShape, CallShape
<1>2. CASE Probe
  <2>1. PICK v \in {None} \cup stored :
          LocalStep("load", [l EXCEPT !.pc = "match", !.version = v, !.mode = Consumed(@)])
    BY <1>2 DEF Probe, LocalStep, Types, FileTypes
  <2>2. Consumed(l.mode) \in Modes
    BY <1>1 DEF Consumed, Calls, Modes
  <2>3. OpShape("load", [l EXCEPT !.pc = "match", !.version = v, !.mode = Consumed(@)],
                stored, past, made)
    <3>1. v \in Nat /\ l.pc = "probe"
      <4>1. stored \subseteq Nat
        BY FileAssumption DEF Types, FileTypes, Files
      <4>2. l.pc = "probe"
        BY <1>2 DEF Probe
      <4> QED
        BY <2>1, <4>1, <4>2
    <3> DEFINE q == [l EXCEPT !.pc = "match", !.version = v, !.mode = Consumed(@)]
    <3>2. q \in Calls /\ q.pc = "match" /\ q.version = v
      BY <1>1, <2>2, <3>1 DEF Calls, LoadSteps
    <3>3. q.copy = l.copy /\ q.expected = l.expected /\ q.kind = l.kind
      BY <1>1 DEF Calls
    <3> HIDE DEF q
    <3>4. OpShape("load", q, stored, past, made)
      BY <1>1, <2>1, <3>1, <3>2, <3>3 DEF OpShape, CallShape, LoadShape, LoadSteps
    <3> QED
      BY <3>4 DEF q
  <2> QED
    BY <1>1, <2>1, <2>3, LocalStepTypes
<1>3. CASE MatchMeta
  <2>1. PICK pc \in {"copy", "read"} : LocalStep("load", [l EXCEPT !.pc = pc])
    BY <1>3 DEF MatchMeta, LocalStep
  <2>2. OpShape("load", [l EXCEPT !.pc = pc], stored, past, made)
    BY <1>1, <1>3, <2>1 DEF MatchMeta, OpShape, CallShape, LoadShape, Calls, LoadSteps
  <2> QED
    BY <1>1, <2>1, <2>2, LocalStepTypes
<1>4. CASE CopyOut
  <2>1. CASE cache = None
    <3>1. LocalStep("load", [l EXCEPT !.pc = "read"])
      BY <1>4, <2>1 DEF CopyOut, LocalStep
    <3>2. OpShape("load", [l EXCEPT !.pc = "read"], stored, past, made)
      BY <1>1, <1>4 DEF CopyOut, OpShape, CallShape, LoadShape, Calls, LoadSteps
    <3> QED
      BY <1>1, <3>1, <3>2, LocalStepTypes
  <2>2. CASE cache # None
    <3> DEFINE r == [l EXCEPT !.pc = "hit", !.copy = cache, !.doubt = @ \cup doubt]
    <3>1. LocalStep("load", r)
      BY <1>4, <2>2 DEF CopyOut, LocalStep
    <3>2. OpShape("load", r, stored, past, made)
      <4>1. cache \in {None, Torn} \cup 2..made /\ cache \in Nat /\ doubt \subseteq Doubts
        BY DEF Types, CacheTypes
      <4> QED
        BY <1>1, <1>4, <4>1 DEF CopyOut, OpShape, CallShape, LoadShape, Calls, LoadSteps
    <3> QED
      BY <1>1, <3>1, <3>2, LocalStepTypes
  <2> QED
    BY <2>1, <2>2
<1> QED
  BY <1>2, <1>3, <1>4

(* The steps of readToFile() and of refreshing the cache, of either.        *)
LEMMA StepTypes ==
  ASSUME Types, NEW o \in Op, Step(o)
  PROVE  Types'
<1> USE DEF None, Torn
<1> DEFINE r == op[o]
<1>1. /\ OpShape(o, r, stored, past, made) /\ r \in Calls
      /\ o = "load" \/ o = "save"
      /\ remote \in stored /\ remote \in 2..made /\ remote \in Nat
      /\ made \in Nat /\ stored \subseteq Nat
  BY OpFacts DEF Types, OpTypes, OpShape, CallShape, FileTypes, Files
<1>2. OpShape(o, Idle, stored, past, made)
  BY <1>1, IdleShape DEF OpShape, Idle, LoadShape, SaveShape, LoadSteps, SaveSteps
<1>3. CASE Fails(o)
  BY <1>2, <1>3, LocalStepTypes DEF Fails, Ends, LocalStep
<1>4. CASE Deliver(o)
  <2>1. OpTypes' /\ FileTypes'
    BY <1>2, <1>4, BecomesTypes DEF Deliver, Ends
  <2> QED
    BY <1>1, <1>4, <2>1 DEF Deliver, Types, CacheTypes, Local, Storage, OpShape, CallShape
<1>5. CASE ReadFirst(o)
  <2> DEFINE q == IF ReadInfoFirst
                  THEN [r EXCEPT !.pc = "read2", !.version = remote]
                  ELSE [r EXCEPT !.pc = "read2", !.copy = remote]
  <2>1. LocalStep(o, q) /\ r.pc = "read"
    BY <1>5 DEF ReadFirst, LocalStep
  <2>3. /\ q \in Calls /\ q.pc = "read2" /\ q.expected = r.expected /\ q.kind = r.kind
        /\ q.copy = IF ReadInfoFirst THEN r.copy ELSE remote
        /\ q.version \in {remote, r.version}
    BY <1>1 DEF Calls, LoadSteps, SaveSteps
  <2> HIDE DEF q
  <2>2. OpShape(o, q, stored, past, made)
    BY <1>1, <2>1, <2>3 DEF OpShape, CallShape, LoadShape, SaveShape,
                      LoadSteps, SaveSteps
  <2> QED
    BY <2>1, <2>2, LocalStepTypes
<1>6. CASE ReadSecond(o)
  <2> DEFINE q == IF ReadInfoFirst
                  THEN [r EXCEPT !.pc = "fill", !.mode = "online", !.copy = remote]
                  ELSE [r EXCEPT !.pc = "fill", !.mode = "online", !.version = remote]
  <2>1. LocalStep(o, q) /\ r.pc = "read2"
    BY <1>6 DEF ReadSecond, LocalStep
  <2>2. /\ q \in Calls /\ q.pc = "fill" /\ q.expected = r.expected /\ q.kind = r.kind
        /\ q.copy = IF ReadInfoFirst THEN remote ELSE r.copy
        /\ q.version \in {remote, r.version}
    BY <1>1 DEF Calls, LoadSteps, SaveSteps, Modes
  <2> HIDE DEF q
  <2>3. q.copy \in 2..made /\ q.copy \in stored
    BY <1>1, <2>1, <2>2 DEF OpShape, CallShape, Types, FileTypes
  <2>5. OpShape(o, q, stored, past, made)
    BY <1>1, <2>1, <2>2, <2>3 DEF OpShape, CallShape, LoadShape, SaveShape,
                      LoadSteps, SaveSteps
  <2> QED
    BY <2>1, <2>5, LocalStepTypes
<1>7. CASE ReadFromCache(o)
  <2>1. CASE cache = None
    BY <1>2, <1>7, <2>1, LocalStepTypes DEF ReadFromCache, Ends, LocalStep
  <2>2. CASE cache # None /\ o = "load"
    <3>1. LocalStep(o, [Idle EXCEPT !.pc = "offline", !.copy = cache])
      BY <1>7, <2>2 DEF ReadFromCache, LocalStep
    <3>2. cache \in {None, Torn} \cup 2..made /\ cache \in Nat
      BY <1>1 DEF Types, CacheTypes
    <3>3. OpShape(o, [Idle EXCEPT !.pc = "offline", !.copy = cache], stored, past, made)
      BY <1>1, <1>2, <2>2, <3>2 DEF OpShape, CallShape, LoadShape, Calls, LoadSteps, Idle
    <3> QED
      BY <3>1, <3>3, LocalStepTypes
  <2>3. CASE cache # None /\ o = "save"
    <3>1. LocalStep(o, [r EXCEPT !.pc = "write"])
      BY <1>7, <2>3 DEF ReadFromCache, LocalStep
    <3>2. OpShape(o, [r EXCEPT !.pc = "write"], stored, past, made)
      BY <1>1, <2>3 DEF OpShape, CallShape, SaveShape, Calls, SaveSteps
    <3> QED
      BY <3>1, <3>2, LocalStepTypes
  <2> QED
    BY <1>1, <2>1, <2>2, <2>3
<1>8. CASE FillBegins(o)
  <2> DEFINE p == Other(o)
             shared == Refilling(p)
  <2>1. p \in Op /\ p # o /\ Op = {o, p}
    BY OpFacts
  <2>0. op \in [Op -> Calls]
    BY TypesOK DEF TypeOK
  <2>2. PICK h \in Holds, g \in Holds :
          op' = [op EXCEPT ![o].pc = "filling", ![o].hold = h, ![p].hold = g]
    <3>1. op[p].hold \in Holds
      BY <2>1 DEF Types, OpTypes, OpShape, CallShape, Calls
    <3>2. "own" \in Holds /\ "shared" \in Holds
      BY DEF Holds
    <3>3. CASE shared
      BY <1>8, <3>2, <3>3 DEF FillBegins
    <3>4. CASE ~shared
      BY <1>8, <2>1, <3>1, <3>2, <3>4 DEF FillBegins
    <3> QED
      BY <3>3, <3>4
  <2>3. /\ op' = [q \in Op |-> op'[q]]
        /\ op'[o] = [[r EXCEPT !.pc = "filling"] EXCEPT !.hold = h]
        /\ op'[p] = [op[p] EXCEPT !.hold = g]
    BY <2>0, <2>1, <2>2
  <2>4. OpShape(o, [[r EXCEPT !.pc = "filling"] EXCEPT !.hold = h], stored, past, made)
    BY <1>1, <1>8 DEF FillBegins, OpShape, CallShape, LoadShape, SaveShape, Calls,
                      LoadSteps, SaveSteps
  <2>5. OpShape(p, [op[p] EXCEPT !.hold = g], stored, past, made)
    BY <2>1 DEF Types, OpTypes, OpShape, CallShape, LoadShape, SaveShape, Calls
  <2>6. OpTypes'
    <3>1. stored' = stored /\ past' = past /\ made' = made
      BY <1>8 DEF FillBegins, Storage
    <3> QED
      BY <2>1, <2>3, <2>4, <2>5, <3>1 DEF OpTypes
  <2>7. DoubtOf(o) \subseteq Doubts
    BY <1>1 DEF DoubtOf, Calls, Doubts
  <2> QED
    BY <1>8, <2>6, <2>7 DEF FillBegins, Types, FileTypes, CacheTypes, Storage
<1>9. CASE FillEnds(o)
  <2>1. Becomes(o, [r EXCEPT !.pc = "label"]) /\ r.pc = "filling"
    BY <1>9 DEF FillEnds
  <2>2. OpShape(o, [r EXCEPT !.pc = "label"], stored, past, made)
    BY <1>1, <2>1 DEF OpShape, CallShape, LoadShape, SaveShape, Calls,
                      LoadSteps, SaveSteps
  <2>3. OpTypes' /\ FileTypes'
    BY <1>9, <2>1, <2>2, BecomesTypes DEF FillEnds
  <2>4. cache' \in {None, Torn} \cup 2..made
    <3>1. r.hold \in Holds /\ r.copy \in {None, Torn} \cup 2..made
      BY <1>1 DEF Calls, OpShape, CallShape
    <3>2. cache \in {None, Torn} \cup 2..made
      BY DEF Types, CacheTypes
    <3>3. CASE r.hold = "own"
      BY <1>9, <3>1, <3>3 DEF FillEnds
    <3>4. CASE r.hold = "shared"
      BY <1>9, <3>1, <3>2, <3>4 DEF FillEnds
    <3>5. CASE r.hold = "lost"
      BY <1>9, <3>2, <3>5 DEF FillEnds
    <3> QED
      BY <3>1, <3>3, <3>4, <3>5 DEF Holds
  <2> QED
    BY <1>9, <2>3, <2>4 DEF FillEnds, Types, CacheTypes, Storage
<1>10. CASE FillFails(o)
  BY <1>10, RefreshedShape, LocalStepTypes DEF FillFails, LocalStep
<1>11. CASE Label(o)
  <2>1. OpTypes' /\ FileTypes'
    BY <1>11, RefreshedShape, BecomesTypes DEF Label
  <2> QED
    BY <1>1, <1>11, <2>1 DEF Label, Types, CacheTypes, Storage, OpShape, CallShape
<1> QED
  BY <1>3, <1>4, <1>5, <1>6, <1>7, <1>8, <1>9, <1>10, <1>11 DEF Step

(* Starting keeps the shape of both operations.                             *)
LEMMA StartedTypes ==
  ASSUME Types, NEW o \in Op, NEW r, OpShape(o, r, stored, past, made),
         Started(o, r), UNCHANGED <<Storage, Local, known>>
  PROVE  Types'
<1> DEFINE p == Other(o)
           d == IF ~Busy(p) /\ late = {} THEN {} ELSE {"overlap"}
           e == IF Busy(p) THEN op[p].doubt \cup {"overlap"} ELSE op[p].doubt
<1>1. p \in Op /\ p # o /\ Op = {o, p}
  BY OpFacts
<1>2. op \in [Op -> Calls]
  BY TypesOK DEF TypeOK
<1>3. d \in SUBSET Doubts /\ e \in SUBSET Doubts
  BY <1>1, <1>2 DEF Doubts, Calls
<1>4. /\ op' = [q \in Op |-> op'[q]]
      /\ op'[o] = [r EXCEPT !.doubt = d]
      /\ op'[p] = [op[p] EXCEPT !.doubt = e]
  BY <1>1, <1>2 DEF Started
<1>5. OpShape(p, op[p], stored, past, made) /\ op[p] \in Calls /\ r \in Calls
  BY <1>1, <1>2 DEF Types, OpTypes, OpShape, CallShape
<1> HIDE DEF d, e
<1>6. OpShape(o, op'[o], stored, past, made)
  BY <1>3, <1>4, <1>5, ShapeOfHistory DEF OpShape, LoadShape, SaveShape, Calls
<1>7. OpShape(p, op'[p], stored, past, made)
  BY <1>3, <1>4, <1>5, ShapeOfHistory DEF OpShape, LoadShape, SaveShape, Calls
<1> HIDE DEF p
<1>8. OpTypes'
  BY <1>1, <1>4, <1>6, <1>7 DEF OpTypes, Storage
<1> QED
  BY <1>8 DEF Types, FileTypes, CacheTypes, Storage, Local

(* The starts.                                                              *)
LEMMA StartTypes ==
  ASSUME Types, StartLoad \/ StartSave
  PROVE  Types'
<1> USE DEF None, Torn
<1>1. CASE StartLoad
  <2>1. PICK pc \in {"probe", "read"}, m \in Modes :
          Started("load", [Idle EXCEPT !.pc = pc, !.mode = m])
    BY <1>1 DEF StartLoad, Consumed, Modes
  <2> DEFINE r == [Idle EXCEPT !.pc = pc, !.mode = m]
  <2>2. OpShape("load", r, stored, past, made)
    BY IdleShape DEF OpShape, CallShape, LoadShape, Idle, Calls, LoadSteps, Modes
  <2> QED
    BY <1>1, <2>1, <2>2, StartedTypes, OpFacts DEF StartLoad
<1>2. CASE StartSave
  <2>1. PICK m \in Modes :
          Started("save", [Idle EXCEPT !.pc = "guard", !.mode = m, !.expected = known])
    BY <1>2 DEF StartSave, Modes
  <2> DEFINE r == [Idle EXCEPT !.pc = "guard", !.mode = m, !.expected = known]
  <2>2. known \in {None} \cup stored /\ stored \subseteq Nat
    BY FileAssumption DEF Types, CacheTypes, FileTypes, Files
  <2>3. /\ r \in Calls /\ r.pc = "guard" /\ r.kind = "download" /\ r.copy = None
        /\ r.version = None /\ r.expected = known
    BY <2>2, IdleShape DEF CallShape, Idle, Calls, SaveSteps, Modes
  <2> HIDE DEF r
  <2>4. OpShape("save", r, stored, past, made)
    BY <2>2, <2>3 DEF OpShape, CallShape, SaveShape, SaveSteps
  <2> QED
    BY <1>2, <2>1, <2>4, StartedTypes, OpFacts DEF StartSave, r
<1> QED
  BY <1>1, <1>2

(* The save's own steps that store nothing.                                 *)
LEMMA SaveTypes ==
  ASSUME Types,
         \/ GuardHit \/ GuardMiss \/ ReportConflict \/ Refused \/ PutConflict
         \/ Info \/ Build \/ RenameIn
  PROVE  Types'
<1> USE DEF None, Torn
<1> DEFINE s == op["save"]
<1>1. /\ OpShape("save", s, stored, past, made) /\ s \in Calls /\ "save" \in Op
      /\ remote \in stored /\ remote \in Nat /\ made \in Nat /\ stored \subseteq 2..made
  BY OpFacts, FileAssumption DEF Types, OpTypes, OpShape, CallShape, FileTypes, Files
<1>2. OpShape("save", Idle, stored, past, made)
  BY IdleShape DEF OpShape, Idle, SaveShape, SaveSteps
<1>3. CASE GuardHit
  <2> DEFINE q == [s EXCEPT !.pc = "write", !.version = remote]
  <2>1. LocalStep("save", q) /\ s.pc = "guard"
    BY <1>3 DEF GuardHit, LocalStep
  <2>2. OpShape("save", q, stored, past, made)
    BY <1>1, <2>1 DEF OpShape, CallShape, SaveShape, Calls, SaveSteps
  <2> QED
    BY <1>1, <2>1, <2>2, LocalStepTypes
<1>4. CASE GuardMiss
  <2> DEFINE q == [s EXCEPT !.pc = "read"]
  <2>1. LocalStep("save", q) /\ s.pc = "guard"
    BY <1>4 DEF GuardMiss, LocalStep
  <2>2. OpShape("save", q, stored, past, made)
    BY <1>1, <2>1 DEF OpShape, CallShape, SaveShape, Calls, SaveSteps
  <2> QED
    BY <1>1, <2>1, <2>2, LocalStepTypes
<1>5. CASE ReportConflict \/ Refused
  BY <1>1, <1>2, <1>5, LocalStepTypes DEF ReportConflict, Refused, Ends, LocalStep
<1>6. CASE PutConflict
  <2> DEFINE q == [s EXCEPT !.pc = "read", !.kind = "download",
                            !.version = None, !.copy = None]
  <2>1. LocalStep("save", q)
    BY <1>6 DEF PutConflict, LocalStep
  <2>2. /\ q \in Calls /\ q.pc = "read" /\ q.kind = "download" /\ q.version = None
        /\ q.copy = None /\ q.expected = s.expected
    BY <1>1 DEF Calls, SaveSteps, Kinds
  <2> HIDE DEF q
  <2>3. OpShape("save", q, stored, past, made)
    BY <1>1, <2>2 DEF OpShape, CallShape, SaveShape, SaveSteps
  <2> QED
    BY <1>1, <2>1, <2>3, LocalStepTypes
<1>7. CASE Info
  <2>1. PICK v \in {None, remote} : LocalStep("save", [s EXCEPT !.pc = "fill", !.version = v])
    BY <1>7 DEF Info, LocalStep
  <2> DEFINE q == [s EXCEPT !.pc = "fill", !.version = v]
  <2>2. /\ q \in Calls /\ q.pc = "fill" /\ q.kind = s.kind /\ q.version = v
        /\ q.copy = s.copy /\ q.expected = s.expected /\ s.pc = "info"
    <3>0. s.pc = "info"
      BY <1>7 DEF Info
    <3>1. v \in Nat
      BY <1>1, <2>1
    <3>2. q \in Calls
      BY <1>1, <3>1 DEF Calls, SaveSteps
    <3> QED
      BY <1>1, <3>0, <3>1, <3>2 DEF Calls
  <2> HIDE DEF q
  <2>3. OpShape("save", q, stored, past, made)
    BY <1>1, <2>1, <2>2 DEF OpShape, CallShape, SaveShape, SaveSteps
  <2> QED
    BY <1>1, <2>1, <2>3, LocalStepTypes DEF q
<1>8. CASE Build
  <2>1. PICK k \in {"stream", "buffer"} :
          /\ Becomes("save", [s EXCEPT !.pc = "put", !.kind = k, !.copy = made + 1])
          /\ late' \in {late, late \cup {made + 1}}
    BY <1>8 DEF Build
  <2> DEFINE q == [s EXCEPT !.pc = "put", !.kind = k, !.copy = made + 1]
  <2>2. /\ q \in Calls /\ q.pc = "put" /\ q.kind = k /\ q.copy = made + 1
        /\ q.version = s.version /\ q.expected = s.expected
    <3>1. made + 1 \in Nat /\ k \in Kinds /\ "put" \in SaveSteps
      BY <1>1, <2>1 DEF SaveSteps, Kinds
    <3>2. q \in Calls
      BY <1>1, <3>1 DEF Calls
    <3> QED
      BY <1>1, <3>1, <3>2 DEF Calls
  <2> HIDE DEF q
  <2>3. made' = made + 1 /\ made + 1 \in Files /\ stored' = stored /\ past' = past
        /\ remote' = remote
    BY <1>1, <1>8, FileAssumption DEF Build, Files, Types, FileTypes
  <2>4. OpShape("save", q, stored, past, made')
    BY <1>1, <2>1, <2>2, <2>3 DEF OpShape, CallShape, SaveShape, SaveSteps, Types, FileTypes, Files
  <2>5. OpShape("load", op["load"], stored, past, made')
    BY <1>1, <2>3, OpFacts DEF Types, OpTypes, OpShape, CallShape
  <2>6. op' = [o \in Op |-> IF o = "save" THEN q ELSE op[o]]
    BY <2>1 DEF q, Becomes, Types, OpTypes
  <2>7. OpTypes'
    BY <2>3, <2>4, <2>5, <2>6, OpFacts DEF OpTypes
  <2>8. FileTypes'
    BY <1>1, <2>3 DEF Types, FileTypes
  <2>9. CacheTypes'
    BY <1>1, <1>8, <2>1, <2>3 DEF Build, Types, FileTypes, CacheTypes, Files
  <2> QED
    BY <2>7, <2>8, <2>9 DEF Types
<1>9. CASE RenameIn
  <2>1. s.pc = "fill" /\ cache' = s.copy /\ doubt' = DoubtOf("save")
        /\ op' = [LoseHold EXCEPT !["save"].pc = "label"]
        /\ UNCHANGED <<Storage, meta, late, known>>
    BY <1>9 DEF RenameIn
  <2>2. op["load"] \in Calls /\ OpShape("load", op["load"], stored, past, made)
    BY OpFacts DEF Types, OpTypes, OpShape, CallShape
  <2>3. PICK h \in Holds : op'["load"] = [op["load"] EXCEPT !.hold = h]
    BY <2>1, <2>2, OpFacts DEF LoseHold, Holds, Calls
  <2>4. op'["save"] = [[s EXCEPT !.hold = s.hold] EXCEPT !.pc = "label"]
    BY <1>1, <2>1, OpFacts DEF LoseHold
  <2>5. op' = [o \in Op |-> op'[o]]
    BY <2>1 DEF LoseHold
  <2>6. OpShape("load", op'["load"], stored, past, made)
    BY <2>2, <2>3, ShapeOfHistory DEF OpShape, LoadShape, Calls
  <2>7. OpShape("save", op'["save"], stored, past, made)
    <3> DEFINE q == [s EXCEPT !.pc = "label"]
    <3>1. op'["save"] = q
      BY <1>1, <2>4 DEF Calls
    <3>2. q \in Calls /\ q.pc = "label"
      BY <1>1 DEF Calls, SaveSteps
    <3>3. /\ q.kind = s.kind /\ q.version = s.version
          /\ q.copy = s.copy /\ q.expected = s.expected
      BY <1>1 DEF Calls
    <3> HIDE DEF q
    <3> QED
      BY <1>1, <2>1, <3>1, <3>2, <3>3 DEF OpShape, CallShape, SaveShape, SaveSteps
  <2>8. OpTypes'
    BY <2>1, <2>5, <2>6, <2>7, OpFacts DEF OpTypes, Storage
  <2>9. cache' \in {None, Torn} \cup 2..made /\ doubt' \subseteq Doubts
    BY <1>1, <2>1 DEF OpShape, CallShape, DoubtOf, Doubts, Calls
  <2> QED
    BY <2>1, <2>8, <2>9 DEF Types, FileTypes, CacheTypes, Storage
<1> QED
  BY <1>3, <1>4, <1>5, <1>6, <1>7, <1>8, <1>9

(* The upload: every operation keeps its shape, the new file is later than  *)
(* all before it.                                                           *)
LEMMA UploadTypes ==
  ASSUME Types, Put \/ PutUnanswered
  PROVE  Types'
<1> USE DEF None, Torn
<1> DEFINE s == op["save"]
           f == s.copy
<1>1. /\ OpShape("save", s, stored, past, made) /\ s \in Calls /\ s.pc = "put"
      /\ "save" \in Op /\ made \in Nat /\ stored \subseteq 2..made
  BY OpFacts, FileAssumption
     DEF Put, PutUnanswered, Types, OpTypes, OpShape, CallShape, FileTypes, Files
<1>2. f \in 2..made /\ f \notin stored /\ f \in Nat /\ s.kind # "download"
  BY <1>1 DEF OpShape, CallShape, SaveShape
<1>3. /\ remote' = f /\ stored' = stored \cup {f} /\ past' = stored /\ made' = made
      /\ UNCHANGED <<Local, known>>
  BY DEF Put, PutUnanswered, Uploads
<1>4. FileTypes' /\ CacheTypes'
  BY <1>1, <1>2, <1>3 DEF Types, FileTypes, CacheTypes, Local
<1>5. ASSUME NEW q, Becomes("save", q), OpShape("save", q, stored', past', made)
      PROVE  Types'
  <2>1. OpShape("load", op["load"], stored', past', made')
    BY <1>1, <1>3, OpFacts DEF Types, OpTypes, OpShape, CallShape
  <2>2. op' = [o \in Op |-> IF o = "save" THEN q ELSE op[o]]
    BY <1>5 DEF Becomes, Types, OpTypes
  <2> QED
    BY <1>3, <1>4, <1>5, <2>1, <2>2, OpFacts DEF Types, OpTypes
<1>6. CASE PutUnanswered
  <2>1. OpShape("save", Idle, stored', past', made)
    BY IdleShape DEF OpShape, Idle, SaveShape, SaveSteps
  <2> QED
    BY <1>5, <1>6, <2>1 DEF PutUnanswered, Ends
<1>7. CASE Put /\ s.kind = "stream" /\ InfoFromResponse
  <2> DEFINE q == [s EXCEPT !.pc = "fill", !.version = f]
  <2>1. Becomes("save", q)
    BY <1>7 DEF Put
  <2>2. q \in Calls
    BY <1>1, <1>2 DEF Calls, SaveSteps
  <2>3. /\ q.pc = "fill" /\ q.kind = s.kind /\ q.version = f
        /\ q.copy = f /\ q.expected = s.expected
    BY <1>1 DEF Calls
  <2> HIDE DEF q
  <2>4. OpShape("save", q, stored', past', made)
    BY <1>1, <1>2, <1>3, <2>2, <2>3 DEF OpShape, CallShape, SaveShape, SaveSteps
  <2> QED
    BY <1>5, <2>1, <2>4
<1>8. CASE Put /\ ~(s.kind = "stream" /\ InfoFromResponse)
  <2> DEFINE q == [s EXCEPT !.pc = "info", !.version = None]
  <2>1. Becomes("save", q)
    BY <1>8 DEF Put
  <2>2. q \in Calls
    BY <1>1 DEF Calls, SaveSteps
  <2>3. /\ q.pc = "info" /\ q.kind = s.kind /\ q.version = None
        /\ q.copy = f /\ q.expected = s.expected
    BY <1>1 DEF Calls
  <2> HIDE DEF q
  <2>4. OpShape("save", q, stored', past', made)
    BY <1>1, <1>2, <1>3, <2>2, <2>3 DEF OpShape, CallShape, SaveShape, SaveSteps
  <2> QED
    BY <1>5, <2>1, <2>4
<1> QED
  BY <1>6, <1>7, <1>8

(* Another file renamed over the copy, or the copy gone, is only noticed by *)
(* the operation that fills it.                                             *)
LEMMA LoseHoldTypes ==
  ASSUME Types, UNCHANGED Storage, op' \in {op, LoseHold}
  PROVE  OpTypes'
<1>1. ASSUME NEW o \in Op PROVE OpShape(o, LoseHold[o], stored, past, made)
  <2>1. OpShape(o, op[o], stored, past, made) /\ op[o] \in Calls
    BY DEF Types, OpTypes, OpShape, CallShape
  <2>2. PICK h \in Holds : LoseHold[o] = [op[o] EXCEPT !.hold = h]
    BY <2>1 DEF LoseHold, Holds, Calls
  <2> QED
    BY <2>1, <2>2, ShapeOfHistory DEF OpShape, LoadShape, SaveShape, Calls
<1>2. LoseHold = [o \in Op |-> LoseHold[o]]
  BY DEF LoseHold
<1> QED
  BY <1>1, <1>2 DEF Types, OpTypes, Storage

(* What happens beside the operations.                                      *)
LEMMA BesideTypes ==
  ASSUME Types, LateWrite \/ DeleteCopy \/ DeleteMeta \/ OtherWrites \/ Crash
  PROVE  Types'
<1> USE DEF None, Torn
<1>1. CASE LateWrite
  <2>1. PICK f \in late :
          /\ late' = late \ {f}
          /\ (cache' = f /\ op' = LoseHold) \/ UNCHANGED <<cache, op>>
    BY <1>1 DEF LateWrite
  <2>2. UNCHANGED <<Storage, meta, doubt, known>>
    BY <1>1 DEF LateWrite
  <2>3. OpTypes'
    BY <2>1, <2>2, LoseHoldTypes
  <2> QED
    BY <2>1, <2>2, <2>3 DEF Types, FileTypes, CacheTypes, Storage
<1>2. CASE DeleteCopy
  <2>1. OpTypes'
    BY <1>2, LoseHoldTypes DEF DeleteCopy
  <2> QED
    BY <1>2, <2>1 DEF DeleteCopy, Types, FileTypes, CacheTypes, Storage
<1>3. CASE DeleteMeta
  <2>1. OpTypes'
    BY <1>3, LoseHoldTypes DEF DeleteMeta
  <2> QED
    BY <1>3, <2>1 DEF DeleteMeta, Types, FileTypes, CacheTypes, Storage
<1>4. CASE OtherWrites
  <2>1. /\ made' = made + 1 /\ remote' = made + 1 /\ stored' = stored \cup {made + 1}
        /\ past' = past /\ op' = op /\ made < MaxFile /\ UNCHANGED <<Local, known>>
    BY <1>4 DEF OtherWrites
  <2>2. made \in Nat /\ made' \in Files /\ made >= 2
    BY <2>1, FileAssumption DEF Types, FileTypes, Files
  <2>3. FileTypes' /\ CacheTypes'
    BY <2>1, <2>2 DEF Types, FileTypes, CacheTypes, Local
  <2>4. ASSUME NEW o \in Op PROVE OpShape(o, op[o], stored', past', made')
    <3>1. OpShape(o, op[o], stored, past, made)
      BY DEF Types, OpTypes
    <3>2. CallShape(op[o], stored', made')
      BY <2>1, <2>2, <3>1, ShapeGrows DEF OpShape
    <3>3. op[o].pc = "put" => op[o].copy # made + 1
      BY <2>2, <3>1 DEF OpShape, CallShape
    <3> QED
      BY <2>1, <3>1, <3>2, <3>3 DEF OpShape, SaveShape
  <2>5. OpTypes'
    BY <2>1, <2>4 DEF Types, OpTypes
  <2> QED
    BY <2>3, <2>5 DEF Types
<1>5. CASE Crash
  <2>1. ASSUME NEW o \in Op PROVE OpShape(o, Idle, stored, past, made)
    BY IdleShape DEF OpShape, Idle, LoadShape, SaveShape, LoadSteps, SaveSteps
  <2>2. OpTypes'
    BY <1>5, <2>1 DEF Crash, OpTypes, Storage
  <2> QED
    BY <1>5, <2>2 DEF Crash, Types, FileTypes, CacheTypes, Storage
<1> QED
  BY <1>1, <1>2, <1>3, <1>4, <1>5

(* Every step keeps the types.                                              *)
LEMMA TypesStep == Types /\ [Next]_vars => Types'
<1> SUFFICES ASSUME Types, [Next]_vars PROVE Types'
  OBVIOUS
<1>1. CASE UNCHANGED vars
  BY <1>1 DEF vars, Types, FileTypes, CacheTypes, OpTypes
<1>2. CASE LoadStep
  BY <1>2, LoadTypes, StartTypes DEF LoadStep
<1>3. CASE SaveStep
  BY <1>3, SaveTypes, StartTypes, UploadTypes DEF SaveStep
<1>4. CASE \E o \in Op : Step(o)
  BY <1>4, StepTypes
<1>5. CASE LateWrite \/ DeleteCopy \/ DeleteMeta \/ OtherWrites \/ Crash
  BY <1>5, BesideTypes
<1> QED
  BY <1>1, <1>2, <1>3, <1>4, <1>5 DEF Next

(* The state of CacheStorage and of its callers is well formed, and the     *)
(* metadata sidecar (CacheMetaService) only ever names a stored file.       *)
THEOREM TypeCorrect == Spec => []TypeOK
  BY InitTypes, TypesStep, TypesOK, PTL DEF Spec

-----------------------------------------------------------------------------
(* The inductive invariant.  An operation is active until it only has to    *)
(* report; it is lone if it has not overlapped with another; and the last   *)
(* refresh of the cache was calm if it had not either.                      *)
Active(r) == r.pc \notin {"idle", "saved", "offline"}
Lone(r) == "overlap" \notin r.doubt
Calm == "overlap" \notin doubt
Refreshing(r) == r.pc \in {"filling", "label"}
Uploaded(r) == r.pc \in {"info", "fill", "filling", "label"} /\ r.kind # "download"

(* The metadata is older than the last upload; it cannot make v hit, or     *)
(* names it; and the copy is v or visibly no stored file.                   *)
Behind == meta = None \/ meta \in past
Safe(v) == meta \in {None, v} \/ meta # remote
Whole(v) == cache \in {None, Torn, v} \/ cache \notin stored

(* Operations that run at the same time know it, and so does the cache that *)
(* both refresh.                                                            *)
Apart ==
  /\ \A o \in Op : Active(op[o]) /\ op[Other(o)].pc # "idle" => ~Lone(op[o])
  /\ Calm => ~(Refreshing(op["load"]) /\ Refreshing(op["save"]))
Overlap(o, r) ==
  /\ o = "load" /\ Active(r) /\ late # {} => ~Lone(r)
  /\ o = "save" /\ Active(r) /\ Lone(r)
       => \A f \in late \cap stored : Uploaded(r) /\ f = r.copy
  /\ Calm /\ r.pc = "filling" => r.hold # "shared"

(* What makes the device read its own writes.                               *)
Upload(r) == Uploaded(r) /\ (Lone(r) \/ (Refreshing(r) /\ Calm)) => Behind
Past(o, r) ==
  /\ r.pc \in {"read2", "fill"} /\ Lone(r) => r.copy \notin past
  /\ r.pc \in {"match", "copy"} /\ Lone(r) => r.version \notin past
  /\ Calm /\ Refreshing(r) =>
       /\ r.version \notin past \cup {None} => r.copy \notin past /\ cache \notin past
       /\ ~Behind => r.copy \notin past
       /\ \A f \in late \cap past : r.version \in past \cup {None}
  /\ r.pc = "copy" /\ Lone(r) /\ Calm => cache \notin past
  /\ o = "load" /\ r.pc \in {"filling", "label", "got", "hit"} /\ Lone(r)
       => r.copy \notin past
PastCache ==
  /\ Calm => \A f \in late \cap past : Behind
  /\ Calm /\ ~Behind => cache \notin past

(* What makes a hit exact.                                                  *)
Ready(r) == \/ r.pc = "fill" /\ r.doubt = {} /\ r.version = r.copy
            \/ Refreshing(r) /\ doubt = {}
Exact(r) ==
  /\ Ready(r) => r.version = r.copy /\ Safe(r.version)
  /\ doubt = {} /\ Refreshing(r) /\ r.version = remote =>
       /\ Whole(remote)
       /\ \A f \in late \cap stored : f = remote
  /\ r.pc = "match" /\ r.doubt = {} /\ doubt = {} /\ r.version # None /\ meta = r.version
       => Whole(meta)
  /\ r.pc = "copy" /\ r.doubt = {} /\ doubt = {} => Whole(r.version)
  /\ r.pc = "hit" /\ r.doubt = {} => r.copy \in {r.version, Torn} \/ r.copy \notin stored
ExactCache ==
  /\ doubt = {} => \A f \in late \cap stored : Safe(f)
  /\ doubt = {} /\ meta = remote => Whole(meta)

OpInv(o, r) == Overlap(o, r) /\ Upload(r) /\ Past(o, r) /\ Exact(r)
Inv == /\ Apart /\ PastCache /\ ExactCache
       /\ \A o \in Op : OpInv(o, op[o])

(* It holds at first.                                                       *)
LEMMA InitInv == Init => Inv
<1> SUFFICES ASSUME Init PROVE Inv
  OBVIOUS
<1>1. \A o \in Op : op[o] = Idle
  BY DEF Init
<1>2. \A o \in Op : OpInv(o, Idle)
  BY DEF OpInv, Overlap, Upload, Past, Exact, Ready, Active, Refreshing, Uploaded, Idle
<1>3. Apart
  BY <1>1, OpFacts DEF Apart, Active, Refreshing, Idle
<1>4. PastCache /\ ExactCache
  BY DEF Init, PastCache, ExactCache, Behind, None
<1> QED
  BY <1>1, <1>2, <1>3, <1>4 DEF Inv

(* The invariant, operation by operation.                                   *)
LEMMA Assemble ==
  ASSUME NEW o \in Op, Apart', PastCache', ExactCache',
         OpInv(o, op[o])', OpInv(Other(o), op[Other(o)])'
  PROVE  Inv'
<1>1. \A p \in Op : p = o \/ p = Other(o)
  BY OpFacts
<1> QED
  BY <1>1 DEF Inv, OpInv

(* A step of one operation that leaves the files alone need only keep what  *)
(* the invariant says of that one, as long as it does not make it look more *)
(* alone than it was.                                                       *)
LEMMA LocalInv ==
  ASSUME Types, Inv, NEW o \in Op, NEW r, Becomes(o, r), UNCHANGED <<Storage, Local>>,
         OpInv(o, r), op[o].pc # "idle",
         Active(r) => Active(op[o]), Active(r) /\ Lone(r) => Lone(op[o]),
         Refreshing(r) => Refreshing(op[o])
  PROVE  Inv'
<1> DEFINE p == Other(o)
<1>1. p \in Op /\ p # o /\ Op = {o, p} /\ Other(p) = o
  BY OpFacts
<1>2. op' = [q \in Op |-> IF q = o THEN r ELSE op[q]]
  BY DEF Becomes, Types, OpTypes
<1>3. op'[o] = r /\ op'[p] = op[p]
  BY <1>1, <1>2
<1>4. /\ UNCHANGED <<remote, stored, past, made, cache, meta, late, doubt>>
  BY DEF Storage, Local
<1>5. Apart'
  <2>1. \A q \in Op : Active(op'[q]) /\ op'[Other(q)].pc # "idle" => ~Lone(op'[q])
    BY <1>1, <1>3 DEF Inv, Apart
  <2>2. ~(Refreshing(op'[o]) /\ Refreshing(op'[p])) \/ ~Calm
    BY <1>1, <1>3, OpFacts DEF Inv, Apart
  <2> QED
    BY <1>1, <1>4, <2>1, <2>2, OpFacts DEF Apart, Calm, Active, Lone, Refreshing
<1>6. PastCache' /\ ExactCache'
  BY <1>4 DEF Inv, PastCache, ExactCache, Calm, Behind, Safe, Whole
<1>7. OpInv(p, op[p])'
  BY <1>1, <1>3, <1>4 DEF Inv, OpInv, Overlap, Upload, Past, Exact, Ready, Active, Lone,
     Calm, Refreshing, Uploaded, Behind, Safe, Whole
<1>8. OpInv(o, op[o])'
  BY <1>3, <1>4 DEF OpInv, Overlap, Upload, Past, Exact, Ready, Active, Lone,
     Calm, Refreshing, Uploaded, Behind, Safe, Whole
<1> QED
  BY <1>5, <1>6, <1>7, <1>8, Assemble

(* An operation that ends owes nothing.                                     *)
LEMMA EndsInv ==
  ASSUME Types, Inv, NEW o \in Op, Ends(o), UNCHANGED <<Storage, Local>>,
         op[o].pc # "idle"
  PROVE  Inv'
<1>1. /\ OpInv(o, Idle) /\ ~Active(Idle) /\ ~Refreshing(Idle)
  BY DEF OpInv, Overlap, Upload, Past, Exact, Ready, Active, Refreshing, Uploaded, Idle
<1> QED
  BY <1>1, LocalInv DEF Ends

(* A step to where the invariant says nothing of the copy or the version.   *)
Plain == {"read", "read2", "write", "put", "guard", "offline", "saved"}

(* It keeps the invariant.                                                  *)
LEMMA PlainInv ==
  ASSUME Types, Inv, NEW o \in Op, NEW r, Becomes(o, r), UNCHANGED <<Storage, Local>>,
         op[o].pc \notin {"idle", "info"}, ~Uploaded(op[o]),
         Active(r) => Active(op[o]), r.doubt = op[o].doubt,
         r.pc \in Plain, r.pc = "read2" => r.copy \notin past
  PROVE  Inv'
<1>1. Overlap(o, r) /\ Upload(r)
  BY DEF Inv, OpInv, Overlap, Upload, Active, Lone, Uploaded, Refreshing, Plain
<1>2. Past(o, r) /\ Exact(r)
  BY DEF Past, Exact, Ready, Refreshing, Plain
<1> QED
  BY <1>1, <1>2, LocalInv DEF OpInv, Lone, Refreshing, Plain

(* The load's fast path.                                                    *)
LEMMA LoadInv ==
  ASSUME Types, Inv, Probe \/ MatchMeta \/ CopyOut
  PROVE  Inv'
<1> USE DEF None, Torn
<1> DEFINE l == op["load"]
<1>1. /\ OpShape("load", l, stored, past, made) /\ l \in Calls /\ "load" \in Op
      /\ OpInv("load", l) /\ remote \notin past /\ remote \in stored /\ None \notin past
      /\ late \in SUBSET Nat
  BY OpFacts, FileAssumption
     DEF Types, OpTypes, OpShape, CallShape, FileTypes, Files, Inv, CacheTypes
<1>2. UNCHANGED <<Storage, Local>>
  BY DEF Probe, MatchMeta, CopyOut
<1>3. CASE Probe
  <2>1. PICK v \in {None, remote} :
          Becomes("load", [l EXCEPT !.pc = "match", !.version = v, !.mode = Consumed(@)])
    BY <1>3 DEF Probe
  <2> DEFINE q == [l EXCEPT !.pc = "match", !.version = v, !.mode = Consumed(@)]
  <2>2. /\ q.pc = "match" /\ q.version = v /\ q.kind = l.kind /\ q.doubt = l.doubt
        /\ l.pc = "probe"
    BY <1>1, <1>3 DEF Probe, Calls
  <2> HIDE DEF q
  <2>3. OpInv("load", q)
    BY <1>1, <2>1, <2>2 DEF OpInv, Overlap, Upload, Past, Exact, Ready, Active, Lone,
       Refreshing, Uploaded, Inv, ExactCache
  <2> QED
    BY <1>1, <1>2, <2>1, <2>2, <2>3, LocalInv DEF q, Active, Lone, Refreshing
<1>4. CASE MatchMeta
  <2>1. CASE l.mode = "online" /\ l.version # None /\ meta = l.version
    <3> DEFINE q == [l EXCEPT !.pc = "copy"]
    <3>1. Becomes("load", q) /\ l.pc = "match"
      BY <1>4, <2>1 DEF MatchMeta
    <3>2. /\ q.pc = "copy" /\ q.version = l.version /\ q.kind = l.kind
          /\ q.doubt = l.doubt
      BY <1>1 DEF Calls
    <3> HIDE DEF q
    <3>3. Lone(q) /\ Calm => cache \notin past
      BY <1>1, <2>1, <3>1, <3>2 DEF OpInv, Past, Lone, Inv, PastCache, Behind
    <3>4. OpInv("load", q)
      BY <1>1, <2>1, <3>1, <3>2, <3>3 DEF OpInv, Overlap, Upload, Past, Exact, Ready,
         Active, Lone, Refreshing, Uploaded
    <3> QED
      BY <1>1, <1>2, <3>1, <3>2, <3>4, LocalInv DEF Active, Lone, Refreshing
  <2>2. CASE ~(l.mode = "online" /\ l.version # None /\ meta = l.version)
    <3> DEFINE q == [l EXCEPT !.pc = "read"]
    <3>1. Becomes("load", q) /\ l.pc = "match"
      BY <1>4, <2>2 DEF MatchMeta
    <3>2. q.pc = "read" /\ q.doubt = l.doubt
      BY <1>1 DEF Calls
    <3> HIDE DEF q
    <3> QED
      BY <1>1, <1>2, <3>1, <3>2, PlainInv DEF Active, Uploaded, Plain
  <2> QED
    BY <2>1, <2>2
<1>5. CASE CopyOut /\ cache = None
  <2> DEFINE q == [l EXCEPT !.pc = "read"]
  <2>1. Becomes("load", q) /\ l.pc = "copy"
    BY <1>5 DEF CopyOut
  <2>2. q.pc = "read" /\ q.doubt = l.doubt
    BY <1>1 DEF Calls
  <2> HIDE DEF q
  <2> QED
    BY <1>1, <1>2, <2>1, <2>2, PlainInv DEF Active, Uploaded, Plain
<1>6. CASE CopyOut /\ cache # None
  <2> DEFINE q == [l EXCEPT !.pc = "hit", !.copy = cache, !.doubt = @ \cup doubt]
  <2>1. Becomes("load", q) /\ l.pc = "copy"
    BY <1>6 DEF CopyOut
  <2>2. /\ q.pc = "hit" /\ q.copy = cache /\ q.doubt = l.doubt \cup doubt
        /\ q.version = l.version /\ q.kind = l.kind
    BY <1>1 DEF Calls
  <2> HIDE DEF q
  <2>3. Lone(q) => Lone(l) /\ Calm
    BY <2>2 DEF Lone, Calm
  <2>4. Overlap("load", q) /\ Upload(q)
    BY <1>1, <2>1, <2>2, <2>3 DEF OpInv, Overlap, Upload, Active, Refreshing, Uploaded
  <2>5. Past("load", q)
    BY <1>1, <2>1, <2>2, <2>3 DEF OpInv, Past, Refreshing
  <2>6. Exact(q)
    BY <1>1, <1>6, <2>1, <2>2 DEF OpInv, Exact, Ready, Refreshing, Whole
  <2>7. OpInv("load", q)
    BY <2>4, <2>5, <2>6 DEF OpInv
  <2> QED
    BY <1>1, <1>2, <2>1, <2>2, <2>3, <2>7, LocalInv DEF Active, Refreshing
<1> QED
  BY <1>3, <1>4, <1>5, <1>6

(* What is left of an operation when its refresh is over.                   *)
LEMMA RefreshedInv ==
  ASSUME Types, Inv, NEW o \in Op, op[o].pc \in {"fill", "filling", "label"}
  PROVE  /\ OpInv(o, Refreshed(o)) /\ ~Refreshing(Refreshed(o))
         /\ Active(op[o]) /\ op[o].pc # "idle"
         /\ Active(Refreshed(o)) /\ Lone(Refreshed(o)) => Lone(op[o])
<1> USE DEF None, Torn
<1> DEFINE r == op[o]
<1>1. r \in Calls /\ OpInv(o, r) /\ (o = "load" \/ o = "save")
  BY OpFacts DEF Types, OpTypes, OpShape, CallShape, Inv
<1>2. CASE o = "load"
  <2> DEFINE q == [[r EXCEPT !.hold = "own"] EXCEPT !.pc = "got"]
  <2>1. Refreshed(o) = q
    BY <1>2 DEF Refreshed
  <2>2. q.pc = "got" /\ q.copy = r.copy /\ q.doubt = r.doubt /\ q.kind = r.kind
    BY <1>1 DEF Calls
  <2> HIDE DEF q
  <2>3. OpInv(o, q)
    BY <1>1, <1>2, <2>2 DEF OpInv, Overlap, Upload, Past, Exact, Ready, Active,
       Lone, Refreshing, Uploaded
  <2> QED
    BY <2>1, <2>2, <2>3 DEF Active, Lone, Refreshing
<1>3. CASE o = "save" /\ r.kind = "download"
  <2> DEFINE q == [[r EXCEPT !.hold = "own"] EXCEPT !.pc = "write", !.copy = None]
  <2>1. Refreshed(o) = q
    BY <1>1, <1>3 DEF Refreshed, Calls
  <2>2. q.pc = "write" /\ q.doubt = r.doubt
    BY <1>1 DEF Calls
  <2> HIDE DEF q
  <2>3. OpInv(o, q)
    BY <1>1, <1>3, <2>2 DEF OpInv, Overlap, Upload, Past, Exact, Ready, Active,
       Lone, Refreshing, Uploaded
  <2> QED
    BY <2>1, <2>2, <2>3 DEF Active, Lone, Refreshing
<1>4. CASE o = "save" /\ r.kind # "download"
  <2>1. Refreshed(o) = [Idle EXCEPT !.pc = "saved", !.version = r.version]
    BY <1>1, <1>4 DEF Refreshed, Calls
  <2>2. OpInv(o, Refreshed(o)) /\ ~Active(Refreshed(o)) /\ ~Refreshing(Refreshed(o))
    BY <2>1 DEF OpInv, Overlap, Upload, Past, Exact, Ready, Active, Refreshing,
       Uploaded, Idle
  <2> QED
    BY <2>2 DEF Active
<1> QED
  BY <1>1, <1>2, <1>3, <1>4

(* The requests of readToFile(), the end of an operation and a refresh that *)
(* failed.                                                                  *)
LEMMA ReadInv ==
  ASSUME Types, Inv, NEW o \in Op,
         \/ Fails(o) \/ Deliver(o) \/ ReadFirst(o) \/ ReadSecond(o)
         \/ ReadFromCache(o) \/ FillFails(o)
  PROVE  Inv'
<1> USE DEF None, Torn
<1> DEFINE r == op[o]
<1>1. /\ OpShape(o, r, stored, past, made) /\ r \in Calls /\ OpInv(o, r)
      /\ remote \notin past /\ remote \in stored /\ None \notin past
      /\ o = "load" \/ o = "save"
  BY OpFacts, FileAssumption
     DEF Types, OpTypes, OpShape, CallShape, FileTypes, Files, Inv
<1>2. UNCHANGED <<Storage, Local>>
  BY DEF Fails, Deliver, ReadFirst, ReadSecond, ReadFromCache, FillFails
<1>3. CASE Fails(o) \/ Deliver(o)
  BY <1>2, <1>3, EndsInv DEF Fails, Deliver
<1>4. CASE ReadFirst(o)
  <2> DEFINE q == IF ReadInfoFirst
                  THEN [r EXCEPT !.pc = "read2", !.version = remote]
                  ELSE [r EXCEPT !.pc = "read2", !.copy = remote]
  <2>1. Becomes(o, q) /\ r.pc = "read"
    BY <1>4 DEF ReadFirst
  <2>2. q.pc = "read2" /\ q.copy \in {r.copy, remote} /\ q.doubt = r.doubt
    BY <1>1 DEF Calls
  <2>3. r.copy = None
    BY <1>1, <2>1 DEF OpShape, CallShape
  <2> HIDE DEF q
  <2> QED
    BY <1>1, <1>2, <2>1, <2>2, <2>3, PlainInv DEF Active, Uploaded, Plain
<1>5. CASE ReadSecond(o)
  <2> DEFINE q == IF ReadInfoFirst
                  THEN [r EXCEPT !.pc = "fill", !.mode = "online", !.copy = remote]
                  ELSE [r EXCEPT !.pc = "fill", !.mode = "online", !.version = remote]
  <2>1. Becomes(o, q) /\ r.pc = "read2"
    BY <1>5 DEF ReadSecond
  <2>2. /\ q.pc = "fill" /\ q.kind = r.kind /\ q.doubt = r.doubt
        /\ q.copy \in {r.copy, remote} /\ (q.version = remote \/ q.copy = remote)
    BY <1>1 DEF Calls
  <2>3. r.kind = "download"
    BY <1>1, <2>1 DEF OpShape, CallShape
  <2> HIDE DEF q
  <2>4. Overlap(o, q) /\ Upload(q)
    BY <1>1, <2>1, <2>2, <2>3 DEF OpInv, Overlap, Upload, Active, Lone, Refreshing, Uploaded
  <2>5. Past(o, q)
    BY <1>1, <2>1, <2>2, <2>3 DEF OpInv, Past, Lone, Refreshing
  <2>6. Exact(q)
    BY <1>1, <2>1, <2>2 DEF Exact, Ready, Safe, Refreshing
  <2> QED
    BY <1>1, <1>2, <2>1, <2>2, <2>4, <2>5, <2>6, LocalInv DEF OpInv, Active, Lone, Refreshing
<1>6. CASE ReadFromCache(o)
  <2>0. r.pc = "read"
    BY <1>6 DEF ReadFromCache
  <2>1. CASE cache = None
    BY <1>2, <1>6, <2>0, <2>1, EndsInv DEF ReadFromCache
  <2>2. CASE cache # None /\ o = "load"
    <3> DEFINE q == [Idle EXCEPT !.pc = "offline", !.copy = cache]
    <3>1. Becomes(o, q)
      BY <1>6, <2>2 DEF ReadFromCache
    <3>2. OpInv(o, q) /\ ~Active(q) /\ ~Refreshing(q)
      BY DEF OpInv, Overlap, Upload, Past, Exact, Ready, Active, Refreshing, Uploaded, Idle
    <3> QED
      BY <1>2, <2>0, <3>1, <3>2, LocalInv
  <2>3. CASE cache # None /\ o = "save"
    <3> DEFINE q == [r EXCEPT !.pc = "write"]
    <3>1. Becomes(o, q)
      BY <1>6, <2>3 DEF ReadFromCache
    <3>2. q.pc = "write" /\ q.doubt = r.doubt
      BY <1>1 DEF Calls
    <3> HIDE DEF q
    <3> QED
      BY <1>1, <1>2, <2>0, <3>1, <3>2, PlainInv DEF Active, Uploaded, Plain
  <2> QED
    BY <1>1, <2>1, <2>2, <2>3
<1>7. CASE FillFails(o)
  BY <1>2, <1>7, RefreshedInv, LocalInv DEF FillFails
<1> QED
  BY <1>3, <1>4, <1>5, <1>6, <1>7

(* The save's steps that touch neither the storage nor the cache.           *)
LEMMA SaveInv ==
  ASSUME Types, Inv,
         GuardHit \/ GuardMiss \/ ReportConflict \/ Refused \/ PutConflict \/ Info
  PROVE  Inv'
<1> USE DEF None, Torn
<1> DEFINE s == op["save"]
<1>1. /\ OpShape("save", s, stored, past, made) /\ s \in Calls /\ "save" \in Op
      /\ OpInv("save", s) /\ remote \notin past /\ None \notin past
  BY OpFacts, FileAssumption
     DEF Types, OpTypes, OpShape, CallShape, FileTypes, Files, Inv
<1>2. UNCHANGED <<Storage, Local>>
  BY DEF GuardHit, GuardMiss, ReportConflict, Refused, PutConflict, Info
<1>3. CASE GuardHit \/ GuardMiss \/ PutConflict
  <2>1. PICK q : /\ Becomes("save", q) /\ q.pc \in {"write", "read"} /\ q.doubt = s.doubt
                 /\ s.pc \in {"guard", "put"}
    <3>1. CASE GuardHit
      <4> DEFINE q == [s EXCEPT !.pc = "write", !.version = remote]
      <4>1. q.pc = "write" /\ q.doubt = s.doubt
        BY <1>1 DEF Calls
      <4> QED
        BY <3>1, <4>1 DEF GuardHit
    <3>2. CASE GuardMiss
      <4> DEFINE q == [s EXCEPT !.pc = "read"]
      <4>1. q.pc = "read" /\ q.doubt = s.doubt
        BY <1>1 DEF Calls
      <4> QED
        BY <3>2, <4>1 DEF GuardMiss
    <3>3. CASE PutConflict
      <4> DEFINE q == [s EXCEPT !.pc = "read", !.kind = "download",
                                !.version = None, !.copy = None]
      <4>1. q.pc = "read" /\ q.doubt = s.doubt
        BY <1>1 DEF Calls
      <4> QED
        BY <3>3, <4>1 DEF PutConflict
    <3> QED
      BY <1>3, <3>1, <3>2, <3>3
  <2> QED
    BY <1>1, <1>2, <2>1, PlainInv DEF Active, Uploaded, Plain
<1>4. CASE ReportConflict \/ Refused
  BY <1>1, <1>2, <1>4, EndsInv DEF ReportConflict, Refused
<1>5. CASE Info
  <2>1. PICK v \in {None, remote} : Becomes("save", [s EXCEPT !.pc = "fill", !.version = v])
    BY <1>5 DEF Info
  <2> DEFINE q == [s EXCEPT !.pc = "fill", !.version = v]
  <2>2. /\ q.pc = "fill" /\ q.kind = s.kind /\ q.copy = s.copy /\ q.doubt = s.doubt
        /\ s.pc = "info"
    BY <1>1, <1>5 DEF Info, Calls
  <2> HIDE DEF q
  <2>3. Uploaded(s) /\ Uploaded(q) /\ q.copy \notin past
    BY <1>1, <2>2 DEF OpShape, SaveShape, Uploaded
  <2>4. Lone(s) => Behind /\ meta # remote
    <3>1. Lone(s) => Behind
      BY <1>1, <2>3 DEF OpInv, Upload
    <3>2. remote # None
      BY FileAssumption DEF Types, FileTypes, Files
    <3> QED
      BY <1>1, <3>1, <3>2 DEF Behind
  <2>5. Overlap("save", q) /\ Upload(q)
    BY <1>1, <2>2, <2>3, <2>4 DEF OpInv, Overlap, Upload, Active, Lone, Refreshing
  <2>6. Past("save", q)
    BY <2>2, <2>3 DEF Past, Refreshing
  <2>7. Exact(q)
    BY <2>2, <2>4 DEF Exact, Ready, Safe, Lone, Refreshing
  <2> QED
    BY <1>1, <1>2, <2>1, <2>2, <2>5, <2>6, <2>7, LocalInv DEF q, OpInv, Active, Lone, Refreshing
<1> QED
  BY <1>3, <1>4, <1>5

(* What the invariant says of an operation does not depend on its hold, and *)
(* a doubt more only weakens it.                                            *)
LEMMA DoubtGrows ==
  ASSUME NEW o, NEW r, NEW v, OpInv(o, r),
         v.pc = r.pc, v.kind = r.kind, v.version = r.version, v.copy = r.copy,
         r.doubt \subseteq v.doubt, v.hold = r.hold
  PROVE  OpInv(o, v)
  BY DEF OpInv, Overlap, Upload, Past, Exact, Ready, Active, Lone, Refreshing, Uploaded

(* An operation that starts, and the one it overlaps with.                  *)
LEMMA StartedInv ==
  ASSUME Types, Inv, NEW o \in Op, NEW r, Started(o, r), UNCHANGED <<Storage, Local>>,
         r \in Calls, r.pc \in {"probe", "read", "guard"}
  PROVE  Inv'
<1> DEFINE p == Other(o)
           alone == ~Busy(p) /\ late = {}
           d == IF alone THEN {} ELSE {"overlap"}
           e == IF Busy(p) THEN op[p].doubt \cup {"overlap"} ELSE op[p].doubt
           u == [r EXCEPT !.doubt = d]
           v == [op[p] EXCEPT !.doubt = e]
<1>1. /\ p \in Op /\ p # o /\ Op = {o, p} /\ Other(p) = o
      /\ op \in [Op -> Calls] /\ op[p] \in Calls /\ OpInv(p, op[p])
  BY OpFacts, TypesOK DEF TypeOK, Inv
<1>2. op'[o] = u /\ op'[p] = v
  BY <1>1 DEF Started
<1>3. u.pc = r.pc /\ u.doubt = d
  BY DEF Calls
<1>4. /\ v.pc = op[p].pc /\ v.kind = op[p].kind /\ v.version = op[p].version
      /\ v.copy = op[p].copy /\ v.hold = op[p].hold /\ v.doubt = e
  BY <1>1 DEF Calls
<1>5. op[p].doubt \subseteq e
  OBVIOUS
<1> HIDE DEF u, v
<1>6. UNCHANGED <<remote, stored, past, made, cache, meta, late, doubt>>
  BY DEF Storage, Local
<1>7. OpInv(p, v)
  BY <1>1, <1>4, <1>5, DoubtGrows
<1>8. OpInv(o, u)
  BY <1>3 DEF OpInv, Overlap, Upload, Past, Exact, Ready, Active, Lone, Refreshing, Uploaded
<1>9. OpInv(o, op[o])' /\ OpInv(p, op[p])'
  BY <1>2, <1>6, <1>7, <1>8 DEF OpInv, Overlap, Upload, Past, Exact, Ready, Active, Lone,
     Calm, Refreshing, Uploaded, Behind, Safe, Whole
<1>10. PastCache' /\ ExactCache'
  BY <1>6 DEF Inv, PastCache, ExactCache, Calm, Behind, Safe, Whole
<1>11. Apart'
  <2>1. v.pc # "idle" => "overlap" \in v.doubt /\ "overlap" \in u.doubt
    BY <1>3, <1>4 DEF Busy
  <2>2. ~Refreshing(u)
    BY <1>3 DEF Refreshing
  <2>3. ~(Refreshing(op'["load"]) /\ Refreshing(op'["save"]))
    BY <1>1, <1>2, <2>2, OpFacts
  <2>4. \A q \in Op : Active(op'[q]) /\ op'[Other(q)].pc # "idle" => ~Lone(op'[q])
    BY <1>1, <1>2, <2>1, OpFacts DEF Active, Lone
  <2> QED
    BY <2>3, <2>4 DEF Apart, Active, Lone, Refreshing
<1> QED
  BY <1>9, <1>10, <1>11, Assemble

(* The starts of a load and of a save.                                      *)
LEMMA StartInv ==
  ASSUME Types, Inv, StartLoad \/ StartSave
  PROVE  Inv'
<1>1. Idle \in Calls
  BY IdleShape DEF CallShape
<1>2. CASE StartLoad
  <2>1. PICK pc \in {"probe", "read"}, m \in Modes :
          Started("load", [Idle EXCEPT !.pc = pc, !.mode = m])
    BY <1>2 DEF StartLoad, Consumed, Modes
  <2> DEFINE r == [Idle EXCEPT !.pc = pc, !.mode = m]
  <2>2. r \in Calls /\ r.pc = pc
    BY <1>1 DEF Calls, LoadSteps
  <2> HIDE DEF r
  <2> QED
    BY <1>2, <2>1, <2>2, StartedInv, OpFacts DEF StartLoad, r
<1>3. CASE StartSave
  <2>1. PICK m \in Modes :
          Started("save", [Idle EXCEPT !.pc = "guard", !.mode = m, !.expected = known])
    BY <1>3 DEF StartSave, Modes
  <2> DEFINE r == [Idle EXCEPT !.pc = "guard", !.mode = m, !.expected = known]
  <2>2. known \in Nat
    BY FileAssumption DEF Types, CacheTypes, FileTypes, Files, None
  <2>3. r \in Calls /\ r.pc = "guard"
    BY <1>1, <2>2 DEF Calls, SaveSteps
  <2> HIDE DEF r
  <2> QED
    BY <1>3, <2>1, <2>3, StartedInv, OpFacts DEF StartSave, r
<1> QED
  BY <1>2, <1>3

(* A refresh that begins calmly: the other operation is idle, the file is   *)
(* not one from before the last upload, and no such file is still to be     *)
(* renamed into place; with no doubt at all it is the file of its version.  *)
LEMMA FillFacts ==
  ASSUME Types, Inv, NEW o \in Op, op[o].pc = "fill", "overlap" \notin DoubtOf(o)
  PROVE  /\ op[Other(o)].pc = "idle" /\ Lone(op[o])
         /\ op[o].copy \notin past /\ late \cap past = {}
         /\ Uploaded(op[o]) => Behind
         /\ DoubtOf(o) = {} =>
              /\ op[o].version = op[o].copy /\ Safe(op[o].version)
              /\ \A f \in late \cap stored : f = op[o].version
<1> DEFINE r == op[o]
<1>1. /\ OpInv(o, r) /\ (o = "load" \/ o = "save") /\ past \subseteq stored
      /\ Active(r)
  BY OpFacts DEF Inv, Types, FileTypes, Active
<1>2. Lone(r) /\ op[Other(o)].pc = "idle"
  BY <1>1 DEF DoubtOf, Lone, Inv, Apart
<1>3. r.copy \notin past
  BY <1>1, <1>2 DEF OpInv, Past
<1>4. \A f \in late \cap stored : f = r.copy
  BY <1>1, <1>2 DEF OpInv, Overlap
<1>5. DoubtOf(o) = {} => r.version = r.copy /\ Safe(r.version)
  BY <1>1 DEF DoubtOf, OpInv, Exact, Ready
<1> QED
  BY <1>1, <1>2, <1>3, <1>4, <1>5 DEF OpInv, Upload

(* What follows from them once the copy is torn, or is the file itself.     *)
LEMMA FillInv ==
  ASSUME Types, Inv, NEW o \in Op, op[o].pc = "fill",
         doubt' = DoubtOf(o), UNCHANGED <<Storage, meta, late>>,
         cache' \in {Torn, op[o].copy},
         NEW u, NEW v, op'[o] = u, op'[Other(o)] = v,
         u.pc \in {"filling", "label"}, u.kind = op[o].kind, u.copy = op[o].copy,
         u.version = op[o].version, u.doubt = op[o].doubt,
         u.pc = "filling" => u.hold = "own" \/ Busy(Other(o)),
         v.pc = op[Other(o)].pc, v.kind = op[Other(o)].kind,
         v.copy = op[Other(o)].copy, v.version = op[Other(o)].version,
         v.doubt = op[Other(o)].doubt
  PROVE  Inv'
<1> USE DEF Torn, None
<1> DEFINE p == Other(o)
           r == op[o]
<1>1. /\ p \in Op /\ p # o /\ Op = {o, p} /\ Other(p) = o
      /\ o = "load" \/ o = "save"
      /\ OpInv(o, r) /\ OpInv(p, op[p]) /\ Torn \notin past /\ past \subseteq stored
      /\ remote # None /\ None \notin past
  BY OpFacts, FileAssumption DEF Inv, Types, FileTypes, Files
<1>2. UNCHANGED <<remote, stored, past, made, meta, late>>
  BY DEF Storage
<1>3. /\ op[p].pc = "idle" => v.pc = "idle"
      /\ Calm' => op[p].pc = "idle" /\ Lone(r) /\ r.copy \notin past /\ cache' \notin past
                  /\ late \cap past = {} /\ (Uploaded(r) => Behind)
      /\ doubt' = {} => /\ r.version = r.copy /\ Safe(r.version) /\ Calm'
                        /\ \A f \in late \cap stored : f = r.version
  BY <1>1, FillFacts DEF Calm
<1>4. Apart'
  <2>1. \A q \in Op : Active(op'[q]) /\ op'[Other(q)].pc # "idle" => ~Lone(op'[q])
    BY <1>1 DEF Inv, Apart, Active, Lone
  <2>2. Calm' => ~(Refreshing(op'["load"]) /\ Refreshing(op'["save"]))
    <3>1. (o = "load" /\ p = "save") \/ (o = "save" /\ p = "load")
      BY <1>1, OpFacts
    <3>2. Calm' => op'[p].pc = "idle"
      BY <1>3
    <3> QED
      BY <3>1, <3>2 DEF Refreshing
  <2> QED
    BY <2>1, <2>2 DEF Apart, Active, Lone, Refreshing, Calm
<1>5. OpInv(o, op[o])'
  <2>1. Overlap(o, op[o])'
    BY <1>1, <1>2, <1>3 DEF OpInv, Overlap, Active, Lone, Calm, Uploaded, Busy
  <2>2. Upload(op[o])'
    BY <1>1, <1>2, <1>3 DEF OpInv, Upload, Uploaded, Refreshing, Lone, Calm, Behind
  <2>3. Past(o, op[o])'
    BY <1>1, <1>2, <1>3 DEF OpInv, Past, Refreshing, Lone, Calm, Behind
  <2>4. Exact(op[o])'
    BY <1>1, <1>2, <1>3 DEF Exact, Ready, Refreshing, Whole, Safe
  <2> QED
    BY <2>1, <2>2, <2>3, <2>4 DEF OpInv
<1>6. OpInv(p, op[p])'
  <2>1. Overlap(p, op[p])'
    BY <1>1, <1>2, <1>3 DEF OpInv, Overlap, Active, Lone, Calm, Uploaded
  <2>2. Upload(op[p])'
    BY <1>1, <1>2, <1>3 DEF OpInv, Upload, Uploaded, Refreshing, Lone, Calm, Behind
  <2>3. Past(p, op[p])'
    BY <1>1, <1>2, <1>3 DEF OpInv, Past, Refreshing, Lone, Calm, Behind
  <2>4. Exact(op[p])'
    BY <1>1, <1>2, <1>3 DEF OpInv, Exact, Ready, Refreshing, Whole, Safe, Calm
  <2> QED
    BY <2>1, <2>2, <2>3, <2>4 DEF OpInv
<1>7. PastCache'
  BY <1>2, <1>3 DEF PastCache, Calm, Behind
<1>8. ExactCache'
  BY <1>1, <1>2, <1>3 DEF ExactCache, Safe, Whole
<1> QED
  BY <1>1, <1>4, <1>5, <1>6, <1>7, <1>8, Assemble

(* A refresh that copies a file begins with a torn copy.                    *)
LEMMA FillBeginsInv ==
  ASSUME Types, Inv, NEW o \in Op, FillBegins(o)
  PROVE  Inv'
<1> DEFINE p == Other(o)
           r == op[o]
           h == IF Refilling(p) THEN "shared" ELSE "own"
           g == IF Refilling(p) THEN "shared" ELSE op[p].hold
           u == [[r EXCEPT !.pc = "filling"] EXCEPT !.hold = h]
           v == [op[p] EXCEPT !.hold = g]
<1>1. /\ p \in Op /\ p # o /\ op \in [Op -> Calls] /\ op[p] \in Calls /\ r \in Calls
  BY OpFacts, TypesOK DEF TypeOK
<1>2. op'[o] = u /\ op'[p] = v
  BY <1>1 DEF FillBegins
<1>3. /\ u.pc = "filling" /\ u.kind = r.kind /\ u.copy = r.copy
      /\ u.version = r.version /\ u.doubt = r.doubt /\ u.hold = h
  BY <1>1 DEF Calls
<1>4. /\ v.pc = op[p].pc /\ v.kind = op[p].kind /\ v.copy = op[p].copy
      /\ v.version = op[p].version /\ v.doubt = op[p].doubt
  BY <1>1 DEF Calls
<1>5. u.hold = "own" \/ Busy(p)
  BY <1>3 DEF Refilling, Busy
<1>6. /\ r.pc = "fill" /\ doubt' = DoubtOf(o) /\ cache' = Torn
      /\ UNCHANGED <<Storage, meta, late>>
  BY DEF FillBegins
<1> HIDE DEF u, v, h, g
<1> QED
  BY <1>2, <1>3, <1>4, <1>5, <1>6, FillInv

(* The other way: the renamed copy is the file at once.                     *)
LEMMA RenameInInv ==
  ASSUME Types, Inv, RenameIn
  PROVE  Inv'
<1> DEFINE s == op["save"]
           l == op["load"]
           u == [s EXCEPT !.pc = "label"]
           v == [l EXCEPT !.hold = IF l.pc = "filling" THEN "lost" ELSE @]
<1>1. /\ s \in Calls /\ l \in Calls /\ "save" \in Op /\ Other("save") = "load"
      /\ "load" \in Op
  BY OpFacts, TypesOK DEF TypeOK
<1>2. /\ s.pc = "fill" /\ doubt' = DoubtOf("save") /\ cache' = s.copy
      /\ UNCHANGED <<Storage, meta, late>>
      /\ op' = [LoseHold EXCEPT !["save"].pc = "label"]
  BY DEF RenameIn
<1>3. op'["load"] = v
  BY <1>1, <1>2 DEF LoseHold
<1>4. op'["save"] = u
  <2>1. LoseHold["save"] = s
    BY <1>1, <1>2 DEF LoseHold, Calls
  <2> QED
    BY <1>1, <1>2, <2>1 DEF LoseHold
<1>5. /\ u.pc = "label" /\ u.kind = s.kind /\ u.copy = s.copy
      /\ u.version = s.version /\ u.doubt = s.doubt
  BY <1>1 DEF Calls
<1>6. /\ v.pc = l.pc /\ v.kind = l.kind /\ v.copy = l.copy
      /\ v.version = l.version /\ v.doubt = l.doubt
  BY <1>1 DEF Calls
<1> HIDE DEF u, v
<1> QED
  BY <1>1, <1>2, <1>3, <1>4, <1>5, <1>6, FillInv

(* The end of a refresh's copy.                                             *)
LEMMA FillEndsInv ==
  ASSUME Types, Inv, NEW o \in Op, FillEnds(o)
  PROVE  Inv'
<1> USE DEF None, Torn
<1> DEFINE p == Other(o)
           r == op[o]
           u == [r EXCEPT !.pc = "label"]
<1>1. /\ p \in Op /\ p # o /\ Op = {o, p} /\ Other(p) = o
      /\ (o = "load" /\ p = "save") \/ (o = "save" /\ p = "load")
      /\ op \in [Op -> Calls] /\ r \in Calls
      /\ OpInv(o, r) /\ OpInv(p, op[p]) /\ None \notin past /\ remote # None
  BY OpFacts, TypesOK, FileAssumption DEF TypeOK, Inv, Types, FileTypes, Files
<1>2. /\ r.pc = "filling" /\ UNCHANGED <<remote, stored, past, made, meta, late, doubt>>
      /\ op'[o] = u /\ op'[p] = op[p]
  BY <1>1 DEF FillEnds, Becomes, Storage
<1>3. /\ u.pc = "label" /\ u.kind = r.kind /\ u.copy = r.copy
      /\ u.version = r.version /\ u.doubt = r.doubt
  BY <1>1 DEF Calls
<1> HIDE DEF u
<1>4. Calm => cache' \in {r.copy, cache}
  <2>1. Calm => r.hold # "shared"
    BY <1>1, <1>2 DEF OpInv, Overlap
  <2>2. r.hold \in Holds
    BY <1>1 DEF Calls
  <2> QED
    BY <2>1, <2>2 DEF FillEnds, Holds
<1>5. /\ doubt = {} => Calm
      /\ Calm => ~Refreshing(op[p])
      /\ Active(op[p]) => ~Lone(op[p])
  BY <1>1, <1>2 DEF Calm, Inv, Apart, Refreshing
<1>6. Apart'
  <2>1. \A q \in Op : Active(op'[q]) /\ op'[Other(q)].pc # "idle" => ~Lone(op'[q])
    BY <1>1, <1>2, <1>3 DEF Inv, Apart, Active, Lone
  <2>2. Calm' => ~(Refreshing(op'["load"]) /\ Refreshing(op'["save"]))
    BY <1>1, <1>2, <1>5 DEF Calm
  <2> QED
    BY <2>1, <2>2 DEF Apart, Active, Lone, Refreshing, Calm
<1>7. /\ Calm /\ r.version \notin past \cup {None} => cache' \notin past
      /\ Calm /\ ~Behind => r.copy \notin past /\ cache' \notin past
      /\ doubt = {} => r.version = r.copy /\ Safe(r.version)
      /\ doubt = {} /\ r.version = remote =>
            /\ cache' \in {None, Torn, remote} \/ cache' \notin stored
            /\ \A f \in late \cap stored : f = remote
  BY <1>1, <1>2, <1>4, <1>5 DEF OpInv, Past, Exact, Ready, Refreshing, Whole, Inv, PastCache
<1>8. OpInv(o, op[o])'
  <2>1. Overlap(o, op[o])' /\ Upload(op[o])'
    BY <1>1, <1>2, <1>3 DEF OpInv, Overlap, Upload, Uploaded, Refreshing, Active, Lone, Calm,
       Behind
  <2>2. Past(o, op[o])'
    BY <1>1, <1>2, <1>3, <1>7 DEF OpInv, Past, Refreshing, Lone, Calm, Behind
  <2>3. Exact(op[o])'
    BY <1>1, <1>2, <1>3, <1>7 DEF OpInv, Exact, Ready, Refreshing, Whole, Safe
  <2> QED
    BY <2>1, <2>2 , <2>3 DEF OpInv
<1>9. OpInv(p, op[p])'
  <2>1. Overlap(p, op[p])' /\ Upload(op[p])'
    BY <1>1, <1>2 DEF OpInv, Overlap, Upload, Uploaded, Refreshing, Active, Lone, Calm,
       Behind
  <2>2. Past(p, op[p])'
    BY <1>1, <1>2, <1>5 DEF OpInv, Past, Refreshing, Lone, Calm, Behind, Active
  <2>3. Exact(op[p])'
    BY <1>1, <1>2, <1>5 DEF OpInv, Exact, Ready, Refreshing, Whole, Safe, Lone, Active
  <2> QED
    BY <2>1, <2>2 , <2>3 DEF OpInv
<1>10. PastCache'
  BY <1>2, <1>7 DEF Inv, PastCache, Calm, Behind
<1>11. ExactCache'
  BY <1>1, <1>2, <1>4, <1>5, <1>7 DEF Inv, ExactCache, Safe, Whole
<1> QED
  BY <1>1, <1>6, <1>8, <1>9, <1>10, <1>11, Assemble

(* The metadata follow.                                                     *)
LEMMA LabelInv ==
  ASSUME Types, Inv, NEW o \in Op, Label(o)
  PROVE  Inv'
<1> USE DEF None, Torn
<1> DEFINE p == Other(o)
           r == op[o]
           u == Refreshed(o)
<1>1. /\ p \in Op /\ p # o /\ Op = {o, p} /\ Other(p) = o
      /\ (o = "load" /\ p = "save") \/ (o = "save" /\ p = "load")
      /\ op \in [Op -> Calls]
      /\ OpInv(o, r) /\ OpInv(p, op[p]) /\ None \notin past /\ remote # None
  BY OpFacts, TypesOK, FileAssumption DEF TypeOK, Inv, Types, FileTypes, Files
<1>2. /\ r.pc = "label" /\ meta' \in {meta, r.version}
      /\ UNCHANGED <<remote, stored, past, made, cache, late, doubt>>
      /\ op'[o] = u /\ op'[p] = op[p] /\ Becomes(o, u)
  BY <1>1 DEF Label, Becomes, Storage
<1>3. /\ OpInv(o, u) /\ ~Refreshing(u) /\ Active(r) /\ r.pc # "idle"
      /\ Active(u) /\ Lone(u) => Lone(r)
  BY <1>2, RefreshedInv
<1>4. u.pc \in {"got", "write", "saved"}
  <2>1. r \in Calls /\ Idle \in Calls
    BY <1>1, IdleShape DEF CallShape
  <2> QED
    BY <1>1, <2>1 DEF Refreshed, Calls
<1> HIDE DEF u
<1>5. CASE meta' = meta
  BY <1>2, <1>3, <1>5, LocalInv DEF Local, Storage
<1>6. CASE meta' = r.version /\ meta' # meta
  <2>1. /\ doubt = {} => Calm
        /\ Calm => ~Refreshing(op[p])
        /\ Active(op[p]) => ~Lone(op[p])
    BY <1>1, <1>2 DEF Calm, Inv, Apart, Refreshing
  <2>2. Apart'
    <3>1. \A q \in Op : Active(op'[q]) /\ op'[Other(q)].pc # "idle" => ~Lone(op'[q])
      BY <1>1, <1>2, <1>3 DEF Inv, Apart
    <3>2. ~(Refreshing(op'["load"]) /\ Refreshing(op'["save"]))
      BY <1>1, <1>2, <1>3
    <3> QED
      BY <3>1, <3>2 DEF Apart, Active, Lone, Refreshing, Calm
  <2>3. OpInv(o, op[o])'
    BY <1>2, <1>3, <1>4 DEF OpInv, Overlap, Upload, Past, Exact, Ready, Uploaded, Refreshing,
       Active, Lone, Calm
  <2>4. OpInv(p, op[p])'
    <3>1. Overlap(p, op[p])' /\ Upload(op[p])'
      BY <1>1, <1>2, <2>1 DEF OpInv, Overlap, Upload, Uploaded, Refreshing, Active, Lone,
         Calm
    <3>2. Past(p, op[p])'
      BY <1>1, <1>2, <2>1 DEF OpInv, Past, Refreshing, Lone, Calm, Active
    <3>3. Exact(op[p])'
      BY <1>1, <1>2, <2>1 DEF OpInv, Exact, Ready, Refreshing, Whole, Lone, Active
    <3> QED
      BY <3>1, <3>2, <3>3 DEF OpInv
  <2>5. PastCache'
    <3>1. Calm /\ r.version \notin past \cup {None} =>
             late \cap past = {} /\ cache \notin past
      BY <1>1, <1>2 DEF OpInv, Past, Refreshing
    <3> QED
      BY <1>2, <1>6, <3>1 DEF PastCache, Calm, Behind
  <2>6. ExactCache'
    <3>1. doubt = {} /\ r.version = remote =>
             Whole(remote) /\ \A f \in late \cap stored : f = remote
      BY <1>1, <1>2 DEF OpInv, Exact, Refreshing
    <3> QED
      BY <1>2, <1>6, <3>1 DEF ExactCache, Safe, Whole
  <2> QED
    BY <1>1, <2>2, <2>3, <2>4, <2>5, <2>6, Assemble
<1> QED
  BY <1>2, <1>5, <1>6

(* A file built but not stored yet is none of those the invariant is about. *)
LEMMA BuildInv ==
  ASSUME Types, Inv, Build
  PROVE  Inv'
<1> USE DEF None, Torn
<1> DEFINE s == op["save"]
           l == op["load"]
<1>1. /\ "save" \in Op /\ "load" \in Op /\ Other("save") = "load" /\ Other("load") = "save"
      /\ op \in [Op -> Calls] /\ s \in Calls /\ s.pc = "write"
      /\ OpInv("save", s) /\ OpInv("load", l)
      /\ past \subseteq stored /\ stored \subseteq 2..made /\ made \in Nat
  BY OpFacts, TypesOK, FileAssumption DEF Build, TypeOK, Inv, Types, FileTypes, Files
<1>2. PICK k \in {"stream", "buffer"} :
        /\ Becomes("save", [s EXCEPT !.pc = "put", !.kind = k, !.copy = made + 1])
        /\ late' \in {late, late \cup {made + 1}}
  BY DEF Build
<1> DEFINE u == [s EXCEPT !.pc = "put", !.kind = k, !.copy = made + 1]
<1>3. u.pc = "put" /\ u.doubt = s.doubt
  BY <1>1 DEF Calls
<1>4. op'["save"] = u /\ op'["load"] = l
  BY <1>1, <1>2 DEF Becomes
<1> HIDE DEF u
<1>5. /\ UNCHANGED <<remote, stored, past, cache, meta, doubt>>
      /\ late' \cap stored = late \cap stored /\ late' \cap past = late \cap past
  BY <1>1, <1>2 DEF Build
<1>6. Active(l) => ~Lone(l)
  BY <1>1 DEF Inv, Apart
<1>7. Apart'
  <2>1. \A q \in Op : Active(op'[q]) /\ op'[Other(q)].pc # "idle" => ~Lone(op'[q])
    BY <1>1, <1>3, <1>4, OpFacts DEF Inv, Apart, Active, Lone
  <2>2. ~Refreshing(op'["save"])
    BY <1>3, <1>4 DEF Refreshing
  <2> QED
    BY <2>1, <2>2 DEF Apart, Active, Lone, Refreshing, Calm
<1>8. OpInv("save", s)' /\ OpInv("load", l)'
  <2>1. OpInv("save", op["save"])'
    <3>1. Overlap("save", op["save"])'
      BY <1>1, <1>3, <1>4, <1>5 DEF OpInv, Overlap, Uploaded, Active, Lone, Calm
    <3>2. Upload(op["save"])' /\ Past("save", op["save"])' /\ Exact(op["save"])'
      BY <1>3, <1>4 DEF Upload, Past, Exact, Ready, Uploaded, Refreshing
    <3> QED
      BY <3>1, <3>2 DEF OpInv
  <2>2. OpInv("load", op["load"])'
    <3>1. Overlap("load", op["load"])' /\ Upload(op["load"])'
      BY <1>1, <1>4, <1>5, <1>6 DEF OpInv, Overlap, Upload, Uploaded, Active, Lone, Calm,
         Refreshing, Behind
    <3>2. Past("load", op["load"])'
      BY <1>1, <1>4, <1>5 DEF OpInv, Past, Refreshing, Lone, Calm, Behind
    <3>3. Exact(op["load"])'
      BY <1>1, <1>4, <1>5 DEF OpInv, Exact, Ready, Refreshing, Safe, Whole
    <3> QED
      BY <3>1, <3>2, <3>3 DEF OpInv
  <2> QED
    BY <2>1, <2>2
<1>9. PastCache' /\ ExactCache'
  BY <1>5 DEF Inv, PastCache, ExactCache, Calm, Behind, Safe, Whole
<1> QED
  BY <1>1, <1>7, <1>8, <1>9, Assemble

(* An upload makes everything stored so far the past: the metadata, and     *)
(* whatever version an operation holds, are behind it.                      *)
LEMMA UploadInv ==
  ASSUME Types, Inv, Put \/ PutUnanswered
  PROVE  Inv'
<1> USE DEF None, Torn
<1> DEFINE s == op["save"]
           l == op["load"]
           f == s.copy
<1>1. /\ "save" \in Op /\ "load" \in Op /\ Other("save") = "load" /\ Other("load") = "save"
      /\ op \in [Op -> Calls] /\ s \in Calls /\ s.pc = "put"
      /\ OpInv("save", s) /\ OpInv("load", l)
      /\ OpShape("save", s, stored, past, made)
      /\ l.version \in {None} \cup stored
      /\ meta \in {None} \cup stored
  BY OpFacts, TypesOK DEF Put, PutUnanswered, TypeOK, Inv, Types, CacheTypes, OpTypes,
     OpShape, CallShape
<1>2. /\ f \notin stored /\ f \in 2..made /\ s.kind # "download"
  BY <1>1 DEF OpShape, SaveShape, CallShape
<1>3. /\ remote' = f /\ stored' = stored \cup {f} /\ past' = stored
      /\ UNCHANGED <<cache, meta, late, doubt>>
  BY DEF Put, PutUnanswered, Uploads, Local
<1>4. PICK u : /\ Becomes("save", u)
               /\ \/ u.pc = "idle"
                  \/ /\ u.pc = "info" /\ u.kind = s.kind /\ u.copy = f /\ u.doubt = s.doubt
                  \/ /\ u.pc = "fill" /\ u.kind = s.kind /\ u.copy = f /\ u.doubt = s.doubt
                     /\ u.version = f
  <2>1. CASE PutUnanswered
    BY <2>1 DEF PutUnanswered, Ends, Idle
  <2>2. CASE Put /\ s.kind = "stream" /\ InfoFromResponse
    <3> DEFINE q == [s EXCEPT !.pc = "fill", !.version = f]
    <3>1. /\ q.pc = "fill" /\ q.kind = s.kind /\ q.copy = f /\ q.doubt = s.doubt
          /\ q.version = f
      BY <1>1 DEF Calls
    <3> QED
      BY <2>2, <3>1 DEF Put
  <2>3. CASE Put /\ ~(s.kind = "stream" /\ InfoFromResponse)
    <3> DEFINE q == [s EXCEPT !.pc = "info", !.version = None]
    <3>1. q.pc = "info" /\ q.kind = s.kind /\ q.copy = f /\ q.doubt = s.doubt
      BY <1>1 DEF Calls
    <3> QED
      BY <2>3, <3>1 DEF Put
  <2> QED
    BY <2>1, <2>2, <2>3
<1>5. op'["save"] = u /\ op'["load"] = l
  BY <1>1, <1>4 DEF Becomes
<1>6. Behind' /\ meta' # remote'
  BY <1>1, <1>2, <1>3 DEF Behind
<1>7. Active(l) => ~Lone(l)
  BY <1>1 DEF Inv, Apart
<1>8. Lone(s) => late \cap stored = {}
  BY <1>1 DEF OpInv, Overlap, Active, Uploaded
<1>9. Apart'
  <2>1. \A q \in Op : Active(op'[q]) /\ op'[Other(q)].pc # "idle" => ~Lone(op'[q])
    BY <1>1, <1>4, <1>5, OpFacts DEF Inv, Apart, Active, Lone
  <2>2. ~Refreshing(op'["save"])
    BY <1>4, <1>5 DEF Refreshing
  <2> QED
    BY <2>1, <2>2 DEF Apart, Active, Lone, Refreshing, Calm
<1>10. OpInv("save", op["save"])'
  <2>1. Overlap("save", op["save"])'
    BY <1>2, <1>3, <1>4, <1>5, <1>8 DEF Overlap, Uploaded, Active, Lone, Calm
  <2>2. Upload(op["save"])'
    BY <1>6 DEF Upload
  <2>3. Past("save", op["save"])'
    BY <1>2, <1>3, <1>4, <1>5 DEF Past, Refreshing
  <2>4. Exact(op["save"])'
    BY <1>4, <1>5, <1>6 DEF Exact, Ready, Refreshing, Safe
  <2> QED
    BY <2>1, <2>2, <2>3, <2>4 DEF OpInv
<1>11. OpInv("load", op["load"])'
  <2>1. Overlap("load", op["load"])'
    BY <1>1, <1>3, <1>5 DEF OpInv, Overlap, Active, Lone, Calm
  <2>2. Upload(op["load"])'
    BY <1>6 DEF Upload
  <2>3. Past("load", op["load"])'
    BY <1>1, <1>3, <1>5, <1>6, <1>7 DEF Past, Refreshing, Active, Lone
  <2>4. Exact(op["load"])'
    BY <1>1, <1>2, <1>3, <1>5, <1>6, <1>7 DEF OpInv, Exact, Ready, Refreshing, Safe, Active,
       Lone
  <2> QED
    BY <2>1, <2>2, <2>3, <2>4 DEF OpInv
<1>12. PastCache' /\ ExactCache'
  BY <1>6 DEF PastCache, ExactCache, Safe
<1> QED
  BY <1>1, <1>9, <1>10, <1>11, <1>12, Assemble

(* When the operations keep all but their holds, the invariant depends on   *)
(* what happens to the cache.                                               *)
LEMMA SameOps ==
  ASSUME Types, op' \in {op, LoseHold}, NEW o \in Op
  PROVE  /\ op'[o].pc = op[o].pc /\ op'[o].kind = op[o].kind
         /\ op'[o].version = op[o].version /\ op'[o].copy = op[o].copy
         /\ op'[o].doubt = op[o].doubt
         /\ op'[o].hold \in {op[o].hold, "lost"}
<1>1. op \in [Op -> Calls] /\ op[o] \in Calls
  BY TypesOK DEF TypeOK
<1>2. CASE op' = op
  BY <1>2
<1>3. CASE op' = LoseHold
  <2> DEFINE v == [op[o] EXCEPT !.hold = IF op[o].pc = "filling" THEN "lost" ELSE @]
  <2>1. op'[o] = v
    BY <1>3 DEF LoseHold
  <2>2. /\ v.pc = op[o].pc /\ v.kind = op[o].kind
        /\ v.version = op[o].version /\ v.copy = op[o].copy
        /\ v.doubt = op[o].doubt
        /\ v.hold \in {op[o].hold, "lost"}
    BY <1>1 DEF Calls
  <2> QED
    BY <2>1, <2>2
<1> QED
  BY <1>2, <1>3

(* The un-awaited copy of write(), and the deletion of the copy.            *)
LEMMA LateInv ==
  ASSUME Types, Inv, LateWrite \/ DeleteCopy
  PROVE  Inv'
<1> USE DEF None, Torn
<1>1. /\ UNCHANGED <<remote, stored, past, made, meta, doubt>>
      /\ op' \in {op, LoseHold} /\ late' \subseteq late
      /\ \/ cache' = cache
         \/ cache' = None
         \/ cache' \in late /\ late' = late \ {cache'}
  BY DEF LateWrite, DeleteCopy, Storage
<1>2. /\ None \notin past /\ remote # None /\ past \subseteq stored
      /\ \A o \in Op : OpInv(o, op[o])
  BY FileAssumption DEF Types, FileTypes, Files, Inv
<1>3. Apart'
  BY <1>1, OpFacts, SameOps DEF Inv, Apart, Active, Lone, Refreshing, Calm
<1>4. ASSUME NEW o \in Op PROVE OpInv(o, op[o])'
  <2> DEFINE r == op[o]
  <2>1. /\ op'[o].pc = r.pc /\ op'[o].kind = r.kind /\ op'[o].version = r.version
        /\ op'[o].copy = r.copy /\ op'[o].doubt = r.doubt
        /\ op'[o].hold \in {r.hold, "lost"} /\ OpInv(o, r)
        /\ o = "load" \/ o = "save"
    BY <1>1, <1>2, SameOps, OpFacts
  <2>0. r.pc \in {"match", "copy"} => o = "load"
    BY <2>1 DEF Types, OpTypes, OpShape, SaveShape, SaveSteps
  <2>2. Overlap(o, op[o])' /\ Upload(op[o])'
    BY <1>1, <2>1 DEF OpInv, Overlap, Upload, Uploaded, Active, Lone, Refreshing, Calm, Behind
  <2>3. Past(o, op[o])'
    BY <1>1, <1>2, <2>0, <2>1 DEF OpInv, Overlap, Past, Active, Lone, Refreshing, Calm, Behind
  <2>4. Exact(op[o])'
    BY <1>1, <1>2, <2>0, <2>1 DEF OpInv, Overlap, Exact, Ready, Active, Lone, Refreshing,
       Safe, Whole
  <2> QED
    BY <2>2, <2>3, <2>4 DEF OpInv
<1>5. PastCache'
  BY <1>1, <1>2 DEF Inv, PastCache, Calm, Behind
<1>6. ExactCache'
  BY <1>1, <1>2 DEF Inv, ExactCache, Safe, Whole
<1> QED
  BY <1>3, <1>4, <1>5, <1>6 DEF Inv

(* Metadata that are deleted make nothing hit.                              *)
LEMMA DeleteMetaInv ==
  ASSUME Types, Inv, DeleteMeta
  PROVE  Inv'
<1> USE DEF None, Torn
<1>1. /\ UNCHANGED <<remote, stored, past, made, cache, late, doubt, op>> /\ meta' = None
  BY DEF DeleteMeta, Storage
<1>2. Apart' /\ remote # None
  BY <1>1, FileAssumption DEF Inv, Apart, Active, Lone, Refreshing, Calm, Types, FileTypes, Files
<1>3. ASSUME NEW o \in Op PROVE OpInv(o, op[o])'
  <2>1. OpInv(o, op[o])
    BY DEF Inv
  <2>2. Overlap(o, op[o])' /\ Upload(op[o])' /\ Past(o, op[o])'
    BY <1>1, <2>1 DEF OpInv, Overlap, Upload, Past, Uploaded, Active, Lone, Refreshing,
       Calm, Behind
  <2>3. Exact(op[o])'
    BY <1>1, <2>1 DEF OpInv, Exact, Ready, Refreshing, Safe, Whole
  <2> QED
    BY <2>2, <2>3 DEF OpInv
<1>4. PastCache' /\ ExactCache'
  BY <1>1, <1>2 DEF PastCache, ExactCache, Behind, Safe
<1> QED
  BY <1>2, <1>3, <1>4 DEF Inv

(* A file of another device is none that this device knows.                 *)
LEMMA OtherWritesInv ==
  ASSUME Types, Inv, OtherWrites
  PROVE  Inv'
<1> USE DEF None, Torn
<1> DEFINE f == made + 1
<1>1. /\ UNCHANGED <<past, cache, meta, late, doubt, op>>
      /\ remote' = f /\ stored' = stored \cup {f}
  BY DEF OtherWrites, Local
<1>2. /\ made \in Nat /\ made >= 2 /\ f # cache /\ f # meta /\ f \notin late
  BY FileAssumption DEF Types, CacheTypes, FileTypes, Files
<1>3. \A o \in Op : f # op[o].version /\ f # op[o].copy
  BY <1>2 DEF Types, OpTypes, OpShape, CallShape, FileTypes
<1>4. Apart'
  BY <1>1 DEF Inv, Apart, Active, Lone, Refreshing, Calm
<1>5. ASSUME NEW o \in Op PROVE OpInv(o, op[o])'
  <2>1. OpInv(o, op[o])
    BY DEF Inv
  <2>2. Overlap(o, op[o])' /\ Upload(op[o])' /\ Past(o, op[o])'
    BY <1>1, <1>2, <2>1 DEF OpInv, Overlap, Upload, Past, Uploaded, Active, Lone, Refreshing,
       Calm, Behind
  <2>3. Exact(op[o])'
    BY <1>1, <1>2, <1>3, <2>1 DEF OpInv, Exact, Ready, Refreshing, Safe, Whole
  <2> QED
    BY <2>2, <2>3 DEF OpInv
<1>6. PastCache' /\ ExactCache'
  BY <1>1, <1>2 DEF Inv, PastCache, ExactCache, Calm, Behind, Safe, Whole
<1> QED
  BY <1>4, <1>5, <1>6 DEF Inv

(* A crash ends everything but the files.                                   *)
LEMMA CrashInv ==
  ASSUME Types, Inv, Crash
  PROVE  Inv'
<1>1. /\ UNCHANGED <<remote, stored, past, made, cache, meta, doubt>>
      /\ late' = {} /\ \A o \in Op : op'[o] = Idle
  BY DEF Crash, Storage
<1>2. \A o \in Op : OpInv(o, op[o])'
  BY <1>1 DEF OpInv, Overlap, Upload, Past, Exact, Ready, Active, Refreshing, Uploaded, Idle
<1>3. Apart'
  BY <1>1, OpFacts DEF Apart, Active, Refreshing, Idle
<1>4. PastCache' /\ ExactCache'
  BY <1>1 DEF Inv, PastCache, ExactCache, Calm, Behind, Safe, Whole
<1> QED
  BY <1>2, <1>3, <1>4 DEF Inv

(* Every step keeps the invariant.                                          *)
LEMMA InvStep == Types /\ Inv /\ [Next]_vars => Inv'
<1> SUFFICES ASSUME Types, Inv, [Next]_vars PROVE Inv'
  OBVIOUS
<1>1. CASE UNCHANGED vars
  <2>1. UNCHANGED <<remote, stored, past, made, cache, meta, late, op, doubt>>
    BY <1>1 DEF vars
  <2>2. Apart' /\ PastCache' /\ ExactCache'
    BY <2>1 DEF Inv, Apart, PastCache, ExactCache, Active, Lone, Refreshing, Calm, Behind,
       Safe, Whole
  <2>3. ASSUME NEW o \in Op PROVE OpInv(o, op[o])'
    <3>1. OpInv(o, op[o])
      BY DEF Inv
    <3> QED
      BY <2>1, <3>1 DEF OpInv, Overlap, Upload, Past, Exact, Ready, Active, Lone, Calm,
         Refreshing, Uploaded, Behind, Safe, Whole
  <2> QED
    BY <2>2, <2>3 DEF Inv
<1>2. CASE LoadStep
  BY <1>2, LoadInv, StartInv DEF LoadStep
<1>3. CASE SaveStep
  BY <1>3, SaveInv, StartInv, BuildInv, UploadInv, RenameInInv DEF SaveStep
<1>4. CASE \E o \in Op : Step(o)
  BY <1>4, ReadInv, FillBeginsInv, FillEndsInv, LabelInv DEF Step
<1>5. CASE LateWrite \/ DeleteCopy \/ DeleteMeta \/ OtherWrites \/ Crash
  BY <1>5, LateInv, DeleteMetaInv, OtherWritesInv, CrashInv
<1> QED
  BY <1>1, <1>2, <1>3, <1>4, <1>5 DEF Next

(* The inductive invariant of loads and saves around the cache.             *)
THEOREM Invariance == Spec => [](Types /\ Inv)
  BY InitTypes, TypesStep, InitInv, InvStep, PTL DEF Spec

(* readCacheToFile() delivers the file its version names, a visibly damaged *)
(* or never stored one, or one of the two histories HitIsExact names.       *)
THEOREM HitsAreExact == Spec => []HitIsExact
<1>1. Types /\ Inv => HitIsExact
  <2> SUFFICES ASSUME Types, Inv PROVE HitIsExact
    OBVIOUS
  <2>1. Exact(op["load"])
    BY OpFacts DEF Inv, OpInv
  <2> QED
    BY <2>1 DEF HitIsExact, Exact
<1> QED
  BY <1>1, Invariance, PTL

(* A load that answers for the remote (loadKdbxFileToFile) is never older   *)
(* than this device's last upload, unless refreshes of the cache overlapped.*)
THEOREM OwnWritesAreRead == Spec => []ReadYourWrites
<1>1. Types /\ Inv => ReadYourWrites
  <2> SUFFICES ASSUME Types, Inv PROVE ReadYourWrites
    OBVIOUS
  <2>1. Past("load", op["load"])
    BY OpFacts DEF Inv, OpInv
  <2> QED
    BY <2>1 DEF ReadYourWrites, Past, Lone
<1> QED
  BY <1>1, Invariance, PTL

=============================================================================
