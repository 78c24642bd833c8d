------------------------ MODULE FtpTransfers_proofs -------------------------
(***************************************************************************)
(* What the transfers of the FTP storage come to: a read that is reported  *)
(* as done has added the whole file of the server to the local one, an     *)
(* upload that is reported as done was confirmed, and a file that is there *)
(* is not reported as missing unless a fault hit a transfer; for every     *)
(* kind of operation and of fault, and whatever the bounds are.            *)
(*                                                                         *)
(* The intervals of downloads that failed go on and take chunks of later   *)
(* ones, old answers come to new tasks, and two data connections may be    *)
(* mistaken for each other.  The argument is one of conservation: the      *)
(* chunks in the local file, in the cache, on the connection and still to  *)
(* be sent never outnumber those of the file, and when they are as many,   *)
(* they are the file.  What is lost or taken only makes them fewer.        *)
(*                                                                         *)
(* Nor does the client look which answer belongs to which command.  For    *)
(* uploads the argument is one of order: either the upload is in step with *)
(* the server, so that a confirmation under way is its own, or an older    *)
(* answer is a refusal and comes to it before it has sent its data.        *)
(*                                                                         *)
(* For listings it is one of form: as long as no fault hits a transfer,    *)
(* the connection is between two commands, or a request is under way, or a *)
(* transfer with its own poller or loop and its own answers to come; and   *)
(* the poller of a listing does not wait in vain while a chunk is to come. *)
(***************************************************************************)
EXTENDS FtpStorage_proofs

(* A transfer follows the step that opens its data connection; SIZE comes   *)
(* before RETR, and there is one RETR at most.                              *)
Opening(p) == \A i \in 2 .. Len(p) : p[i] \in Transfers => p[i - 1] \in {"EPSV", "PASV"}
SizeFirst(p) ==
  \A i \in 1 .. Len(p) : p[i] = "SIZE" => \E j \in i + 1 .. Len(p) : p[j] = "RETR"
OneRead(p) == \A i, j \in 1 .. Len(p) : p[i] = "RETR" /\ p[j] = "RETR" => i = j
Planned(p) == Opening(p) /\ SizeFirst(p) /\ OneRead(p)
HasRead(p) == \E i \in 1 .. Len(p) : p[i] = "RETR"

(* The task that is waited for is that of the step.                         *)
Fits == awaited # 0 /\ task # NoTask /\ awaited = task.id =>
  task.cmd = Step \/ (Step = "EPSV" /\ task.cmd = "PASV")

(* An answer that opens a data connection; such answers, in the order in    *)
(* which they were given, and later than n.                                 *)
Opens(r) == r.cmd \in {"EPSV", "PASV"} /\ r.code # "err"
Rising(w) ==
  \A j, k \in 1 .. Len(w) : j < k /\ Opens(w[j]) /\ Opens(w[k]) => w[j].id < w[k].id
Newer(w, n) == \A k \in 1 .. Len(w) : Opens(w[k]) => w[k].id > n

(* Tasks are numbered as they come.                                         *)
Numbered(w, n) == \A k \in 1 .. Len(w) : w[k].id <= n
Bounded ==
  /\ \A p \in pollers : p.id <= handles
  /\ \A l \in loops : l.id <= handles
  /\ xfer.id <= handles /\ xfer.socket <= handles /\ data <= handles
  /\ Numbered(wire, handles)

(* What belongs to the task that is waited for belongs to a transfer.       *)
Owned == awaited # 0 =>
  /\ \A p \in pollers : p.id = awaited => Step \in {"RETR", "LIST"}
  /\ \A l \in loops : l.id = awaited => Step = "STOR"
  /\ xfer.id = awaited => Step \in Transfers

(* A connection that will be opened is none that was.                       *)
Fresh == Rising(wire) /\ Newer(wire, data) /\ Newer(wire, xfer.socket)

(* What the server still sends for another task has no connection.          *)
Foreign == xfer.todo # <<>> =>
  xfer.id # 0 /\ xfer.socket # 0 /\ (xfer.id # awaited => xfer.socket # data)

(* A new data connection starts empty.                                      *)
Ready == Step \in Transfers /\ awaited = 0 => cache = <<>> /\ pipe = <<>>

(* The local file has got the file of the server, if that did not grow.     *)
Good(o) == o.local = o.before \o o.want \/ Len(o.want) > o.size

(* What the server has still to send for the task that is waited for, and   *)
(* all that is on the way.                                                  *)
Todo == IF xfer.id = awaited THEN xfer.todo ELSE <<>>
Rest == cache \o pipe \o Todo

(* s is not longer than t, and is t when it is as long.                     *)
Within(s, t) == Len(s) <= Len(t) /\ (Len(s) = Len(t) => s = t)

(* A download under way.                                                    *)
Stream(o) ==
  /\ Len(o.local) >= Len(o.before)
  /\ Within(o.local \o Rest, o.before \o o.want)
  /\ \A p \in pollers : p.id = awaited =>
       p.size = o.size /\ p.got <= Len(o.local) - Len(o.before)
  /\ client.state = "open" /\ resolver.done => Good(o)

Reading == Step = "RETR" /\ awaited # 0

(* What a read has come to: nothing yet, the download, or the file.         *)
Progress == cur # 0 =>
  /\ HasRead(plan) /\ ~Reading => ops[cur].local = ops[cur].before /\ ops[cur].want = <<>>
  /\ Reading => Stream(ops[cur])
  /\ ~HasRead(plan) /\ ops[cur].kind \in {"read", "load"} => Good(ops[cur])

Order == Bounded /\ Fresh /\ Foreign
ReadInv == Planned(plan) /\ Fits /\ Order /\ Owned /\ Ready /\ Progress /\ ReadComplete

-----------------------------------------------------------------------------
(* Plans.                                                                   *)

(* The rest of a plan.                                                      *)
LEMMA PlannedTail ==
  ASSUME NEW p \in Seq(Steps), p # <<>>, Planned(p)
  PROVE  /\ Planned(Tail(p))
         /\ HasRead(p) <=> p[1] = "RETR" \/ HasRead(Tail(p))
         /\ p[1] = "RETR" => ~HasRead(Tail(p))
         /\ p[1] = "SIZE" => HasRead(Tail(p))
         /\ Tail(p) # <<>> /\ Tail(p)[1] \in Transfers => p[1] \in {"EPSV", "PASV"}
  <1> DEFINE t == Tail(p)
  <1>1. /\ t \in Seq(Steps) /\ Len(p) \in Nat \ {0} /\ Len(t) = Len(p) - 1
        /\ \A i \in 1 .. Len(t) : t[i] = p[i + 1] /\ i + 1 \in 2 .. Len(p)
        /\ \A i \in 2 .. Len(p) : p[i] = t[i - 1] /\ i - 1 \in 1 .. Len(t)
    OBVIOUS
  <1> HIDE DEF t
  <1>2. Opening(t)
    <2> SUFFICES ASSUME NEW i \in 2 .. Len(t), t[i] \in Transfers PROVE t[i - 1] \in {"EPSV", "PASV"}
      BY DEF Opening
    <2>1. t[i] = p[i + 1] /\ t[i - 1] = p[i] /\ i + 1 \in 2 .. Len(p) /\ (i + 1) - 1 = i
      BY <1>1
    <2> QED BY <2>1 DEF Planned, Opening
  <1>3. SizeFirst(t)
    <2> SUFFICES ASSUME NEW i \in 1 .. Len(t), t[i] = "SIZE"
                 PROVE  \E j \in i + 1 .. Len(t) : t[j] = "RETR"
      BY DEF SizeFirst
    <2>1. PICK j \in (i + 1) + 1 .. Len(p) : p[j] = "RETR"
      BY <1>1 DEF Planned, SizeFirst
    <2>2. j - 1 \in i + 1 .. Len(t) /\ t[j - 1] = "RETR"
      BY <1>1, <2>1
    <2> QED BY <2>2
  <1>4. OneRead(t)
    <2> SUFFICES ASSUME NEW i \in 1 .. Len(t), NEW j \in 1 .. Len(t), t[i] = "RETR", t[j] = "RETR"
                 PROVE  i = j
      BY DEF OneRead
    <2>1. i + 1 \in 1 .. Len(p) /\ j + 1 \in 1 .. Len(p) /\ p[i + 1] = "RETR" /\ p[j + 1] = "RETR"
      BY <1>1
    <2>2. i + 1 = j + 1
      BY <2>1 DEF Planned, OneRead
    <2> QED BY <2>2
  <1>5. HasRead(p) <=> p[1] = "RETR" \/ HasRead(t)
    <2>1. ASSUME HasRead(t) PROVE HasRead(p)
      <3>1. PICK i \in 1 .. Len(t) : t[i] = "RETR"
        BY <2>1 DEF HasRead
      <3>2. i + 1 \in 1 .. Len(p) /\ p[i + 1] = "RETR"
        BY <1>1, <3>1
      <3> QED BY <3>2 DEF HasRead
    <2>2. ASSUME HasRead(p), p[1] # "RETR" PROVE HasRead(t)
      <3>1. PICK i \in 1 .. Len(p) : p[i] = "RETR"
        BY <2>2 DEF HasRead
      <3>2. i - 1 \in 1 .. Len(t) /\ t[i - 1] = "RETR"
        BY <1>1, <2>2, <3>1
      <3> QED BY <3>2 DEF HasRead
    <2>3. p[1] = "RETR" => HasRead(p)
      BY <1>1 DEF HasRead
    <2> QED BY <2>1, <2>2, <2>3
  <1>6. ASSUME p[1] = "RETR", HasRead(t) PROVE FALSE
    <2>1. PICK i \in 1 .. Len(t) : t[i] = "RETR"
      BY <1>6 DEF HasRead
    <2>2. 1 \in 1 .. Len(p) /\ i + 1 \in 1 .. Len(p) /\ p[i + 1] = "RETR" /\ i + 1 # 1
      BY <1>1, <2>1
    <2> QED BY <1>6, <2>2 DEF Planned, OneRead
  <1>7. ASSUME p[1] = "SIZE" PROVE HasRead(t)
    <2>1. PICK j \in 1 + 1 .. Len(p) : p[j] = "RETR"
      BY <1>1, <1>7 DEF Planned, SizeFirst
    <2>2. j - 1 \in 1 .. Len(t) /\ t[j - 1] = "RETR"
      BY <1>1, <2>1
    <2> QED BY <2>2 DEF HasRead
  <1>8. ASSUME t # <<>>, t[1] \in Transfers PROVE p[1] \in {"EPSV", "PASV"}
    <2>1. Len(t) # 0
      BY <1>1, <1>8, EmptySeq
    <2>2. 2 \in 2 .. Len(p) /\ p[2] = t[1] /\ 2 - 1 = 1
      BY <1>1, <2>1
    <2> QED BY <1>8, <2>2 DEF Planned, Opening
  <1> QED BY <1>2, <1>3, <1>4, <1>5, <1>6, <1>7, <1>8 DEF t, Planned

(* Steps before a plan.                                                     *)
LEMMA PlannedBoth ==
  ASSUME NEW s \in Seq(Steps), NEW t \in Seq(Steps), s # <<>>, t # <<>>, Planned(s), Planned(t),
         ~HasRead(s) \/ ~HasRead(t),
         t[1] \in Transfers => s[Len(s)] \in {"EPSV", "PASV"}
  PROVE  Planned(s \o t) /\ (HasRead(s \o t) <=> HasRead(s) \/ HasRead(t))
  <1> DEFINE p == s \o t
             m == Len(s)
  <1>1. /\ p \in Seq(Steps) /\ m \in Nat \ {0} /\ Len(t) \in Nat \ {0} /\ Len(p) = m + Len(t)
        /\ \A i \in 1 .. m : p[i] = s[i] /\ i \in 1 .. Len(p)
        /\ \A i \in 1 .. Len(t) : p[m + i] = t[i] /\ m + i \in 1 .. Len(p)
    OBVIOUS
  <1>2. \A i \in 1 .. Len(p) : i \in 1 .. m \/ (i - m \in 1 .. Len(t) /\ p[i] = t[i - m])
    BY <1>1
  <1>3. m = Len(s)
    OBVIOUS
  <1> HIDE DEF p, m
  <1>4. HasRead(p) <=> HasRead(s) \/ HasRead(t)
    <2>1. HasRead(s) => HasRead(p)
      BY <1>1, <1>3 DEF HasRead
    <2>2. HasRead(t) => HasRead(p)
      BY <1>1 DEF HasRead
    <2>3. HasRead(p) => HasRead(s) \/ HasRead(t)
      BY <1>1, <1>2, <1>3 DEF HasRead
    <2> QED BY <2>1, <2>2, <2>3
  <1>5. Opening(p)
    <2> SUFFICES ASSUME NEW i \in 2 .. Len(p), p[i] \in Transfers PROVE p[i - 1] \in {"EPSV", "PASV"}
      BY DEF Opening
    <2>1. CASE i \in 2 .. m
      <3>1. p[i] = s[i] /\ p[i - 1] = s[i - 1]
        BY <1>1, <2>1
      <3> QED BY <1>3, <2>1, <3>1 DEF Planned, Opening
    <2>2. CASE i = m + 1
      <3>1. p[i] = t[1] /\ p[i - 1] = s[m]
        BY <1>1, <2>2
      <3> QED BY <1>3, <3>1
    <2>3. CASE i \in m + 2 .. Len(p)
      <3>1. i - m \in 2 .. Len(t) /\ p[i] = t[i - m] /\ p[i - 1] = t[(i - m) - 1]
        BY <1>1, <1>2, <2>3
      <3> QED BY <3>1 DEF Planned, Opening
    <2> QED BY <1>1, <2>1, <2>2, <2>3
  <1>6. SizeFirst(p)
    <2> SUFFICES ASSUME NEW i \in 1 .. Len(p), p[i] = "SIZE"
                 PROVE  \E j \in i + 1 .. Len(p) : p[j] = "RETR"
      BY DEF SizeFirst
    <2>1. CASE i \in 1 .. m
      <3>1. PICK j \in i + 1 .. m : s[j] = "RETR"
        BY <1>1, <1>3, <2>1 DEF Planned, SizeFirst
      <3>2. j \in i + 1 .. Len(p) /\ p[j] = "RETR"
        BY <1>1, <2>1, <3>1
      <3> QED BY <3>2
    <2>2. CASE i - m \in 1 .. Len(t) /\ p[i] = t[i - m]
      <3>1. PICK j \in (i - m) + 1 .. Len(t) : t[j] = "RETR"
        BY <2>2 DEF Planned, SizeFirst
      <3>2. m + j \in i + 1 .. Len(p) /\ p[m + j] = "RETR"
        BY <1>1, <2>2, <3>1
      <3> QED BY <3>2
    <2> QED BY <1>2, <2>1, <2>2
  <1>7. OneRead(p)
    <2> SUFFICES ASSUME NEW i \in 1 .. Len(p), NEW j \in 1 .. Len(p), p[i] = "RETR", p[j] = "RETR"
                 PROVE  i = j
      BY DEF OneRead
    <2>1. CASE i \in 1 .. m /\ j \in 1 .. m
      BY <1>1, <1>3, <2>1 DEF Planned, OneRead
    <2>2. CASE i - m \in 1 .. Len(t) /\ p[i] = t[i - m] /\ j - m \in 1 .. Len(t) /\ p[j] = t[j - m]
      <3>1. i - m = j - m
        BY <2>2 DEF Planned, OneRead
      <3> QED BY <1>1, <3>1
    <2>3. CASE i \in 1 .. m /\ j - m \in 1 .. Len(t) /\ p[j] = t[j - m]
      BY <1>1, <1>3, <2>3 DEF HasRead
    <2>4. CASE j \in 1 .. m /\ i - m \in 1 .. Len(t) /\ p[i] = t[i - m]
      BY <1>1, <1>3, <2>4 DEF HasRead
    <2> QED BY <1>2, <2>1, <2>2, <2>3, <2>4
  <1> QED BY <1>4, <1>5, <1>6, <1>7 DEF p, Planned

(* Two sequences of steps.                                                  *)
LEMMA Joined ==
  ASSUME NEW s \in Seq(Steps), NEW t \in Seq(Steps), s # <<>>
  PROVE  s \o t \in Seq(Steps) /\ s \o t # <<>> /\ (s \o t)[1] = s[1]
  <1>1. /\ Len(s) \in Nat \ {0} /\ Len(t) \in Nat /\ Len(s \o t) = Len(s) + Len(t)
        /\ s \o t \in Seq(Steps)
    OBVIOUS
  <1>2. (s \o t)[1] = s[1]
    BY <1>1
  <1> QED BY <1>1, <1>2, EmptySeq

(* The plans of the operations, and the login.                              *)
LEMMA PlanPlanned ==
  ASSUME NEW kind \in Kinds
  PROVE  /\ Planned(Plan(kind)) /\ Plan(kind)[1] \notin Transfers
         /\ kind \in {"read", "load"} => HasRead(Plan(kind))
  <1> DEFINE e == <<"ENSURE">>
  <1>1. {"ENSURE", "SIZE", "EPSV", "RETR", "LIST", "STOR"} \subseteq Steps
    BY DEF Steps, Requests, Transfers
  <1>2. /\ e \in Seq(Steps) /\ Len(e) = 1 /\ e[1] = "ENSURE" /\ e # <<>>
        /\ Planned(e) /\ ~HasRead(e)
    <2>1. e \in Seq(Steps) /\ Len(e) = 1 /\ e[1] = "ENSURE" /\ e # <<>>
      BY <1>1
    <2> QED BY <2>1 DEF Planned, Opening, SizeFirst, OneRead, HasRead
  <1>3. /\ Download \in Seq(Steps) /\ Len(Download) = 3 /\ Download # <<>>
        /\ Download[1] = "SIZE" /\ Download[2] = "EPSV" /\ Download[3] = "RETR"
        /\ Upload \in Seq(Steps) /\ Len(Upload) = 2 /\ Upload # <<>>
        /\ Upload[1] = "EPSV" /\ Upload[2] = "STOR"
        /\ ListDir \in Seq(Steps) /\ Len(ListDir) = 2 /\ ListDir # <<>>
        /\ ListDir[1] = "EPSV" /\ ListDir[2] = "LIST"
    BY <1>1 DEF Download, Upload, ListDir
  <1> HIDE DEF e
  <1>4. Planned(Download) /\ HasRead(Download)
    BY <1>3 DEF Planned, Opening, SizeFirst, OneRead, HasRead, Transfers
  <1>5. Planned(Upload) /\ ~HasRead(Upload) /\ Planned(ListDir) /\ ~HasRead(ListDir)
    BY <1>3 DEF Planned, Opening, SizeFirst, OneRead, HasRead, Transfers
  <1>6. "ENSURE" \notin Transfers /\ "SIZE" \notin Transfers /\ "EPSV" \notin Transfers
    BY DEF Transfers
  <1>8. ASSUME NEW d \in {Download, ListDir}
        PROVE  /\ e \o d \in Seq(Steps) /\ e \o d # <<>> /\ (e \o d)[1] = "ENSURE"
               /\ Planned(e \o d) /\ (HasRead(e \o d) <=> HasRead(d))
    BY <1>2, <1>3, <1>4, <1>5, <1>6, Joined, PlannedBoth
  <1>9. CASE kind = "read"
    BY <1>4, <1>6, <1>8, <1>9 DEF Plan, e
  <1>10. CASE kind = "write"
    <2>1. e \o Upload \in Seq(Steps) /\ (e \o Upload)[1] = "ENSURE" /\ Planned(e \o Upload)
      BY <1>2, <1>3, <1>5, <1>6, Joined, PlannedBoth
    <2> QED BY <1>6, <1>10, <2>1 DEF Plan, e
  <1>11. CASE kind = "info"
    BY <1>6, <1>8, <1>11 DEF Plan, e
  <1>12. CASE kind = "load"
    <2> DEFINE a == e \o Download
               b == a \o e
    <2>1. a \in Seq(Steps) /\ a # <<>> /\ a[1] = "ENSURE" /\ Planned(a) /\ HasRead(a)
      BY <1>4, <1>8
    <2> HIDE DEF a
    <2>2. b \in Seq(Steps) /\ b # <<>> /\ b[1] = "ENSURE" /\ Planned(b) /\ HasRead(b)
      BY <1>2, <1>6, Joined, <2>1, PlannedBoth
    <2> HIDE DEF b
    <2>3. Planned(b \o ListDir) /\ HasRead(b \o ListDir) /\ (b \o ListDir)[1] = "ENSURE"
      BY <1>3, <1>5, <1>6, Joined, <2>2, PlannedBoth
    <2> QED BY <1>6, <1>12, <2>3 DEF Plan, e, a, b
  <1>13. CASE kind = "save"
    <2> DEFINE a == e \o ListDir
               b == a \o Upload
               c == b \o e
    <2>1. a \in Seq(Steps) /\ a # <<>> /\ a[1] = "ENSURE" /\ Planned(a) /\ ~HasRead(a)
      BY <1>5, <1>8
    <2> HIDE DEF a
    <2>2. b \in Seq(Steps) /\ b # <<>> /\ b[1] = "ENSURE" /\ Planned(b) /\ ~HasRead(b)
      BY <1>3, <1>5, <1>6, Joined, <2>1, PlannedBoth
    <2> HIDE DEF b
    <2>3. c \in Seq(Steps) /\ c # <<>> /\ c[1] = "ENSURE" /\ Planned(c) /\ ~HasRead(c)
      BY <1>2, <1>6, Joined, <2>2, PlannedBoth
    <2> HIDE DEF c
    <2>4. Planned(c \o ListDir) /\ (c \o ListDir)[1] = "ENSURE"
      BY <1>3, <1>5, <1>6, Joined, <2>3, PlannedBoth
    <2> QED BY <1>6, <1>13, <2>4 DEF Plan, e, a, b, c
  <1> QED BY <1>9, <1>10, <1>11, <1>12, <1>13, KindAssumption DEF AllKinds

(* The login and what follows it.                                           *)
LEMMA LoginPlanned ==
  ASSUME NEW t \in Seq(Steps), t # <<>>, Planned(t), t[1] \notin Transfers
  PROVE  /\ Planned(Login \o t) /\ (HasRead(Login \o t) <=> HasRead(t))
         /\ Login \o t \in Seq(Steps) /\ Login \o t # <<>>
         /\ (Login \o t)[1] = "CONNECT"
  <1>1. /\ Login \in Seq(Steps) /\ Len(Login) = 4 /\ Login # <<>>
        /\ Login[1] = "CONNECT" /\ Login[2] = "OPTS" /\ Login[3] = "USER" /\ Login[4] = "TYPE"
    BY DEF Login, Steps, Requests, Access
  <1>2. Planned(Login) /\ ~HasRead(Login)
    BY <1>1 DEF Planned, Opening, SizeFirst, OneRead, HasRead, Transfers
  <1> QED BY <1>1, <1>2, Joined, PlannedBoth

(* The step of the other passive mode, in place of the first.               *)
LEMMA PasvPlanned ==
  ASSUME NEW p \in Seq(Steps), p # <<>>, p[1] = "EPSV", Planned(p)
  PROVE  LET q == <<"PASV">> \o Tail(p)
         IN  Planned(q) /\ (HasRead(q) <=> HasRead(p)) /\ q # <<>> /\ q[1] = "PASV"
  <1> DEFINE t == Tail(p)
             s == <<"PASV">>
             q == s \o t
  <1>1. s \in Seq(Steps) /\ Len(s) = 1 /\ s[1] = "PASV" /\ s # <<>> /\ t \in Seq(Steps)
    BY DEF Steps, Requests
  <1>2. Planned(s) /\ ~HasRead(s)
    <2>1. Len(s) = 1 /\ s[1] = "PASV"
      BY <1>1
    <2> HIDE DEF s
    <2> QED BY <2>1 DEF Planned, Opening, SizeFirst, OneRead, HasRead
  <1>3. Planned(t) /\ (HasRead(p) <=> HasRead(t))
    BY PlannedTail
  <1> HIDE DEF s, t
  <1>4. q \in Seq(Steps) /\ q[1] = "PASV" /\ q # <<>>
    BY <1>1, Joined
  <1>6. CASE t = <<>>
    <2>1. q = s
      BY <1>1, <1>6
    <2>2. ~HasRead(t)
      <3>1. Len(t) = 0
        BY <1>6
      <3> QED BY <3>1 DEF HasRead
    <2> QED BY <1>2, <1>3, <1>4, <2>1, <2>2 DEF s, t
  <1>7. CASE t # <<>>
    <2>1. Planned(q) /\ (HasRead(q) <=> HasRead(s) \/ HasRead(t))
      BY <1>1, <1>2, <1>3, <1>7, PlannedBoth
    <2> QED BY <1>2, <1>3, <1>4, <2>1 DEF s, t
  <1> QED BY <1>6, <1>7

-----------------------------------------------------------------------------
(* Answers.                                                                 *)

(* Without the first answer.                                                *)
LEMMA WireTail ==
  ASSUME NEW w \in Seq(Replies), w # <<>>, NEW n \in Nat
  PROVE  /\ Rising(w) => Rising(Tail(w)) /\ (Opens(w[1]) => Newer(Tail(w), w[1].id))
         /\ Newer(w, n) => Newer(Tail(w), n)
         /\ Numbered(w, n) => Numbered(Tail(w), n) /\ w[1].id <= n
         /\ Tail(w) \in Seq(Replies) /\ w[1] \in Replies /\ w[1] = Head(w)
  <1> DEFINE t == Tail(w)
  <1>1. /\ t \in Seq(Replies) /\ Len(w) \in Nat \ {0} /\ Len(t) = Len(w) - 1
        /\ \A i \in 1 .. Len(t) : t[i] = w[i + 1] /\ i + 1 \in 1 .. Len(w) /\ 1 < i + 1
        /\ 1 \in 1 .. Len(w) /\ w[1] \in Replies /\ w[1] = Head(w)
    OBVIOUS
  <1> HIDE DEF t
  <1>2. Rising(w) => Rising(t)
    <2> SUFFICES ASSUME Rising(w), NEW j \in 1 .. Len(t), NEW k \in 1 .. Len(t), j < k,
                        Opens(t[j]), Opens(t[k])
                 PROVE  t[j].id < t[k].id
      BY DEF Rising
    <2>1. /\ j + 1 \in 1 .. Len(w) /\ k + 1 \in 1 .. Len(w) /\ j + 1 < k + 1
          /\ t[j] = w[j + 1] /\ t[k] = w[k + 1]
      BY <1>1
    <2> QED BY <2>1 DEF Rising
  <1>3. Rising(w) /\ Opens(w[1]) => Newer(t, w[1].id)
    <2> SUFFICES ASSUME Rising(w), Opens(w[1]), NEW k \in 1 .. Len(t), Opens(t[k])
                 PROVE  t[k].id > w[1].id
      BY DEF Newer
    <2>1. w[1].id < w[k + 1].id
      BY <1>1 DEF Rising
    <2>2. w[k + 1] \in Replies
      BY <1>1
    <2> QED BY <1>1, <2>1, <2>2 DEF Replies
  <1>4. Newer(w, n) => Newer(t, n)
    BY <1>1 DEF Newer
  <1>5. Numbered(w, n) => Numbered(t, n) /\ w[1].id <= n
    BY <1>1 DEF Numbered
  <1> QED BY <1>1, <1>2, <1>3, <1>4, <1>5 DEF t

(* With another answer.                                                     *)
LEMMA WireMore ==
  ASSUME NEW w \in Seq(Replies), NEW r \in Replies, NEW n \in Nat
  PROVE  /\ Rising(w) /\ (Opens(r) => \A k \in 1 .. Len(w) : w[k].id < r.id)
              => Rising(Append(w, r))
         /\ Newer(w, n) /\ (Opens(r) => r.id > n) => Newer(Append(w, r), n)
         /\ Numbered(w, n) /\ r.id <= n => Numbered(Append(w, r), n)
         /\ Append(w, r) \in Seq(Replies)
  <1> DEFINE t == Append(w, r)
  <1>1. /\ t \in Seq(Replies) /\ Len(w) \in Nat /\ Len(t) = Len(w) + 1 /\ t[Len(w) + 1] = r
        /\ \A i \in 1 .. Len(w) : t[i] = w[i]
    BY Appended
  <1> HIDE DEF t
  <1>2. ASSUME NEW k \in 1 .. Len(t)
        PROVE  (k \in 1 .. Len(w) /\ t[k] = w[k]) \/ (k = Len(w) + 1 /\ t[k] = r)
    BY <1>1
  <1>3. Rising(w) /\ (Opens(r) => \A k \in 1 .. Len(w) : w[k].id < r.id) => Rising(t)
    <2> SUFFICES ASSUME Rising(w), Opens(r) => \A k \in 1 .. Len(w) : w[k].id < r.id,
                        NEW j \in 1 .. Len(t), NEW k \in 1 .. Len(t), j < k,
                        Opens(t[j]), Opens(t[k])
                 PROVE  t[j].id < t[k].id
      BY DEF Rising
    <2>1. j \in 1 .. Len(w) /\ t[j] = w[j]
      BY <1>1, <1>2
    <2>2. CASE k \in 1 .. Len(w) /\ t[k] = w[k]
      BY <2>1, <2>2 DEF Rising
    <2>3. CASE t[k] = r
      BY <2>1, <2>3
    <2> QED BY <1>2, <2>2, <2>3
  <1>4. Newer(w, n) /\ (Opens(r) => r.id > n) => Newer(t, n)
    BY <1>1, <1>2 DEF Newer
  <1>5. Numbered(w, n) /\ r.id <= n => Numbered(t, n)
    BY <1>1, <1>2 DEF Numbered
  <1> QED BY <1>1, <1>3, <1>4, <1>5 DEF t

(* Later bounds.                                                            *)
LEMMA WireBounds ==
  ASSUME NEW w \in Seq(Replies), NEW m \in Nat, NEW n \in Nat, m <= n
  PROVE  /\ Numbered(w, m) => Numbered(w, n)
         /\ Newer(w, n) => Newer(w, m)
         /\ Rising(<<>>) /\ Newer(<<>>, n) /\ Numbered(<<>>, n)
  <1>1. \A k \in 1 .. Len(w) : w[k].id \in Nat
    <2>1. \A k \in 1 .. Len(w) : w[k] \in Replies
      OBVIOUS
    <2> QED BY <2>1 DEF Replies
  <1>2. Numbered(w, m) => Numbered(w, n)
    BY <1>1 DEF Numbered
  <1>3. Newer(w, n) => Newer(w, m)
    BY <1>1 DEF Newer
  <1> QED BY <1>2, <1>3 DEF Rising, Newer, Numbered

-----------------------------------------------------------------------------
(* Chunks.                                                                  *)

(* Two sequences, one after the other, and three.                           *)
LEMMA Lengths ==
  ASSUME NEW s \in Seq(Chunk), NEW t \in Seq(Chunk)
  PROVE  /\ s \o t \in Seq(Chunk) /\ Len(s \o t) = Len(s) + Len(t)
         /\ Len(s) \in Nat /\ Len(t) \in Nat
         /\ \A r \in Seq(Chunk) : (s \o t) \o r = s \o (t \o r)
  OBVIOUS

(* Three sequences, from the left or from the right.                        *)
LEMMA Thrice ==
  ASSUME NEW s \in Seq(Chunk), NEW t \in Seq(Chunk), NEW r \in Seq(Chunk)
  PROVE  s \o t \o r = s \o (t \o r)
  OBVIOUS

(* The first of one sequence goes to the end of the other.                  *)
LEMMA Shifted ==
  ASSUME NEW s \in Seq(Chunk), NEW t \in Seq(Chunk), t # <<>>
  PROVE  /\ Append(s, Head(t)) \in Seq(Chunk) /\ Tail(t) \in Seq(Chunk)
         /\ Append(s, Head(t)) \o Tail(t) = s \o t
         /\ Len(Tail(t)) < Len(t)
  <1>1. /\ Head(t) \in Chunk /\ Tail(t) \in Seq(Chunk) /\ Len(t) \in Nat \ {0}
        /\ Len(Tail(t)) = Len(t) - 1 /\ Head(t) = t[1]
        /\ \A i \in 1 .. Len(t) - 1 : Tail(t)[i] = t[i + 1]
    OBVIOUS
  <1> DEFINE a == Append(s, Head(t))
             b == a \o Tail(t)
             c == s \o t
  <1>2. /\ a \in Seq(Chunk) /\ Len(a) = Len(s) + 1 /\ a[Len(s) + 1] = t[1] /\ Len(s) \in Nat
        /\ \A i \in 1 .. Len(s) : a[i] = s[i]
    BY <1>1, Appended
  <1> HIDE DEF a
  <1>3. /\ b \in Seq(Chunk) /\ Len(b) = Len(s) + Len(t)
        /\ c \in Seq(Chunk) /\ Len(c) = Len(s) + Len(t)
    BY <1>1, <1>2
  <1>4. ASSUME NEW i \in 1 .. Len(s) + Len(t)
        PROVE  b[i] = c[i]
    <2>1. CASE i \in 1 .. Len(s)
      <3>1. b[i] = a[i] /\ c[i] = s[i]
        BY <1>1, <1>2, <2>1
      <3> QED BY <1>2, <2>1, <3>1
    <2>2. CASE i = Len(s) + 1
      <3>1. b[i] = a[i]
        BY <1>1, <1>2, <2>2
      <3>2. c[i] = t[1]
        BY <1>1, <1>2, <2>2
      <3> QED BY <1>2, <2>2, <3>1, <3>2
    <2>3. CASE i \in Len(s) + 2 .. Len(s) + Len(t)
      <3>1. b[i] = Tail(t)[i - (Len(s) + 1)]
        BY <1>1, <1>2, <2>3
      <3>2. c[i] = t[i - Len(s)]
        BY <1>1, <1>2, <2>3
      <3>3. i - (Len(s) + 1) \in 1 .. Len(t) - 1 /\ (i - (Len(s) + 1)) + 1 = i - Len(s)
        BY <1>1, <1>2, <2>3
      <3> QED BY <1>1, <3>1, <3>2, <3>3
    <2> QED BY <1>1, <1>2, <2>1, <2>2, <2>3
  <1>5. b = c
    <2> HIDE DEF b, c
    <2> QED BY <1>3, <1>4, SeqEqual
  <1> QED BY <1>1, <1>2, <1>5 DEF a, b, c

(* Less of any of three.                                                    *)
LEMMA Lessened ==
  ASSUME NEW a \in Seq(Chunk), NEW b \in Seq(Chunk), NEW c \in Seq(Chunk),
         NEW d \in Seq(Chunk), NEW e \in Seq(Chunk), NEW f \in Seq(Chunk),
         d = a \/ Len(d) < Len(a), e = b \/ Len(e) < Len(b), f = c \/ Len(f) < Len(c)
  PROVE  d \o e \o f = a \o b \o c \/ Len(d \o e \o f) < Len(a \o b \o c)
  <1>1. /\ Len(a \o b \o c) = Len(a) + Len(b) + Len(c)
        /\ Len(d \o e \o f) = Len(d) + Len(e) + Len(f)
        /\ Len(a) \in Nat /\ Len(b) \in Nat /\ Len(c) \in Nat
        /\ Len(d) \in Nat /\ Len(e) \in Nat /\ Len(f) \in Nat
    BY Lengths
  <1>2. CASE d = a /\ e = b /\ f = c
    BY <1>2
  <1>3. CASE ~(d = a /\ e = b /\ f = c)
    <2>1. Len(d) <= Len(a) /\ Len(e) <= Len(b) /\ Len(f) <= Len(c)
      BY <1>1
    <2>2. Len(d) < Len(a) \/ Len(e) < Len(b) \/ Len(f) < Len(c)
      BY <1>3
    <2> QED BY <1>1, <2>1, <2>2
  <1> QED BY <1>2, <1>3

(* What is within stays within when some of it goes.                        *)
LEMMA WithinLess ==
  ASSUME NEW s \in Seq(Chunk), NEW r \in Seq(Chunk), NEW q \in Seq(Chunk), NEW t \in Seq(Chunk),
         Within(s \o r, t), q = r \/ Len(q) < Len(r)
  PROVE  Within(s \o q, t)
  <1>1. CASE q = r
    BY <1>1
  <1>2. CASE Len(q) < Len(r)
    <2>1. Len(s \o q) < Len(s \o r) /\ Len(s \o q) \in Nat /\ Len(s \o r) \in Nat /\ Len(t) \in Nat
      BY <1>2, Lengths
    <2> QED BY <2>1 DEF Within
  <1> QED BY <1>1, <1>2

-----------------------------------------------------------------------------
(* The parts of the invariant that only depend on who has which number.     *)

(* The types these parts need.                                              *)
LEMMA Typed ==
  ASSUME Inv
  PROVE  /\ handles \in Nat /\ data \in Nat /\ awaited \in Nat /\ listener \in Nat
         /\ xfer \in Transferring /\ xfer.id \in Nat /\ xfer.socket \in Nat /\ xfer.todo \in Seq(Chunk)
         /\ xfer.op \in 0 .. MaxOps
         /\ wire \in Seq(Replies) /\ cache \in Seq(Chunk) /\ pipe \in Seq(Chunk)
         /\ Todo \in Seq(Chunk) /\ Rest \in Seq(Chunk) /\ <<>> \in Seq(Chunk)
         /\ \A p \in pollers : p.id \in Nat \ {0} /\ p.got \in Nat /\ p.size \in Nat
         /\ \A l \in loops : l.id \in Nat \ {0}
         /\ (task # NoTask => task.id # 0) /\ CallsOK
         /\ remote \in Seq(Chunk)
  <1>1. /\ handles \in Nat /\ data \in Nat /\ awaited \in Nat /\ listener \in Nat
        /\ wire \in Seq(Replies) /\ cache \in Seq(Chunk) /\ pipe \in Seq(Chunk)
        /\ xfer \in Transferring /\ CallsOK /\ remote \in Seq(Chunk) /\ <<>> \in Seq(Chunk)
    <2>1. handles \in Nat /\ awaited \in 0 .. handles /\ CallsOK
      BY DEF Inv, TypeOK, CallsOK
    <2>2. awaited \in Nat
      BY <2>1
    <2>3. data \in Nat /\ cache \in Seq(Chunk) /\ pipe \in Seq(Chunk)
      BY DEF Inv, TypeOK, DataOK
    <2>4. /\ wire \in Seq(Replies) /\ xfer \in Transferring /\ remote \in Seq(Chunk)
          /\ listener \in Nat
      BY DEF Inv, TypeOK, ServerOK
    <2> QED BY <2>1, <2>2, <2>3, <2>4
  <1>2. /\ xfer.id \in Nat /\ xfer.socket \in Nat /\ xfer.todo \in Seq(Chunk)
        /\ xfer.op \in 0 .. MaxOps
    BY <1>1 DEF Transferring
  <1>3. Todo \in Seq(Chunk)
    BY <1>1, <1>2 DEF Todo
  <1>4. Rest \in Seq(Chunk)
    BY <1>1, <1>3, Lengths DEF Rest
  <1>5. \A p \in pollers : p.id \in Nat \ {0} /\ p.got \in Nat /\ p.size \in Nat
    BY DEF Inv, TypeOK, DataOK, Pollers
  <1>6. \A l \in loops : l.id \in Nat \ {0}
    BY DEF Inv, TypeOK, DataOK, Loops
  <1>7. task # NoTask => task.id # 0
    BY DEF Inv, TypeOK, ContextOK
  <1> QED BY <1>1, <1>2, <1>3, <1>4, <1>5, <1>6, <1>7

(* The server in no transfer.                                               *)
LEMMA NoTransferIs ==
  NoTransfer.id = 0 /\ NoTransfer.socket = 0 /\ NoTransfer.todo = <<>> /\ NoTransfer.op = 0
  BY DEF NoTransfer

(* Pollers and loops are the old ones.                                      *)
OldJobs ==
  /\ \A p \in pollers' : \E q \in pollers : q.id = p.id
  /\ \A l \in loops' : \E m \in loops : m.id = l.id

(* The answers are the old ones, or all but the first.                      *)
OldWire == wire' = wire \/ wire' = <<>> \/ (wire # <<>> /\ wire' = Tail(wire))

(* The transfer of the server is the old one, with less to send, or none.   *)
OldTransfer ==
  \/ xfer' = NoTransfer
  \/ /\ xfer'.id = xfer.id /\ xfer'.socket = xfer.socket
     /\ (xfer'.todo # <<>> => xfer.todo # <<>>)

(* An operation that leaves a transfer leaves its data connection as well.  *)
Leaves == data' \in {0, data} /\ (awaited' # awaited /\ awaited = xfer.id => data' = 0)

(* The numbers that are left.                                               *)
LEMMA Lessening ==
  ASSUME Inv, OldTransfer, Leaves
  PROVE  /\ data' \in {0, data} /\ data' \in Nat
         /\ xfer'.id \in {0, xfer.id} /\ xfer'.socket \in {0, xfer.socket} /\ xfer'.socket \in Nat
  <1>1. data \in Nat /\ xfer.socket \in Nat /\ 0 \in Nat
    BY Typed
  <1>2. data' \in {0, data} /\ data' \in Nat
    BY <1>1 DEF Leaves
  <1>3. xfer'.id \in {0, xfer.id} /\ xfer'.socket \in {0, xfer.socket}
    BY NoTransferIs DEF OldTransfer
  <1> QED BY <1>1, <1>2, <1>3

(* A step that only drops numbers keeps them in order.                      *)
LEMMA OrderKept ==
  ASSUME Inv, Order, handles' \in {handles, handles + 1}, OldJobs, OldWire, OldTransfer, Leaves,
         awaited' \in {0, awaited} \/ (awaited = 0 /\ awaited' = handles + 1)
  PROVE  Order'
  <1>1. handles \in Nat /\ data \in Nat /\ wire \in Seq(Replies) /\ 0 <= handles
    BY Typed
  <1>2. /\ Rising(wire') /\ Numbered(wire', handles)
        /\ \A n \in Nat : Newer(wire, n) => Newer(wire', n)
    <2>1. CASE wire' = wire
      BY <2>1 DEF Order, Fresh, Bounded
    <2>2. CASE wire' = <<>>
      BY <1>1, <2>2, WireBounds
    <2>3. CASE wire # <<>> /\ wire' = Tail(wire)
      BY <1>1, <2>3, WireTail DEF Order, Fresh, Bounded
    <2> QED BY <2>1, <2>2, <2>3 DEF OldWire
  <1>3. /\ data' \in {0, data} /\ data' \in Nat
        /\ xfer'.id \in {0, xfer.id} /\ xfer'.socket \in {0, xfer.socket} /\ xfer'.socket \in Nat
    BY Lessening
  <1>4. Bounded'
    <2>1. handles' \in Nat /\ handles <= handles'
      BY <1>1
    <2>2. Numbered(wire', handles')
      <3>1. wire' \in Seq(Replies)
        <4>1. wire # <<>> => Tail(wire) \in Seq(Replies)
          BY <1>1, WireTail
        <4>2. <<>> \in Seq(Replies)
          OBVIOUS
        <4> QED BY <1>1, <4>1, <4>2 DEF OldWire
      <3> QED BY <1>1, <1>2, <2>1, <3>1, WireBounds
    <2>3. \A n \in Nat : n <= handles => n <= handles'
      BY <1>1, <2>1
    <2>4. /\ \A p \in pollers' : p.id \in Nat /\ p.id <= handles
          /\ \A l \in loops' : l.id \in Nat /\ l.id <= handles
      BY Typed DEF Order, Bounded, OldJobs
    <2>5. xfer'.id <= handles' /\ xfer'.socket <= handles' /\ data' <= handles'
      <3>1. \A n \in {0, xfer.id, xfer.socket, data} : n \in Nat /\ n <= handles
        BY <1>1, Typed DEF Order, Bounded
      <3>2. \A n \in {0, xfer.id, xfer.socket, data} : n <= handles'
        BY <1>1, <2>1, <3>1
      <3> QED BY <1>3, <3>2
    <2>6. /\ \A p \in pollers' : p.id <= handles'
          /\ \A l \in loops' : l.id <= handles'
      BY <2>3, <2>4
    <2> QED BY <2>2, <2>5, <2>6 DEF Bounded
  <1>5. Fresh'
    <2>1. Newer(wire, data') /\ Newer(wire, xfer'.socket)
      BY <1>1, <1>3, Typed, WireBounds DEF Order, Fresh
    <2> QED BY <1>2, <1>3, <2>1 DEF Fresh
  <1>6. Foreign'
    <2>1. xfer.id # handles + 1
      BY <1>1, Typed DEF Order, Bounded
    <2> QED BY <1>3, <2>1, NoTransferIs DEF Order, Foreign, OldTransfer, Leaves
  <1> QED BY <1>4, <1>5, <1>6 DEF Order

(* Another answer that opens nothing.                                       *)
LEMMA OrderSaid ==
  ASSUME Inv, Order, handles' = handles, OldJobs, OldTransfer, Leaves, awaited' \in {0, awaited},
         NEW w \in Seq(Replies), w = wire \/ (wire # <<>> /\ w = Tail(wire)),
         NEW r \in Replies, r.id <= handles, ~Opens(r), wire' = Append(w, r)
  PROVE  Order'
  <1>1. handles \in Nat /\ data \in Nat /\ wire \in Seq(Replies) /\ 0 <= handles
    BY Typed
  <1>2. Rising(w) /\ Numbered(w, handles) /\ \A n \in Nat : Newer(wire, n) => Newer(w, n)
    BY <1>1, WireTail DEF Order, Fresh, Bounded
  <1>3. /\ Rising(wire') /\ Numbered(wire', handles)
        /\ \A n \in Nat : Newer(wire, n) => Newer(wire', n)
    BY <1>1, <1>2, WireMore
  <1>4. /\ data' \in {0, data} /\ data' \in Nat
        /\ xfer'.id \in {0, xfer.id} /\ xfer'.socket \in {0, xfer.socket} /\ xfer'.socket \in Nat
    BY Lessening
  <1>5. Bounded'
    BY <1>1, <1>3, <1>4 DEF Order, Bounded, OldJobs
  <1>6. Fresh'
    <2>1. Newer(wire, data') /\ Newer(wire, xfer'.socket)
      <3>1. Newer(wire, data) /\ Newer(wire, xfer.socket)
        BY DEF Order, Fresh
      <3>2. Newer(wire, 0)
        BY <1>1, <3>1, WireBounds
      <3> QED BY <1>4, <3>1, <3>2
    <2> QED BY <1>3, <1>4, <2>1 DEF Fresh
  <1>7. Foreign'
    BY <1>4, NoTransferIs DEF Order, Foreign, OldTransfer, Leaves
  <1> QED BY <1>5, <1>6, <1>7 DEF Order

-----------------------------------------------------------------------------
(* How an operation leaves a step, and how it stays in it.                  *)

(* The operation under way, and its step.                                   *)
LEMMA Working ==
  ASSUME Inv, cur # 0
  PROVE  /\ cur \in DOMAIN ops /\ ops[cur] \in Operation /\ ops[cur].told = ""
         /\ ops[cur].local \in Seq(Chunk) /\ ops[cur].before \in Seq(Chunk)
         /\ ops[cur].want \in Seq(Chunk) /\ ops[cur].size \in Nat
         /\ plan \in Seq(Steps) /\ plan # <<>> /\ Step = plan[1] /\ Len(plan) \in Nat \ {0}
  <1>1. CallsOK
    BY DEF Inv, TypeOK
  <1>2. cur \in DOMAIN ops /\ ops[cur] \in Operation /\ ops[cur].told = ""
    BY <1>1, Running
  <1>3. plan \in Seq(Steps) /\ plan # <<>>
    BY <1>1 DEF CallsOK, Plans
  <1>4. Step = plan[1] /\ Len(plan) \in Nat \ {0}
    BY <1>3 DEF Step
  <1> QED BY <1>2, <1>3, <1>4 DEF Operation

(* The first step and the rest.                                             *)
LEMMA Rests ==
  ASSUME NEW p \in Seq(Steps), p # <<>>
  PROVE  /\ Tail(p) \in Seq(Steps) /\ Len(p) \in Nat \ {0} /\ Len(Tail(p)) = Len(p) - 1
         /\ Head(p) = p[1] /\ (Tail(p) = <<>> <=> Len(p) = 1)
  <1>1. /\ Tail(p) \in Seq(Steps) /\ Len(p) \in Nat \ {0} /\ Len(Tail(p)) = Len(p) - 1
        /\ Head(p) = p[1]
    OBVIOUS
  <1>2. Tail(p) = <<>> <=> Len(Tail(p)) = 0
    BY <1>1, EmptySeq
  <1>3. Len(Tail(p)) = 0 <=> Len(p) = 1
    BY <1>1
  <1> QED BY <1>1, <1>2, <1>3

(* Who waits, or has a step, is under way.                                  *)
LEMMA Busy ==
  ASSUME Inv
  PROVE  (awaited # 0 => cur # 0) /\ (Step # "" => cur # 0) /\ (cur = 0 => Step = "")
  <1>1. (plan = <<>> <=> cur = 0) /\ (awaited # 0 => cur # 0)
    BY DEF Inv, TypeOK, CallsOK
  <1> QED BY <1>1 DEF Step

(* What an operation is told changes nothing else.                          *)
LEMMA Told1 ==
  ASSUME Inv, cur # 0, NEW told \in {"ok", "failed", "missing"}, Over(told)
  PROVE  /\ DOMAIN ops' = DOMAIN ops
         /\ \A i \in DOMAIN ops :
              /\ ops'[i].kind = ops[i].kind /\ ops'[i].before = ops[i].before
              /\ ops'[i].local = ops[i].local /\ ops'[i].want = ops[i].want
              /\ ops'[i].size = ops[i].size /\ ops'[i].stored = ops[i].stored
              /\ ops'[i].told = IF i = cur THEN told ELSE ops[i].told
         /\ cur' = 0 /\ awaited' = 0 /\ plan' = <<>>
  <1> DEFINE o == [ops[cur] EXCEPT !.told = told]
  <1>1. /\ o \in Operation /\ o.told = told
        /\ o.kind = ops[cur].kind /\ o.before = ops[cur].before /\ o.local = ops[cur].local
        /\ o.want = ops[cur].want /\ o.size = ops[cur].size /\ o.stored = ops[cur].stored
    BY Working DEF Operation, Told
  <1>2. ops' = [ops EXCEPT ![cur] = o] /\ CallsOK
    BY DEF Over, Inv, TypeOK
  <1> HIDE DEF o
  <1>3. DOMAIN ops' = DOMAIN ops /\ \A i \in DOMAIN ops : ops'[i] = IF i = cur THEN o ELSE ops[i]
    BY <1>1, <1>2, Replaced
  <1> QED BY <1>1, <1>3 DEF Over

(* An operation that is over: what it read is as good as it is told.        *)
LEMMA OverReads ==
  ASSUME Inv, ReadInv, cur # 0, NEW told \in {"ok", "failed", "missing"}, Over(told),
         told = "ok" /\ ops[cur].kind \in {"read", "load"} => Good(ops[cur])
  PROVE  Planned(plan') /\ Ready' /\ Progress' /\ ReadComplete' /\ awaited' = 0
  <1>1. /\ cur' = 0 /\ plan' = <<>> /\ awaited' = 0 /\ Step' = ""
    BY DEF Over, Step
  <1>2. Planned(<<>>)
    BY DEF Planned, Opening, SizeFirst, OneRead
  <1>3. Ready' /\ Progress'
    BY <1>1 DEF Ready, Progress, Transfers
  <1>4. ReadComplete'
    <2> SUFFICES ASSUME NEW i \in DOMAIN ops', Ok(i, {"read", "load"})'
                 PROVE  \/ ops'[i].local = ops'[i].before \o ops'[i].want
                        \/ Len(ops'[i].want) > ops'[i].size
      BY DEF ReadComplete
    <2>1. /\ i \in DOMAIN ops /\ ops[i].kind \in {"read", "load"}
          /\ ops'[i].told = "ok"
      BY Told1 DEF Ok
    <2>2. CASE i = cur
      BY <2>1, <2>2, Told1 DEF Good
    <2>3. CASE i # cur
      <3>1. Ok(i, {"read", "load"})
        BY <2>1, <2>3, Told1 DEF Ok
      <3> QED BY <2>1, <3>1, Told1 DEF ReadInv, ReadComplete
    <2> QED BY <2>2, <2>3
  <1> QED BY <1>1, <1>2, <1>3, <1>4

(* A step that failed.                                                      *)
LEMMA FailsReads ==
  ASSUME Inv, ReadInv, cur # 0, Fails
  PROVE  Planned(plan') /\ Ready' /\ Progress' /\ ReadComplete' /\ awaited' = 0
  <1>1. CASE TriesNext
    <2>1. /\ plan' = <<"PASV">> \o Tail(plan) /\ awaited' = 0 /\ UNCHANGED <<ops, cur>>
          /\ Step = "EPSV"
      BY <1>1 DEF Fails, TriesNext
    <2>2. /\ Planned(plan') /\ (HasRead(plan') <=> HasRead(plan))
          /\ plan' # <<>> /\ plan'[1] = "PASV"
      BY <2>1, Working, PasvPlanned DEF ReadInv
    <2>3. Step' = "PASV"
      <3>1. Tail(plan) \in Seq(Steps)
        BY Working, Rests
      <3>2. plan' \in Seq(Steps)
        <4>1. <<"PASV">> \in Seq(Steps)
          BY DEF Steps, Requests
        <4> QED BY <2>1, <3>1, <4>1
      <3>3. Head(plan') = plan'[1]
        BY <2>2, <3>2, Rests
      <3> QED BY <2>2, <3>3 DEF Step
    <2>4. Ready'
      BY <2>3 DEF Ready, Transfers
    <2>5. Progress'
      BY <2>1, <2>2 DEF ReadInv, Progress, Reading, Good
    <2>6. ReadComplete'
      BY <2>1 DEF ReadInv, ReadComplete, Ok
    <2> QED BY <2>1, <2>2, <2>4, <2>5, <2>6
  <1>2. CASE ~TriesNext
    BY <1>2, OverReads DEF Fails
  <1> QED BY <1>1, <1>2

(* A step that succeeded: RETR has got the file, and what opens a data      *)
(* connection leaves nothing of another.                                    *)
LEMMA SucceedsReads ==
  ASSUME Inv, ReadInv, cur # 0, Succeeds, Step = "RETR" => Good(ops[cur]),
         Step \in {"EPSV", "PASV"} => cache' = <<>> /\ pipe' = <<>>
  PROVE  Planned(plan') /\ Ready' /\ Progress' /\ ReadComplete' /\ awaited' = 0
  <1> DEFINE t == Tail(plan)
  <1>1. /\ Planned(t) /\ (HasRead(plan) <=> Step = "RETR" \/ HasRead(t))
        /\ t # <<>> /\ t[1] \in Transfers => Step \in {"EPSV", "PASV"}
    BY Working, PlannedTail DEF ReadInv
  <1>2. ~HasRead(t) /\ ops[cur].kind \in {"read", "load"} => Good(ops[cur])
    BY <1>1 DEF ReadInv, Progress
  <1>3. CASE Len(plan) = 1
    <2>1. ~HasRead(t)
      <3>1. t = <<>>
        BY <1>3, Working, Rests
      <3>2. Len(t) = 0
        BY <3>1
      <3> QED BY <3>2 DEF HasRead
    <2> QED BY <1>2, <1>3, <2>1, OverReads DEF Succeeds
  <1>4. CASE Len(plan) # 1
    <2>1. plan' = t /\ awaited' = 0 /\ UNCHANGED <<ops, cur>>
      BY <1>4 DEF Succeeds
    <2>2. t # <<>> /\ Step' = t[1]
      <3>1. t \in Seq(Steps) /\ t # <<>>
        BY <1>4, Working, Rests
      <3>2. Head(t) = t[1]
        BY <3>1, Rests
      <3> QED BY <2>1, <3>1, <3>2 DEF Step
    <2>3. Ready'
      BY <1>1, <2>2 DEF Ready
    <2>4. ~Reading'
      BY <2>1 DEF Reading
    <2>5. Progress'
      <3>1. HasRead(t) /\ Reading => FALSE
        BY Working, PlannedTail DEF Reading, ReadInv
      <3> QED BY <1>1, <1>2, <2>1, <2>4, <3>1 DEF ReadInv, Progress, Good
    <2>6. ReadComplete'
      BY <2>1 DEF ReadInv, ReadComplete, Ok
    <2> QED BY <1>1, <2>1, <2>3, <2>5, <2>6
  <1> QED BY <1>3, <1>4

(* So a step that is left keeps the invariant.                              *)
LEMMA Quits ==
  ASSUME Inv, ReadInv, cur # 0, Order',
         \/ Fails \/ Over("failed") \/ Over("missing")
         \/ /\ Succeeds /\ (Step = "RETR" => Good(ops[cur]))
            /\ (Step \in {"EPSV", "PASV"} => cache' = <<>> /\ pipe' = <<>>)
  PROVE  ReadInv'
  <1>1. Planned(plan') /\ Ready' /\ Progress' /\ ReadComplete' /\ awaited' = 0
    BY FailsReads, OverReads, SucceedsReads
  <1>2. Fits' /\ Owned'
    BY <1>1 DEF Fits, Owned
  <1> QED BY <1>1, <1>2 DEF ReadInv

(* The pollers of the task that is waited for are the old ones, with what   *)
(* they have got.                                                           *)
OldPollers ==
  \A p \in pollers' : p.id = awaited =>
    \E q \in pollers : q.id = p.id /\ q.size = p.size /\ q.got = p.got

(* s is t, or shorter.                                                      *)
Less(s, t) == s = t \/ Len(s) < Len(t)

(* Nothing is less than anything.                                           *)
LEMMA NothingLess ==
  ASSUME NEW t \in Seq(Chunk)
  PROVE  Less(<<>>, t) /\ Less(t, t) /\ (Less(t, <<>>) => t = <<>>)
  <1>1. Len(t) \in Nat /\ Len(<<>>) = 0 /\ (Len(t) = 0 => t = <<>>)
    BY EmptySeq
  <1> QED BY <1>1 DEF Less

(* A download goes on while chunks go where they have to, or get lost.      *)
LEMMA StreamKept ==
  ASSUME Inv, ReadInv, Reading, UNCHANGED callVars, OldPollers,
         Rest' \in Seq(Chunk), Less(Rest', Rest),
         client'.state = "open" /\ resolver'.done => Good(ops[cur])
  PROVE  Stream(ops[cur])'
  <1>1. cur # 0 /\ Stream(ops[cur]) /\ UNCHANGED <<ops, cur, plan, awaited>>
    BY Busy DEF ReadInv, Progress, Reading, callVars
  <1> DEFINE o == ops[cur]
  <1>2. /\ o.local \in Seq(Chunk) /\ o.before \o o.want \in Seq(Chunk) /\ Rest \in Seq(Chunk)
        /\ ops'[cur'] = o /\ awaited' = awaited
    BY <1>1, Working, Lengths, Typed
  <1>3. Len(o.local) >= Len(o.before) /\ Within(o.local \o Rest, o.before \o o.want)
    BY <1>1 DEF Stream
  <1>4. Within(o.local \o Rest', o.before \o o.want)
    BY <1>2, <1>3, WithinLess DEF Less
  <1>5. \A p \in pollers' : p.id = awaited =>
          p.size = o.size /\ p.got <= Len(o.local) - Len(o.before)
    BY <1>1 DEF OldPollers, Stream
  <1> HIDE DEF o
  <1>6. client'.state = "open" /\ resolver'.done => Good(o)
    BY DEF o
  <1> QED BY <1>2, <1>3, <1>4, <1>5, <1>6 DEF Stream, Good

(* A step in which the operation goes on waiting.                           *)
LEMMA Waits ==
  ASSUME Inv, ReadInv, Order', UNCHANGED callVars, task' = NoTask \/ task' = task,
         OldJobs, xfer'.id \in {0, xfer.id},
         Step \in Transfers /\ awaited = 0 => cache' = <<>> /\ pipe' = <<>>,
         Reading => Stream(ops[cur])'
  PROVE  ReadInv'
  <1>1. UNCHANGED <<ops, cur, plan, awaited>> /\ Step' = Step /\ Reading' = Reading
    BY DEF callVars, Step, Reading
  <1>2. Fits'
    BY <1>1 DEF ReadInv, Fits
  <1>3. Owned'
    BY <1>1 DEF ReadInv, Owned, OldJobs
  <1>4. Ready'
    BY <1>1 DEF ReadInv, Ready
  <1>5. Progress'
    BY <1>1 DEF ReadInv, Progress, Good
  <1>6. ReadComplete'
    BY <1>1 DEF ReadInv, ReadComplete, Ok
  <1> QED BY <1>1, <1>2, <1>3, <1>4, <1>5, <1>6 DEF ReadInv

(* Such a step in which nothing comes or goes but what gets lost.           *)
LEMMA Idles ==
  ASSUME Inv, ReadInv, UNCHANGED callVars, task' = NoTask \/ task' = task,
         Order', OldJobs, OldPollers, xfer'.id \in {0, xfer.id},
         cache' \in Seq(Chunk), pipe' \in Seq(Chunk), xfer'.todo \in Seq(Chunk),
         Less(cache', cache), Less(pipe', pipe), Less(Todo', Todo),
         Reading /\ client'.state = "open" /\ resolver'.done => Good(ops[cur])
  PROVE  ReadInv'
  <1>1. Todo' \in Seq(Chunk) /\ Rest' = cache' \o pipe' \o Todo'
    BY Typed DEF Todo, Rest
  <1>2. Rest' \in Seq(Chunk) /\ Less(Rest', Rest)
    BY <1>1, Typed, Lengths, Lessened DEF Rest, Less
  <1>3. Reading => Stream(ops[cur])'
    BY <1>2, StreamKept
  <1>4. Step \in Transfers /\ awaited = 0 => cache' = <<>> /\ pipe' = <<>>
    BY NothingLess DEF ReadInv, Ready
  <1> QED BY <1>3, <1>4, Waits

(* What a transfer still has to send does not become more.                  *)
LEMMA TodoLess ==
  ASSUME Inv, awaited' = awaited,
         xfer' = NoTransfer \/ (xfer'.id = xfer.id /\ xfer'.todo = xfer.todo)
  PROVE  Less(Todo', Todo) /\ xfer'.todo \in Seq(Chunk) /\ xfer'.id \in {0, xfer.id}
  <1>1. xfer.todo \in Seq(Chunk) /\ Todo \in Seq(Chunk) /\ <<>> \in Seq(Chunk)
    BY Typed
  <1>2. CASE xfer' = NoTransfer
    <2>1. Todo' = <<>>
      BY <1>2, NoTransferIs DEF Todo
    <2> QED BY <1>1, <1>2, <2>1, NothingLess, NoTransferIs
  <1>3. CASE xfer'.id = xfer.id /\ xfer'.todo = xfer.todo
    <2>1. Todo' = Todo
      BY <1>3 DEF Todo
    <2> QED BY <1>1, <1>3, <2>1, NothingLess
  <1> QED BY <1>2, <1>3

(* The client does not open, and the resolver is what it was.               *)
LEMMA StillGood ==
  ASSUME Inv, ReadInv, Reading, client'.state = "open" => client.state = "open",
         resolver' = resolver, client'.state = "open", resolver'.done
  PROVE  Good(ops[cur])
  BY Busy DEF ReadInv, Progress, Reading, Stream

(* The error of a transfer.                                                 *)
LEMMA OnErrorReads ==
  ASSUME Inv, ReadInv, NEW id \in Nat \ {0}, OnErrorOf(id),
         handles' = handles, OldJobs, OldPollers, OldWire,
         xfer' = xfer \/ (xfer'.id = xfer.id /\ xfer'.socket = xfer.socket /\ xfer'.todo = xfer.todo),
         cache' = cache, resolver' = resolver, client' \in {client, Closing(client)}
  PROVE  ReadInv'
  <1>1. client'.state = "open" => client.state = "open"
    BY DEF Closing, Inv, TypeOK, ContextOK
  <1>2. OldTransfer
    BY DEF OldTransfer
  <1>3. CASE OnError(id) /\ awaited = id
    <2>1. Fails /\ data' = 0 /\ cur # 0
      BY <1>3, Busy DEF OnError, Rejects
    <2>2. awaited' = 0
      BY <2>1, FailsReads
    <2>3. Order'
      BY <1>2, <2>1, <2>2, OrderKept DEF ReadInv, Leaves
    <2> QED BY <2>1, <2>3, Quits
  <1>4. CASE UNCHANGED callVars /\ task' \in {NoTask, task} /\ data' \in {0, data} /\ pipe' \in {<<>>, pipe}
    <2>1. awaited' = awaited
      BY <1>4 DEF callVars
    <2>2. Order'
      BY <1>2, <1>4, <2>1, OrderKept DEF ReadInv, Leaves
    <2>3. cache' \in Seq(Chunk) /\ Less(cache', cache) /\ pipe' \in Seq(Chunk) /\ Less(pipe', pipe)
      BY <1>4, Typed, NothingLess
    <2>4. Less(Todo', Todo) /\ xfer'.todo \in Seq(Chunk) /\ xfer'.id \in {0, xfer.id}
      BY <2>1, TodoLess
    <2>5. Reading /\ client'.state = "open" /\ resolver'.done => Good(ops[cur])
      BY <1>1, StillGood
    <2> QED BY <1>4, <2>2, <2>3, <2>4, <2>5, Idles
  <1> QED BY <1>3, <1>4 DEF OnErrorOf, OnErrorGone, OnError, Rejects

(* The data or the answer of a transfer.                                    *)
LEMMA TryReads ==
  ASSUME Inv, ReadInv, cur # 0, Step \in Transfers, NEW r, TryResolve(r),
         Step = "RETR" /\ r.done => Good(ops[cur]),
         handles' = handles, OldJobs, OldPollers, OldWire,
         xfer' = xfer \/ (xfer'.id = xfer.id /\ xfer'.socket = xfer.socket /\ xfer'.todo = xfer.todo),
         cache' = cache
  PROVE  ReadInv'
  <1>1. OldTransfer
    BY DEF OldTransfer
  <1>2. CASE CanResolve(r)
    <2>1. \/ Over("failed") \/ Over("missing") \/ Succeeds
      BY <1>2 DEF TryResolve, NotFound, Outdated
    <2>2. data' = 0 /\ r.done
      BY <1>2 DEF TryResolve, CanResolve
    <2>3. Step \notin {"EPSV", "PASV"}
      BY DEF Transfers
    <2>4. awaited' = 0
      BY <2>1, <2>2, <2>3, OverReads, SucceedsReads
    <2>5. Order'
      BY <1>1, <2>2, <2>4, OrderKept DEF ReadInv, Leaves
    <2> QED BY <2>1, <2>2, <2>3, <2>5, Quits
  <1>3. CASE ~CanResolve(r)
    <2>1. resolver' = r /\ UNCHANGED <<data, pipe, task, callVars>>
      BY <1>3 DEF TryResolve
    <2>2. awaited' = awaited
      BY <2>1 DEF callVars
    <2>3. Order'
      BY <1>1, <2>1, <2>2, OrderKept DEF ReadInv, Leaves
    <2>4. cache' \in Seq(Chunk) /\ Less(cache', cache) /\ pipe' \in Seq(Chunk) /\ Less(pipe', pipe)
      BY <2>1, Typed, NothingLess
    <2>5. Less(Todo', Todo) /\ xfer'.todo \in Seq(Chunk) /\ xfer'.id \in {0, xfer.id}
      BY <2>2, TodoLess
    <2>6. Reading /\ client'.state = "open" /\ resolver'.done => Good(ops[cur])
      BY <2>1 DEF Reading
    <2> QED BY <2>1, <2>3, <2>4, <2>5, <2>6, Idles
  <1> QED BY <1>2, <1>3

-----------------------------------------------------------------------------
(* The steps of the queue and of the client.                                *)

(* Nothing moves but the plan: no number changes.                           *)
LEMMA SameJobs ==
  ASSUME UNCHANGED jobVars
  PROVE  OldJobs /\ OldPollers
  BY DEF jobVars, OldJobs, OldPollers

(* The server does nothing.                                                 *)
LEMMA SameServer ==
  ASSUME UNCHANGED serverVars
  PROVE  OldWire /\ OldTransfer /\ xfer' = xfer /\ wire' = wire
  BY DEF serverVars, OldWire, OldTransfer

(* A new operation has read nothing.                                        *)
LEMMA BeginReads ==
  ASSUME Inv, ReadInv, NEW kind \in Kinds, NEW again \in BOOLEAN, Begin(kind, again)
  PROVE  ReadInv'
  <1> DEFINE before == IF again THEN ops[Len(ops)].local ELSE <<>>
             o == [kind |-> kind, before |-> before, local |-> before,
                   size |-> 0, want |-> <<>>, stored |-> FALSE, told |-> ""]
  <1>1. /\ ops \in Seq(Operation) /\ cur = 0 /\ awaited = 0
        /\ ops' = Append(ops, o) /\ cur' = Len(ops) + 1 /\ plan' = Plan(kind)
        /\ UNCHANGED <<awaited, contextVars, dataVars, jobVars, serverVars, faultVars>>
    BY Busy DEF Begin, Free, Inv, TypeOK, CallsOK
  <1>2. o.kind = kind /\ o.local = o.before /\ o.want = <<>> /\ o.told = ""
    BY DEF o
  <1> HIDE DEF o, before
  <1>3. ops' \in Seq(Operation)
    BY BeginKeeps DEF Inv, TypeOK, CallsOK
  <1>4. /\ Len(ops) \in Nat /\ DOMAIN ops = 1 .. Len(ops) /\ DOMAIN ops' = 1 .. Len(ops) + 1
        /\ ops'[Len(ops) + 1] = o
        /\ \A i \in 1 .. Len(ops) : ops'[i] = ops[i]
    BY <1>1, <1>3
  <1>5. /\ Planned(plan') /\ plan'[1] \notin Transfers
        /\ kind \in {"read", "load"} => HasRead(plan')
        /\ plan' \in Seq(Steps) /\ plan' # <<>>
    BY <1>1, PlanPlanned, PlanTyped DEF Plans
  <1>6. Step' \notin Transfers
    BY <1>5, Rests DEF Step
  <1>7. Fits' /\ Owned' /\ Ready'
    BY <1>1, <1>6 DEF Fits, Owned, Ready
  <1>8. Order'
    BY <1>1, SameJobs, SameServer, OrderKept DEF ReadInv, Leaves, contextVars, dataVars
  <1>9. Progress'
    BY <1>1, <1>2, <1>4, <1>5 DEF Progress, Reading
  <1>10. ReadComplete'
    <2> SUFFICES ASSUME NEW i \in DOMAIN ops', Ok(i, {"read", "load"})'
                 PROVE  \/ ops'[i].local = ops'[i].before \o ops'[i].want
                        \/ Len(ops'[i].want) > ops'[i].size
      BY DEF ReadComplete
    <2>1. i # Len(ops) + 1
      BY <1>2, <1>4 DEF Ok
    <2>2. i \in DOMAIN ops /\ ops'[i] = ops[i]
      BY <1>4, <2>1
    <2> QED BY <2>2 DEF ReadInv, ReadComplete, Ok
  <1> QED BY <1>5, <1>7, <1>8, <1>9, <1>10 DEF ReadInv

(* A new connection, or the one there is.                                   *)
LEMMA EnsureReads ==
  ASSUME Inv, ReadInv, Ensure
  PROVE  ReadInv'
  <1> DEFINE t == Tail(plan)
  <1>1. /\ awaited = 0 /\ Step = "ENSURE" /\ cur # 0
        /\ UNCHANGED <<ops, cur, awaited, handles, resolver, cache, errInfo, jobVars>>
        /\ \/ /\ plan' = Login \o t /\ data' = 0 /\ pipe' = <<>> /\ task' = NoTask
              /\ wire' = <<>> /\ xfer' = NoTransfer
           \/ plan' = t /\ UNCHANGED <<task, data, pipe, wire, xfer>>
    BY Busy DEF Ensure
  <1>2. plan[1] = "ENSURE" /\ Planned(plan) /\ plan \in Seq(Steps) /\ plan # <<>>
    BY <1>1, Working DEF ReadInv
  <1>3. t \in Seq(Steps) /\ t # <<>>
    <2>1. CallsOK /\ Head(plan) \notin Transfers
      BY <1>2, Rests DEF Inv, TypeOK, Transfers
    <2> QED BY <1>1, <1>2, <2>1, Rests, NextStep
  <1>4. Planned(t) /\ (HasRead(plan) <=> HasRead(t)) /\ t[1] \notin Transfers
    BY <1>2, <1>3, PlannedTail
  <1>5. /\ Planned(plan') /\ (HasRead(plan') <=> HasRead(plan))
        /\ plan' \in Seq(Steps) /\ plan' # <<>> /\ plan'[1] \notin Transfers
    BY <1>1, <1>3, <1>4, LoginPlanned DEF Transfers
  <1>6. Step' \notin Transfers
    BY <1>5, Rests DEF Step
  <1>7. Fits' /\ Owned' /\ Ready'
    BY <1>1, <1>6 DEF Fits, Owned, Ready
  <1>8. Order'
    BY <1>1, SameJobs, OrderKept DEF ReadInv, Leaves, OldWire, OldTransfer
  <1>9. Progress'
    BY <1>1, <1>5 DEF ReadInv, Progress, Reading, Good
  <1>10. ReadComplete'
    BY <1>1 DEF ReadInv, ReadComplete, Ok
  <1> QED BY <1>5, <1>7, <1>8, <1>9, <1>10 DEF ReadInv

(* What follows from a new number: nobody has it yet.                       *)
LEMMA NewNumber ==
  ASSUME Inv, ReadInv
  PROVE  /\ handles + 1 \in Nat \ {0} /\ xfer.id # handles + 1 /\ xfer.socket < handles + 1
         /\ data < handles + 1
         /\ \A p \in pollers : p.id # handles + 1
         /\ \A l \in loops : l.id # handles + 1
         /\ \A k \in 1 .. Len(wire) : wire[k].id < handles + 1
  <1>1. /\ handles \in Nat /\ xfer.id \in Nat /\ xfer.socket \in Nat /\ data \in Nat
        /\ (\A p \in pollers : p.id \in Nat) /\ (\A l \in loops : l.id \in Nat)
    BY Typed
  <1>2. \A k \in 1 .. Len(wire) : wire[k].id \in Nat
    <2>1. \A k \in 1 .. Len(wire) : wire[k] \in Replies
      BY Typed
    <2> QED BY <2>1 DEF Replies
  <1> QED BY <1>1, <1>2 DEF ReadInv, Order, Bounded, Numbered

(* The download begins: nothing is on the way but what the server sends.    *)
LEMMA StreamStarts ==
  ASSUME Inv, ReadInv, awaited = 0, Step = "RETR", UNCHANGED <<cur, cache, pipe, pollers>>,
         awaited' = handles + 1,
         ops'[cur].local = ops[cur].local, ops'[cur].before = ops[cur].before,
         ops'[cur].want \in Seq(Chunk), Todo' \in {<<>>, ops'[cur].want},
         client'.state = "open" => ~resolver'.done
  PROVE  Stream(ops[cur])'
  <1>1. cur # 0 /\ HasRead(plan)
    <2>1. cur # 0
      BY Busy
    <2>2. Len(plan) \in Nat \ {0} /\ plan[1] = "RETR"
      BY <2>1, Working
    <2>3. 1 \in 1 .. Len(plan)
      BY <2>2
    <2> QED BY <2>1, <2>2, <2>3 DEF HasRead
  <1>2. ops[cur].local = ops[cur].before /\ cache = <<>> /\ pipe = <<>>
    BY <1>1 DEF ReadInv, Progress, Reading, Ready, Transfers
  <1> DEFINE s == ops[cur].local
             w == ops'[cur].want
  <1>3. s \in Seq(Chunk) /\ w \in Seq(Chunk) /\ Len(s) \in Nat /\ Len(w) \in Nat
    BY <1>1, Working, Lengths
  <1> HIDE DEF s, w
  <1>4. Rest' \in {<<>>, w}
    BY <1>2, <1>3 DEF Rest, w
  <1>5. Within(s \o Rest', s \o w)
    <2>1. s \o <<>> = s /\ Len(s \o w) = Len(s) + Len(w) /\ (Len(w) = 0 => w = <<>>)
      BY <1>3, EmptySeq
    <2> QED BY <1>3, <1>4, <2>1 DEF Within
  <1>6. \A p \in pollers' : p.id # awaited'
    BY NewNumber
  <1> QED BY <1>2, <1>3, <1>5, <1>6 DEF Stream, s, w

(* The server notes what an operation asks for.                             *)
LEMMA Noted ==
  ASSUME Inv, cur # 0, NEW v,
         ops' = [ops EXCEPT ![cur].want = v] \/ ops' = [ops EXCEPT ![cur].size = v] \/ ops' = ops
  PROVE  /\ DOMAIN ops' = DOMAIN ops
         /\ \A i \in DOMAIN ops :
              /\ ops'[i].kind = ops[i].kind /\ ops'[i].told = ops[i].told
              /\ ops'[i].local = ops[i].local /\ ops'[i].before = ops[i].before
              /\ ops'[i].stored = ops[i].stored
              /\ i # cur => ops'[i] = ops[i]
         /\ ops' = [ops EXCEPT ![cur].want = v] => ops'[cur].want = v
         /\ ops' = [ops EXCEPT ![cur].size = v] => ops'[cur].want = ops[cur].want
  <1>1. cur \in DOMAIN ops /\ ops[cur] \in Operation /\ CallsOK
    BY Working DEF Inv, TypeOK
  <1>2. ops \in Seq(Operation)
    BY <1>1 DEF CallsOK
  <1>3. ops' = [ops EXCEPT ![cur].want = v] => ops'[cur].want = v
    BY <1>1, <1>2 DEF Operation
  <1>4. ops' = [ops EXCEPT ![cur].size = v] => ops'[cur].want = ops[cur].want
    BY <1>1, <1>2 DEF Operation
  <1>5. /\ DOMAIN ops' = DOMAIN ops
        /\ \A i \in DOMAIN ops :
             /\ ops'[i].kind = ops[i].kind /\ ops'[i].told = ops[i].told
             /\ ops'[i].local = ops[i].local /\ ops'[i].before = ops[i].before
             /\ ops'[i].stored = ops[i].stored
             /\ i # cur => ops'[i] = ops[i]
    <2>1. CASE ops' = [ops EXCEPT ![cur].want = v]
      BY <1>1, <1>2, <2>1 DEF Operation
    <2>2. CASE ops' = [ops EXCEPT ![cur].size = v]
      BY <1>1, <1>2, <2>2 DEF Operation
    <2>3. CASE ops' = ops
      BY <2>3
    <2> QED BY <2>1, <2>2, <2>3
  <1> QED BY <1>3, <1>4, <1>5

(* What the server says of a transfer that was left opens nothing.          *)
LEMMA BeforeOrder ==
  ASSUME Inv, Order
  PROVE  /\ Before \in Seq(Replies) /\ Rising(Before) /\ Numbered(Before, handles)
         /\ Newer(Before, data) /\ Newer(Before, xfer.socket)
  <1>1. /\ handles \in Nat /\ data \in Nat /\ wire \in Seq(Replies)
        /\ xfer.id \in Nat /\ xfer.id <= handles /\ xfer.socket \in Nat
        /\ Rising(wire) /\ Numbered(wire, handles) /\ Newer(wire, data) /\ Newer(wire, xfer.socket)
    BY Typed DEF Order, Bounded, Fresh
  <1>2. CASE xfer = NoTransfer
    BY <1>1, <1>2, BeforeTyped
  <1>3. CASE xfer # NoTransfer
    <2>1. PICK code \in {"ok", "err"} : Before = Append(wire, Answer(xfer.id, xfer.cmd, code))
      BY <1>3, BeforeTyped
    <2> DEFINE r == Answer(xfer.id, xfer.cmd, code)
    <2>2. r \in Replies /\ r.id = xfer.id /\ ~Opens(r)
      <3>1. xfer.cmd \in Transfers \cup {""}
        BY TransferTyped
      <3> QED BY <1>1, <3>1 DEF Answer, Replies, Opens, Transfers
    <2>3. Before = Append(wire, r)
      BY <2>1
    <2> HIDE DEF r
    <2> QED BY <1>1, <2>2, <2>3, WireMore
  <1> QED BY <1>2, <1>3

(* The numbers after a command was sent.                                    *)
LEMMA SendsOrder ==
  ASSUME Inv, ReadInv, awaited = 0, handles' = handles + 1, awaited' = handles + 1,
         UNCHANGED <<jobVars, data, plan>>, Step \in Requests \cup Transfers,
         \/ UNCHANGED <<wire, xfer>>
         \/ Serves(handles + 1, Command) \/ Refuses(handles + 1, Command)
  PROVE  Order' /\ Owned'
  <1> DEFINE id == handles + 1
  <1>1. /\ handles \in Nat /\ data \in Nat /\ wire \in Seq(Replies) /\ xfer.id \in Nat
        /\ xfer.socket \in Nat /\ id \in Nat \ {0} /\ Command \in Requests \cup Transfers
        /\ handles <= id /\ id <= id
    <2>1. /\ handles \in Nat /\ data \in Nat /\ wire \in Seq(Replies) /\ xfer.id \in Nat
          /\ xfer.socket \in Nat
      BY Typed
    <2>2. Command \in Requests \cup Transfers
      BY Stepping
    <2>3. id \in Nat \ {0} /\ handles <= id /\ id <= id
      BY <2>1
    <2> QED BY <2>1, <2>2, <2>3
  <1>2. ASSUME NEW code \in {"ok", "mark", "more", "err"}, wire' = Append(Before, Answer(id, Command, code))
        PROVE  /\ Rising(wire') /\ Numbered(wire', id)
               /\ Newer(wire', data) /\ Newer(wire', xfer.socket)
    <2> DEFINE r == Answer(id, Command, code)
    <2>1. r \in Replies /\ r.id = id
      BY <1>1, <1>2 DEF Answer, Replies
    <2> HIDE DEF r
    <2>2. /\ Before \in Seq(Replies) /\ Rising(Before) /\ Numbered(Before, handles)
          /\ Newer(Before, data) /\ Newer(Before, xfer.socket)
      BY BeforeOrder DEF ReadInv
    <2>3. \A k \in 1 .. Len(Before) : Before[k].id < r.id
      <3> SUFFICES ASSUME NEW k \in 1 .. Len(Before) PROVE Before[k].id < r.id
        OBVIOUS
      <3>1. Before[k] \in Replies /\ Before[k].id <= handles
        BY <2>2 DEF Numbered
      <3>2. Before[k].id \in Nat
        BY <3>1 DEF Replies
      <3> QED BY <1>1, <2>1, <3>1, <3>2
    <2>4. r.id <= id /\ r.id > data /\ r.id > xfer.socket
      BY <1>1, <2>1, NewNumber
    <2>5. wire' = Append(Before, r)
      BY <1>2 DEF r
    <2>6. Numbered(Before, id)
      BY <1>1, <2>2, WireBounds
    <2> QED BY <1>1, <2>1, <2>2, <2>3, <2>4, <2>5, <2>6, WireMore
  <1>3. \/ UNCHANGED wire
        \/ \E code \in {"ok", "mark", "more", "err"} : wire' = Append(Before, Answer(id, Command, code))
    <2>1. CASE UNCHANGED <<wire, xfer>>
      BY <2>1
    <2>2. CASE Refuses(id, Command)
      BY <2>2 DEF Refuses
    <2>3. CASE Serves(id, Command)
      <3> DEFINE connected == data # 0 /\ data = listener /\ up
                 code == CASE Command = "USER" -> "more"
                           [] Command \in Transfers -> IF connected THEN "mark" ELSE "err"
                           [] OTHER -> "ok"
      <3>1. wire' = Append(Before, Answer(id, Command, code))
        BY <2>3 DEF Serves
      <3>2. code \in {"ok", "mark", "more", "err"}
        BY Zenon DEF Transfers
      <3> HIDE DEF code
      <3> QED BY <3>1, <3>2
    <2> QED BY <2>1, <2>2, <2>3
  <1>4. /\ Rising(wire') /\ Numbered(wire', id)
        /\ Newer(wire', data) /\ Newer(wire', xfer.socket)
    <2>1. CASE UNCHANGED wire
      BY <1>1, <2>1, WireBounds DEF ReadInv, Order, Fresh, Bounded
    <2> QED BY <1>2, <1>3, <2>1
  <1>5. \/ xfer' = xfer
        \/ xfer' = NoTransfer
        \/ /\ xfer'.id = id /\ xfer'.socket = data /\ data # 0 /\ Command \in Transfers
    <2>1. CASE Serves(id, Command)
      <3>1. /\ xfer' = NoTransfer
            \/ /\ Command \in Transfers /\ data # 0
               /\ xfer' = [op |-> cur, id |-> id, cmd |-> Command, socket |-> data, ended |-> FALSE,
                           todo |-> CASE Command = "RETR" -> remote
                                      [] Command = "LIST" -> Listing
                                      [] Command = "STOR" -> <<>>]
        BY <2>1 DEF Serves
      <3> QED BY <3>1
    <2> QED BY <2>1 DEF Refuses
  <1>6. Bounded'
    <2>1. \A n \in {xfer.id, xfer.socket, data, id, 0} : n <= id
      BY <1>1 DEF ReadInv, Order, Bounded
    <2>2. xfer'.id <= id /\ xfer'.socket <= id /\ data' <= id
      BY <1>5, <2>1, NoTransferIs
    <2>3. (\A p \in pollers' : p.id <= id) /\ (\A l \in loops' : l.id <= id)
      <3>1. \A n \in Nat : n <= handles => n <= id
        BY <1>1
      <3>2. /\ \A p \in pollers' : p.id \in Nat /\ p.id <= handles
            /\ \A l \in loops' : l.id \in Nat /\ l.id <= handles
        BY Typed DEF ReadInv, Order, Bounded, jobVars
      <3> HIDE DEF id
      <3> QED BY <3>1, <3>2
    <2> QED BY <1>4, <2>2, <2>3 DEF Bounded
  <1>7. Fresh'
    <2>1. wire' \in Seq(Replies)
      <3>1. CASE UNCHANGED wire
        BY <1>1, <3>1
      <3>2. CASE \E code \in {"ok", "mark", "more", "err"} : wire' = Append(Before, Answer(id, Command, code))
        <4>1. PICK code \in {"ok", "mark", "more", "err"} : wire' = Append(Before, Answer(id, Command, code))
          BY <3>2
        <4> QED BY <1>1, <4>1, BeforeTyped, AnswerTyped
      <3> QED BY <1>3, <3>1, <3>2
    <2>2. Newer(wire', 0)
      BY <1>1, <1>4, <2>1, WireBounds
    <2> QED BY <1>4, <1>5, <2>2, NoTransferIs DEF Fresh
  <1>8. Foreign'
    <2>1. CASE xfer' = xfer
      BY <1>1, <2>1 DEF ReadInv, Order, Foreign
    <2>2. CASE xfer'.id = id /\ xfer'.socket = data /\ data # 0
      BY <1>1, <2>2 DEF Foreign
    <2>3. CASE xfer' = NoTransfer
      BY <2>3, NoTransferIs DEF Foreign
    <2> QED BY <1>5, <2>1, <2>2, <2>3
  <1>9. Owned'
    <2>1. (\A p \in pollers' : p.id # awaited') /\ (\A l \in loops' : l.id # awaited')
      BY NewNumber DEF jobVars
    <2>2. xfer'.id = awaited' => Step' \in Transfers
      <3>1. xfer' = xfer => xfer'.id # awaited'
        BY NewNumber
      <3>2. Command \in Transfers => Step' \in Transfers
        BY DEF Command, Transfers, Step
      <3>3. xfer' = NoTransfer => xfer'.id # awaited'
        BY <1>1, NoTransferIs
      <3> QED BY <1>5, <3>1, <3>2, <3>3
    <2> QED BY <2>1, <2>2 DEF Owned
  <1> QED BY <1>5, <1>6, <1>7, <1>8, <1>9 DEF Order

(* A command is sent.                                                       *)
LEMMA SendsReads ==
  ASSUME Inv, ReadInv, awaited = 0, Step \in Requests \cup Transfers, handles' = handles + 1,
         Sends(handles + 1, Command), UNCHANGED <<jobVars, hit>>
  PROVE  ReadInv'
  <1> DEFINE id == handles + 1
  <1>1. /\ task' = [id |-> id, cmd |-> Command] /\ awaited' = id
        /\ UNCHANGED <<cur, plan, mode, data, cache, pipe, pollers>>
        /\ resolver' = IF Command \in Transfers THEN NoAnswers ELSE resolver
        /\ cur # 0 /\ id # 0 /\ Step' = Step
    BY Stepping, NewNumber DEF Sends, dataVars, jobVars, Step
  <1>2. \/ UNCHANGED <<ops, wire, xfer>>
        \/ Serves(id, Command)
        \/ Refuses(id, Command) /\ UNCHANGED ops /\ xfer' = NoTransfer
    BY DEF Sends, Refuses, serverVars
  <1>3. Order' /\ Owned'
    BY <1>1, <1>2, SendsOrder DEF jobVars
  <1>4. Fits'
    BY <1>1 DEF Fits, Command
  <1>5. Ready'
    BY <1>1 DEF Ready
  <1>6. /\ \/ ops' = ops
           \/ Command = "RETR" /\ ops' = [ops EXCEPT ![cur].want = remote]
           \/ Command = "SIZE" /\ ops' = [ops EXCEPT ![cur].size = Len(remote)]
        /\ Step = "RETR" <=> Command = "RETR"
        /\ Step = "SIZE" <=> Command = "SIZE"
    BY <1>2 DEF Serves, Command
  <1>7. /\ DOMAIN ops' = DOMAIN ops
        /\ \A i \in DOMAIN ops :
             /\ ops'[i].kind = ops[i].kind /\ ops'[i].told = ops[i].told
             /\ ops'[i].local = ops[i].local /\ ops'[i].before = ops[i].before
             /\ i # cur => ops'[i] = ops[i]
        /\ cur \in DOMAIN ops /\ ops[cur].told = ""
    BY <1>1, <1>6, Noted, Working
  <1>8. HasRead(plan) => ops[cur].local = ops[cur].before /\ ops[cur].want = <<>>
    BY <1>1 DEF ReadInv, Progress, Reading
  <1>9. (Step \in {"RETR", "SIZE"} => HasRead(plan)) /\ (Command # "RETR" => ops'[cur].want = ops[cur].want)
    <2>1. Len(plan) \in Nat \ {0} /\ Step = plan[1] /\ plan \in Seq(Steps) /\ plan # <<>>
      BY <1>1, Working
    <2>2. 1 \in 1 .. Len(plan)
      BY <2>1
    <2>3. Step = "SIZE" => HasRead(plan)
      BY <2>1, PlannedTail DEF ReadInv
    <2> QED BY <1>1, <1>6, <2>1, <2>2, <2>3, Noted DEF HasRead
  <1>10. Reading' => Stream(ops[cur])'
    <2> SUFFICES ASSUME Step = "RETR" PROVE Stream(ops[cur])'
      BY <1>1 DEF Reading
    <2>1. ops'[cur].want \in Seq(Chunk) /\ Todo' \in {<<>>, ops'[cur].want}
      <3>1. xfer.id # id /\ remote \in Seq(Chunk)
        BY NewNumber, Typed
      <3>2. CASE UNCHANGED ops /\ xfer' \in {xfer, NoTransfer}
        <4>1. ops'[cur].want \in Seq(Chunk)
          BY <1>1, <3>2, Working
        <4>2. Todo' = <<>>
          BY <1>1, <3>1, <3>2, NoTransferIs DEF Todo
        <4> QED BY <4>1, <4>2
      <3>3. CASE Serves(id, Command)
        <4>1. Command = "RETR"
          BY <1>6
        <4>2. ops' = [ops EXCEPT ![cur].want = remote]
          BY <3>3, <4>1 DEF Serves
        <4>3. ops'[cur].want = remote
          BY <1>1, <4>2, Noted
        <4>4. xfer' = NoTransfer \/ (xfer'.id = id /\ xfer'.todo = remote)
          BY <3>3, <4>1 DEF Serves, Transfers
        <4> QED BY <1>1, <3>1, <4>3, <4>4, NoTransferIs DEF Todo
      <3> QED BY <1>2, <3>2, <3>3
    <2>2. ~resolver'.done
      BY <1>1, <1>6 DEF NoAnswers, Transfers
    <2> QED BY <1>1, <1>7, <2>1, <2>2, StreamStarts
  <1>11. Progress'
    <2>1. HasRead(plan') /\ ~Reading' => ops'[cur'].local = ops'[cur'].before /\ ops'[cur'].want = <<>>
      BY <1>1, <1>6, <1>7, <1>8, <1>9 DEF Reading
    <2>2. ~HasRead(plan') /\ ops'[cur'].kind \in {"read", "load"} => Good(ops'[cur'])
      BY <1>1, <1>6, <1>7, <1>9 DEF ReadInv, Progress
    <2> QED BY <1>10, <2>1, <2>2 DEF Progress, Good
  <1>12. ReadComplete'
    BY <1>7 DEF ReadInv, ReadComplete, Ok
  <1> QED BY <1>1, <1>3, <1>4, <1>5, <1>11, <1>12 DEF ReadInv

(* A command to a closed context: the step fails, or waits for what never   *)
(* comes.                                                                   *)
LEMMA SendsClosedReads ==
  ASSUME Inv, ReadInv, awaited = 0, Step \in Requests \cup Transfers, handles' = handles + 1,
         SendsClosed(handles + 1, Command), UNCHANGED <<jobVars, hit>>
  PROVE  ReadInv'
  <1> DEFINE id == handles + 1
  <1>1. /\ client' = AfterFailure(Closing(client))
        /\ client.state \in {"closing", "closed"} \/ task # NoTask
        /\ UNCHANGED <<resolver, cache, pipe, serverVars, pollers>> /\ data' \in {0, data}
        /\ cur # 0 /\ id # 0 /\ OldJobs /\ OldWire /\ OldTransfer
    BY Stepping, NewNumber, SameJobs, SameServer DEF SendsClosed, jobVars
  <1>2. CASE Fails
    <2>1. awaited' = 0
      BY <1>1, <1>2, FailsReads
    <2>2. 0 # xfer.id \/ xfer.todo = <<>>
      BY DEF ReadInv, Order, Foreign
    <2>3. Order'
      BY <1>1, <2>1, OrderKept DEF ReadInv, Leaves
    <2> QED BY <1>1, <1>2, <2>3, Quits
  <1>3. CASE /\ Command \in Transfers /\ task' = [id |-> id, cmd |-> Command] /\ awaited' = id
             /\ UNCHANGED <<data, ops, cur, plan>>
    <2>1. Order' /\ Owned' /\ Step' = Step
      BY <1>1, <1>3, SendsOrder DEF serverVars, Step
    <2>2. Fits' /\ Ready'
      BY <1>1, <1>3, <2>1 DEF Fits, Command, Ready
    <2>3. client'.state # "open"
      <3>1. client \in [gen : Nat, state : States]
        BY DEF Inv, TypeOK, ContextOK
      <3> QED BY <1>1, <3>1 DEF Closing, AfterFailure
    <2>4. Reading' => Stream(ops[cur])'
      <3> SUFFICES ASSUME Step = "RETR" PROVE Stream(ops[cur])'
        BY <2>1 DEF Reading
      <3>1. Todo' = <<>>
        BY <1>1, <1>3, NewNumber DEF Todo, serverVars
      <3>2. ops[cur].want \in Seq(Chunk)
        BY <1>1, Working
      <3> QED BY <1>1, <1>3, <2>3, <3>1, <3>2, StreamStarts
    <2>5. Progress'
      BY <1>3, <2>1, <2>4 DEF ReadInv, Progress, Reading, Good
    <2>6. ReadComplete'
      BY <1>3 DEF ReadInv, ReadComplete, Ok
    <2> QED BY <1>3, <2>1, <2>2, <2>5, <2>6 DEF ReadInv
  <1> QED BY <1>2, <1>3 DEF SendsClosed

(* A step of the plan starts its task.                                      *)
LEMMA HandleReads ==
  ASSUME Inv, ReadInv, Handle
  PROVE  ReadInv'
  <1>1. awaited = 0 /\ Step \in Requests \cup Transfers /\ UNCHANGED <<jobVars, hit>> /\ cur # 0
    BY Stepping DEF Handle
  <1>2. CASE handles' = handles + 1 /\ Sends(handles + 1, Command)
    BY <1>1, <1>2, SendsReads
  <1>3. CASE handles' = handles + 1 /\ SendsClosed(handles + 1, Command)
    BY <1>1, <1>3, SendsClosedReads
  <1>4. CASE Fails /\ handles' \in {handles, handles + 1} /\ UNCHANGED <<data, serverVars>>
    <2>1. awaited' = 0
      BY <1>1, <1>4, FailsReads
    <2>2. Order'
      BY <1>1, <1>4, <2>1, SameJobs, SameServer, OrderKept DEF ReadInv, Leaves
    <2> QED BY <1>1, <1>4, <2>2, Quits
  <1>5. handles' = handles + 1 /\ SendsDead(handles + 1, Command) => Fails /\ UNCHANGED <<data, serverVars>>
    BY DEF SendsDead, dataVars
  <1>6. SendsNothing(Command) => Fails /\ handles' = handles /\ UNCHANGED <<data, serverVars>>
    BY DEF SendsNothing, dataVars, contextVars
  <1> QED BY <1>2, <1>3, <1>4, <1>5, <1>6 DEF Handle

-----------------------------------------------------------------------------
(* The answers of the server.                                               *)

(* The step a task that is waited for belongs to.                           *)
LEMMA Fitting ==
  ASSUME Inv, ReadInv, task # NoTask, awaited = task.id
  PROVE  /\ awaited # 0 /\ cur # 0 /\ task.id \in Nat \ {0} /\ task.id <= handles
         /\ task.cmd \in Requests => Step \notin Transfers /\ ~Reading /\ xfer.id # awaited
         /\ task.cmd \in Transfers => Step = task.cmd
  <1>1. /\ task.id # 0 /\ task.id \in 0 .. handles /\ handles \in Nat
    BY DEF Inv, TypeOK, ContextOK, CallsOK
  <1>2. task.id \in Nat \ {0} /\ task.id <= handles
    BY <1>1
  <1>3. task.cmd = Step \/ (Step = "EPSV" /\ task.cmd = "PASV")
    BY <1>1 DEF ReadInv, Fits
  <1>4. task.cmd \in Requests => Step \notin Transfers
    BY <1>3 DEF Requests, Access, Transfers
  <1>5. task.cmd \in Transfers => Step = task.cmd
    BY <1>3 DEF Transfers
  <1>6. task.cmd \in Requests => ~Reading /\ xfer.id # awaited
    BY <1>1, <1>4 DEF ReadInv, Owned, Reading, Transfers
  <1> QED BY <1>1, <1>2, <1>4, <1>5, <1>6, Busy

(* Nothing but an answer that nobody wants.                                 *)
LEMMA DropsReads ==
  ASSUME Inv, ReadInv, wire # <<>>, wire' = Tail(wire), handles' = handles,
         UNCHANGED <<callVars, task, client, resolver, dataVars, jobVars, xfer>>
  PROVE  ReadInv'
  <1>1. awaited' = awaited /\ UNCHANGED <<data, cache, pipe>>
    BY DEF callVars, dataVars
  <1>2. OldJobs /\ OldPollers /\ OldWire /\ OldTransfer
    BY SameJobs DEF OldWire, OldTransfer
  <1>3. Order'
    BY <1>1, <1>2, OrderKept DEF ReadInv, Leaves
  <1>4. Less(cache', cache) /\ Less(pipe', pipe) /\ cache' \in Seq(Chunk) /\ pipe' \in Seq(Chunk)
    BY <1>1, Typed, NothingLess
  <1>5. Less(Todo', Todo) /\ xfer'.todo \in Seq(Chunk) /\ xfer'.id \in {0, xfer.id}
    BY <1>1, TodoLess
  <1>6. Reading /\ client'.state = "open" /\ resolver'.done => Good(ops[cur])
    BY StillGood
  <1> QED BY <1>2, <1>3, <1>4, <1>5, <1>6, Idles

(* The answer to a request.                                                 *)
LEMMA AnsweredReads ==
  ASSUME Inv, ReadInv, wire # <<>>, client.state = "open", task # NoTask, task.cmd \in Requests,
         Answered(Head(wire)), UNCHANGED <<handles, listener, xfer, remote, hit>>
  PROVE  ReadInv'
  <1> DEFINE r == Head(wire)
  <1>1. awaited = task.id /\ UNCHANGED <<resolver, jobVars>>
    BY DEF Answered
  <1>2. /\ awaited # 0 /\ cur # 0 /\ Step \notin Transfers /\ ~Reading /\ xfer.id # awaited
        /\ task.id \in Nat /\ task.id <= handles
    BY <1>1, Fitting
  <1>3. /\ OldJobs /\ OldPollers /\ OldTransfer
        /\ r \in Replies /\ r = wire[1] /\ Tail(wire) \in Seq(Replies) /\ wire \in Seq(Replies)
    BY <1>1, SameJobs, WireTail, Typed DEF OldTransfer
  <1>4. CASE \E code \in {"ok", "err"} :
               /\ wire' = Append(Tail(wire), Answer(task.id, "PASS", code))
               /\ UNCHANGED <<callVars, task, client, dataVars>>
    <2>1. PICK code \in {"ok", "err"} : wire' = Append(Tail(wire), Answer(task.id, "PASS", code))
      BY <1>4
    <2> DEFINE a == Answer(task.id, "PASS", code)
    <2>2. a \in Replies /\ a.id = task.id /\ ~Opens(a)
      BY <1>2 DEF Answer, Replies, Opens
    <2> HIDE DEF a
    <2>3. wire' = Append(Tail(wire), a) /\ awaited' = awaited /\ UNCHANGED <<data, cache, pipe>>
      BY <1>4, <2>1 DEF a, callVars, dataVars
    <2>4. Order'
      BY <1>2, <1>3, <2>2, <2>3, OrderSaid DEF ReadInv, Leaves
    <2>5. Less(cache', cache) /\ Less(pipe', pipe) /\ cache' \in Seq(Chunk) /\ pipe' \in Seq(Chunk)
      BY <2>3, Typed, NothingLess
    <2>6. Less(Todo', Todo) /\ xfer'.todo \in Seq(Chunk) /\ xfer'.id \in {0, xfer.id}
      BY <2>3, TodoLess
    <2> QED BY <1>2, <1>3, <1>4, <2>4, <2>5, <2>6, Idles
  <1>5. CASE wire' = Tail(wire) /\ (Fails \/ (Succeeds /\ Step \notin {"EPSV", "PASV"})) /\ data' = data
    <2>1. awaited' = 0
      <3>1. Step # "RETR"
        BY <1>2 DEF Transfers
      <3> QED BY <1>2, <1>5, <3>1, FailsReads, SucceedsReads
    <2>2. Order'
      BY <1>2, <1>3, <1>5, <2>1, OrderKept DEF ReadInv, Leaves, OldWire
    <2> QED BY <1>2, <1>5, <2>2, Quits DEF Transfers
  <1>6. CASE /\ wire' = Tail(wire) /\ Succeeds /\ Opens(r)
             /\ data' = r.id /\ cache' = <<>> /\ pipe' = <<>>
    <2>1. awaited' = 0
      BY <1>2, <1>6, SucceedsReads DEF Transfers
    <2>2. /\ Rising(Tail(wire)) /\ Newer(Tail(wire), r.id) /\ Newer(Tail(wire), xfer.socket)
          /\ Numbered(Tail(wire), handles) /\ r.id <= handles /\ xfer.socket < r.id
      <3>1. xfer.socket \in Nat /\ handles \in Nat
        BY Typed
      <3>2. 1 \in 1 .. Len(wire)
        BY <1>3
      <3>3. xfer.socket < r.id
        BY <1>3, <1>6, <3>1, <3>2 DEF ReadInv, Order, Fresh, Newer, Replies
      <3> QED BY <1>3, <1>6, <3>1, <3>3, WireTail DEF ReadInv, Order, Fresh, Bounded
    <2>3. Bounded'
      BY <1>1, <1>6, <2>2 DEF ReadInv, Order, Bounded, jobVars
    <2>4. Fresh'
      BY <1>6, <2>2 DEF Fresh
    <2>5. Foreign'
      <3>1. xfer.socket # r.id
        <4>1. xfer.socket \in Nat /\ r.id \in Nat
          BY <1>3, Typed DEF Replies
        <4> QED BY <2>2, <4>1
      <3> QED BY <1>6, <3>1 DEF ReadInv, Order, Foreign
    <2> QED BY <1>2, <1>6, <2>3, <2>4, <2>5, Quits DEF Order, Transfers
  <1>7. CASE task.cmd = "USER" /\ r.code = "more"
    BY <1>4, <1>7 DEF Answered
  <1>8. CASE ~(task.cmd = "USER" /\ r.code = "more")
    <2>1. wire' = Tail(wire)
      BY <1>8 DEF Answered
    <2>2. CASE ~Accepts(r)
      <3>1. Fails /\ UNCHANGED dataVars
        BY <1>8, <2>2 DEF Answered
      <3> QED BY <1>5, <2>1, <3>1 DEF dataVars
    <2>3. CASE Accepts(r) /\ task.cmd \in {"EPSV", "PASV"}
      <3>1. Connects(r.id)
        BY <1>8, <2>3 DEF Answered
      <3>2. Opens(r)
        BY <2>3 DEF Accepts, Opens
      <3>3. CASE Succeeds /\ data' = r.id /\ cache' = <<>> /\ pipe' = <<>>
        BY <1>6, <2>1, <3>2, <3>3
      <3>4. CASE Fails /\ data' = data
        BY <1>5, <2>1, <3>4
      <3> QED BY <3>1, <3>3, <3>4 DEF Connects
    <2>4. CASE Accepts(r) /\ task.cmd \notin {"EPSV", "PASV"}
      <3>1. Succeeds /\ data' = data
        BY <1>8, <2>4 DEF Answered, dataVars
      <3>2. Step \notin {"EPSV", "PASV"}
        BY <1>1, <1>2, <2>4 DEF ReadInv, Fits
      <3> QED BY <1>5, <2>1, <3>1, <3>2
    <2> QED BY <2>2, <2>3, <2>4
  <1> QED BY <1>7, <1>8

(* A poller or a loop more.                                                 *)
LEMMA StartsReads ==
  ASSUME Inv, ReadInv, wire # <<>>, client.state = "open", task # NoTask, task.cmd \in Transfers,
         awaited = task.id, Starts, wire' = Tail(wire), handles' = handles,
         UNCHANGED <<callVars, task, data, cache, pipe, xfer, client, resolver>>
  PROVE  ReadInv'
  <1>1. /\ awaited # 0 /\ cur # 0 /\ task.id \in Nat \ {0} /\ task.id <= handles
        /\ Step = task.cmd
    BY Fitting
  <1>2. /\ pollers' = pollers \/ (pollers' = pollers \cup {Poller} /\ task.cmd # "STOR")
        /\ loops' = loops \/ (loops' = loops \cup {Loop} /\ task.cmd = "STOR")
        /\ Poller.id = task.id /\ Loop.id = task.id /\ Poller.got = 0
        /\ task.cmd = "RETR" => Poller.size = ops[cur].size
    BY DEF Starts, Poller, Loop
  <1>3. UNCHANGED <<ops, cur, plan, awaited>> /\ Step' = Step /\ Reading' = Reading
    BY DEF callVars, Step, Reading
  <1>4. wire \in Seq(Replies) /\ handles \in Nat /\ data \in Nat /\ xfer.socket \in Nat
    BY Typed
  <1>5. Bounded' /\ Fresh'
    BY <1>1, <1>2, <1>4, WireTail DEF ReadInv, Order, Bounded, Fresh
  <1>6. Foreign'
    BY <1>3 DEF ReadInv, Order, Foreign
  <1>7. Owned'
    BY <1>1, <1>2, <1>3 DEF ReadInv, Owned, Transfers
  <1>8. Fits' /\ Ready'
    BY <1>3 DEF ReadInv, Fits, Ready
  <1>9. Todo' = Todo /\ Rest' = Rest
    BY <1>3 DEF Todo, Rest
  <1>10. Reading => Stream(ops[cur])'
    <2> SUFFICES ASSUME Reading PROVE Stream(ops[cur])'
      OBVIOUS
    <2>1. Stream(ops[cur]) /\ task.cmd = "RETR"
      BY <1>1 DEF ReadInv, Progress, Reading
    <2>2. Len(ops[cur].local) - Len(ops[cur].before) >= 0
      <3>1. ops[cur].local \in Seq(Chunk) /\ ops[cur].before \in Seq(Chunk)
        BY <1>1, Working
      <3>2. Len(ops[cur].local) \in Nat /\ Len(ops[cur].before) \in Nat
        BY <3>1, Lengths
      <3>3. Len(ops[cur].local) >= Len(ops[cur].before)
        BY <2>1 DEF Stream
      <3> QED BY <3>2, <3>3
    <2>3. \A p \in pollers' : p.id = awaited =>
            p.size = ops[cur].size /\ p.got <= Len(ops[cur].local) - Len(ops[cur].before)
      BY <1>2, <2>1, <2>2 DEF Stream
    <2> QED BY <1>3, <1>9, <2>1, <2>3 DEF Stream, Good
  <1>11. Progress' /\ ReadComplete'
    BY <1>3, <1>10 DEF ReadInv, Progress, Good, ReadComplete, Ok
  <1> QED BY <1>3, <1>5, <1>6, <1>7, <1>8, <1>11 DEF ReadInv, Order

(* An answer comes.                                                         *)
LEMMA ReceiveReads ==
  ASSUME Inv, ReadInv, Receive
  PROVE  ReadInv'
  <1>1. /\ wire # <<>> /\ client.state \in {"open", "dead"}
        /\ UNCHANGED <<handles, listener, xfer, remote, hit>>
    BY DEF Receive
  <1>2. CASE task = NoTask
    <2>1. /\ wire' = Tail(wire)
          /\ UNCHANGED <<callVars, task, client, resolver, dataVars, jobVars>>
      BY <1>2 DEF Receive, NoTask, Requests, Access, Transfers
    <2> QED BY <1>1, <2>1, DropsReads
  <1>3. CASE task # NoTask
    <2>1. /\ client.state = "open" /\ awaited = task.id /\ task.cmd \in Requests \cup Transfers
          /\ cur # 0 /\ task.id \in Nat \ {0}
      BY <1>1, <1>3, Awaited
    <2>2. CASE task.cmd \in Requests
      <3>1. Answered(Head(wire))
        BY <1>3, <2>2 DEF Receive, Requests, Access, Transfers
      <3> QED BY <1>1, <1>3, <2>1, <2>2, <3>1, AnsweredReads
    <2>3. CASE task.cmd \in Transfers
      <3>1. Transferred(Head(wire))
        BY <1>3, <2>3 DEF Receive, Requests, Access, Transfers
      <3>2. wire' = Tail(wire) /\ UNCHANGED <<client, mode, up, cache, errInfo, faults>>
        BY <3>1 DEF Transferred
      <3>3. Step \in Transfers /\ OldWire /\ awaited # 0
        BY <1>1, <1>3, <2>1, <2>3, <3>2, Fitting DEF OldWire
      <3>4. CASE OnErrorOf(task.id) /\ UNCHANGED <<resolver, jobVars>>
        BY <1>1, <2>1, <3>2, <3>3, <3>4, SameJobs, OnErrorReads
      <3>5. CASE Starts /\ UNCHANGED <<callVars, task, data, pipe, resolver>>
        BY <1>1, <1>3, <2>1, <2>3, <3>2, <3>5, StartsReads
      <3>6. CASE TryResolve([resolver EXCEPT !.answered = TRUE]) /\ UNCHANGED jobVars
        <4> DEFINE r == [resolver EXCEPT !.answered = TRUE]
        <4>1. r.done = resolver.done
          BY DEF Inv, TypeOK, ContextOK, Resolvers
        <4>2. TryResolve(r)
          BY <3>6
        <4> HIDE DEF r
        <4>3. Step = "RETR" /\ r.done => Good(ops[cur])
          BY <2>1, <3>3, <4>1 DEF ReadInv, Progress, Reading, Stream
        <4> QED BY <1>1, <2>1, <3>2, <3>3, <3>6, <4>2, <4>3, SameJobs, TryReads
      <3> QED BY <3>1, <3>4, <3>5, <3>6 DEF Transferred
    <2> QED BY <2>1, <2>2, <2>3
  <1> QED BY <1>2, <1>3

-----------------------------------------------------------------------------
(* The end of a connection, and the pollers and loops.                      *)

(* A step of the client, the network or the server in which at most numbers *)
(* and chunks go.                                                           *)
LEMMA LosesReads ==
  ASSUME Inv, ReadInv, UNCHANGED callVars, task' = NoTask \/ task' = task, handles' = handles,
         OldJobs, OldPollers, OldWire,
         xfer' = NoTransfer \/ xfer' = xfer,
         data' \in {0, data}, cache' = cache, pipe' \in {<<>>, pipe},
         client'.state = "open" => client.state = "open", resolver' = resolver
  PROVE  ReadInv'
  <1>1. awaited' = awaited /\ OldTransfer
    BY DEF callVars, OldTransfer
  <1>2. Order'
    BY <1>1, OrderKept DEF ReadInv, Leaves
  <1>3. Less(cache', cache) /\ Less(pipe', pipe) /\ cache' \in Seq(Chunk) /\ pipe' \in Seq(Chunk)
    BY Typed, NothingLess
  <1>4. Less(Todo', Todo) /\ xfer'.todo \in Seq(Chunk) /\ xfer'.id \in {0, xfer.id}
    BY <1>1, TodoLess
  <1>5. Reading /\ client'.state = "open" /\ resolver'.done => Good(ops[cur])
    BY StillGood
  <1> QED BY <1>2, <1>3, <1>4, <1>5, Idles

(* The client that closes is not open.                                      *)
LEMMA ClosingStays ==
  ASSUME Inv, client' = Closing(client) \/ client' = client
  PROVE  client'.state = "open" => client.state = "open"
  BY DEF Closing, Inv, TypeOK, ContextOK

(* 'close', a loss, a switch and a new file: nothing is read.               *)
LEMMA OutsideReads ==
  ASSUME Inv, ReadInv, ControlClosed \/ Lose \/ Switch \/ Resize \/ Drop
  PROVE  ReadInv'
  <1>1. CASE ControlClosed \/ Switch
    <2>1. /\ client' = Closing(client)
          /\ UNCHANGED <<callVars, task, handles, mode, resolver, dataVars, jobVars, serverVars>>
      BY <1>1 DEF ControlClosed, Switch
    <2> QED BY <2>1, ClosingStays, SameJobs, SameServer, LosesReads DEF dataVars
  <1>2. CASE Lose
    <2>1. /\ client.state = "open" /\ wire' = <<>> /\ xfer' = NoTransfer
          /\ UNCHANGED <<callVars, task, handles, mode, resolver, dataVars, jobVars>>
      BY <1>2 DEF Lose
    <2> QED BY <2>1, SameJobs, LosesReads DEF dataVars, OldWire
  <1>3. CASE Resize
    <2>1. UNCHANGED <<callVars, contextVars, dataVars, jobVars, wire, xfer>>
      BY <1>3 DEF Resize
    <2> QED BY <2>1, SameJobs, LosesReads DEF contextVars, dataVars, OldWire
  <1>4. CASE Drop
    <2>1. /\ pipe' = <<>>
          /\ UNCHANGED <<callVars, contextVars, data, cache, jobVars, serverVars>>
      BY <1>4 DEF Drop
    <2> QED BY <2>1, SameJobs, SameServer, LosesReads DEF contextVars
  <1> QED BY <1>1, <1>2, <1>3, <1>4

(* The sockets are closed, and the task gets the error.                     *)
LEMMA FinishCloseReads ==
  ASSUME Inv, ReadInv, FinishClose
  PROVE  ReadInv'
  <1>1. /\ task' = NoTask /\ data' = 0 /\ pipe' = <<>> /\ client.state = "closing"
        /\ UNCHANGED <<handles, resolver, cache, jobVars, serverVars>>
        /\ \/ Fails /\ task # NoTask /\ awaited = task.id
           \/ UNCHANGED callVars /\ client' = [client EXCEPT !.state = "closed"]
    BY DEF FinishClose
  <1>2. CASE Fails /\ task # NoTask /\ awaited = task.id
    <2>1. cur # 0
      BY <1>2, Fitting
    <2>2. awaited' = 0
      BY <1>2, <2>1, FailsReads
    <2>3. Order'
      BY <1>1, <2>2, SameJobs, SameServer, OrderKept DEF ReadInv, Leaves
    <2> QED BY <1>2, <2>1, <2>3, Quits
  <1>3. CASE UNCHANGED callVars /\ client' = [client EXCEPT !.state = "closed"]
    <2>1. client'.state # "open"
      BY <1>3 DEF Inv, TypeOK, ContextOK
    <2> QED BY <1>1, <1>3, <2>1, SameJobs, SameServer, LosesReads
  <1> QED BY <1>1, <1>2, <1>3

(* Chunks move on their way.                                                *)
LEMMA MovesReads ==
  ASSUME Inv, ReadInv, UNCHANGED <<callVars, contextVars, data, jobVars, wire>>,
         xfer'.id = xfer.id, xfer'.socket = xfer.socket, xfer'.todo # <<>> => xfer.todo # <<>>,
         Step \in Transfers /\ awaited = 0 => cache' = <<>> /\ pipe' = <<>>,
         Rest' = Rest
  PROVE  ReadInv'
  <1>1. /\ awaited' = awaited /\ OldTransfer /\ OldWire /\ OldJobs /\ OldPollers
        /\ handles' = handles /\ task' = task /\ client' = client /\ resolver' = resolver
    BY SameJobs DEF callVars, contextVars, OldTransfer, OldWire
  <1>2. Order'
    BY <1>1, OrderKept DEF ReadInv, Leaves
  <1>3. Rest' \in Seq(Chunk) /\ Less(Rest', Rest)
    BY Typed, NothingLess
  <1>4. Reading => Stream(ops[cur])'
    BY <1>1, <1>3, StillGood, StreamKept
  <1> QED BY <1>1, <1>2, <1>4, Waits

(* A chunk arrives.                                                         *)
LEMMA DeliverReads ==
  ASSUME Inv, ReadInv, Deliver
  PROVE  ReadInv' /\ Rest' = Rest
  <1>1. /\ pipe # <<>> /\ cache' = Append(cache, Head(pipe)) /\ pipe' = Tail(pipe)
        /\ UNCHANGED <<callVars, contextVars, data, jobVars, wire, xfer>>
    BY DEF Deliver, serverVars
  <1>2. cache' \o pipe' = cache \o pipe
    BY <1>1, Typed, Shifted
  <1>3. Todo' = Todo
    BY <1>1 DEF Todo, callVars
  <1>4. Rest' = Rest
    BY <1>2, <1>3 DEF Rest
  <1>5. ~(Step \in Transfers /\ awaited = 0)
    BY <1>1 DEF ReadInv, Ready
  <1> QED BY <1>1, <1>4, <1>5, MovesReads

(* The server sends a chunk: only the task that is waited for has a data    *)
(* connection.                                                              *)
LEMMA ChunkSent ==
  ASSUME Inv, ReadInv, ServerSends
  PROVE  /\ Rest' = Rest /\ awaited # 0 /\ xfer.id = awaited
         /\ xfer'.id = xfer.id /\ xfer'.socket = xfer.socket
         /\ xfer'.todo = Tail(xfer.todo) /\ Todo = xfer.todo /\ Todo' = Tail(xfer.todo)
  <1>1. /\ xfer.todo # <<>> /\ data = xfer.socket /\ pipe' = Append(pipe, Head(xfer.todo))
        /\ xfer' = [xfer EXCEPT !.todo = Tail(@)]
        /\ UNCHANGED <<callVars, contextVars, data, cache, jobVars, wire>>
    BY DEF ServerSends
  <1>2. xfer'.id = xfer.id /\ xfer'.socket = xfer.socket /\ xfer'.todo = Tail(xfer.todo)
    BY <1>1, Typed DEF Transferring
  <1>3. xfer.id = awaited /\ awaited # 0
    BY <1>1 DEF ReadInv, Order, Foreign
  <1>4. Todo = xfer.todo /\ Todo' = Tail(xfer.todo)
    BY <1>1, <1>2, <1>3 DEF Todo, callVars
  <1>5. Rest' = Rest
    <2>1. /\ cache \in Seq(Chunk) /\ pipe \in Seq(Chunk) /\ xfer.todo \in Seq(Chunk)
      BY Typed
    <2> DEFINE p == Append(pipe, Head(xfer.todo))
               t == Tail(xfer.todo)
    <2>2. p \in Seq(Chunk) /\ t \in Seq(Chunk) /\ p \o t = pipe \o xfer.todo
      BY <1>1, <2>1, Shifted
    <2>3. Rest' = cache \o p \o t /\ Rest = cache \o pipe \o xfer.todo
      BY <1>1, <1>4 DEF Rest
    <2> HIDE DEF p, t
    <2>4. cache \o p \o t = cache \o (p \o t)
      BY <2>1, <2>2, Thrice
    <2>5. cache \o pipe \o xfer.todo = cache \o (pipe \o xfer.todo)
      BY <2>1, Thrice
    <2> QED BY <2>2, <2>3, <2>4, <2>5
  <1> QED BY <1>2, <1>3, <1>4, <1>5

(* So nothing of what is on the way is lost.                                *)
LEMMA ServerSendsReads ==
  ASSUME Inv, ReadInv, ServerSends
  PROVE  ReadInv'
  <1>1. xfer.todo # <<>> /\ UNCHANGED <<callVars, contextVars, data, cache, jobVars, wire>>
    BY DEF ServerSends
  <1> QED BY <1>1, ChunkSent, MovesReads

(* The server gives a transfer up.                                          *)
LEMMA ServerGivesUpReads ==
  ASSUME Inv, ReadInv, ServerGivesUp
  PROVE  ReadInv'
  <1> DEFINE a == Answer(xfer.id, xfer.cmd, "err")
  <1>1. /\ wire' = Append(wire, a) /\ xfer' = NoTransfer
        /\ UNCHANGED <<callVars, contextVars, dataVars, jobVars>>
    BY DEF ServerGivesUp
  <1>2. a \in Replies /\ a.id = xfer.id /\ ~Opens(a) /\ xfer.id <= handles /\ wire \in Seq(Replies)
    BY TransferTyped, Typed DEF Answer, Replies, Opens, ReadInv, Order, Bounded
  <1> HIDE DEF a
  <1>3. /\ awaited' = awaited /\ handles' = handles /\ task' = task /\ resolver' = resolver
        /\ client' = client /\ UNCHANGED <<data, cache, pipe>>
        /\ OldJobs /\ OldPollers /\ OldTransfer
    BY <1>1, SameJobs DEF callVars, contextVars, dataVars, OldTransfer
  <1>4. Order'
    BY <1>1, <1>2, <1>3, OrderSaid DEF ReadInv, Leaves
  <1>5. Less(cache', cache) /\ Less(pipe', pipe) /\ cache' \in Seq(Chunk) /\ pipe' \in Seq(Chunk)
    BY <1>3, Typed, NothingLess
  <1>6. Less(Todo', Todo) /\ xfer'.todo \in Seq(Chunk) /\ xfer'.id \in {0, xfer.id}
    BY <1>1, <1>3, TodoLess
  <1>7. Reading /\ client'.state = "open" /\ resolver'.done => Good(ops[cur])
    BY <1>3, StillGood
  <1> QED BY <1>1, <1>3, <1>4, <1>5, <1>6, <1>7, Idles

(* The server confirms a transfer: that an upload was stored is no matter   *)
(* of what was read.                                                        *)
LEMMA ServerConfirmsReads ==
  ASSUME Inv, ReadInv, ServerConfirms
  PROVE  ReadInv'
  <1> DEFINE a == Answer(xfer.id, xfer.cmd, "ok")
  <1>1. /\ wire' = Append(wire, a) /\ xfer' = NoTransfer /\ xfer.todo = <<>>
        /\ ops' = ops \/ ops' = [ops EXCEPT ![xfer.op].stored = TRUE]
        /\ UNCHANGED <<cur, plan, awaited, contextVars, dataVars, jobVars>>
    BY DEF ServerConfirms
  <1>2. a \in Replies /\ a.id = xfer.id /\ ~Opens(a) /\ xfer.id <= handles /\ wire \in Seq(Replies)
    <2>1. a \in Replies
      BY TransferTyped DEF Answer, Replies
    <2>2. a.id = xfer.id /\ a.cmd = xfer.cmd
      BY DEF Answer
    <2>3. xfer.cmd \notin {"EPSV", "PASV"}
      BY TransferTyped DEF Transfers
    <2>4. xfer.id <= handles /\ wire \in Seq(Replies)
      BY Typed DEF ReadInv, Order, Bounded
    <2> HIDE DEF a
    <2> QED BY <2>1, <2>2, <2>3, <2>4 DEF Opens
  <1> HIDE DEF a
  <1>3. /\ DOMAIN ops' = DOMAIN ops
        /\ \A i \in DOMAIN ops :
             /\ ops'[i].kind = ops[i].kind /\ ops'[i].told = ops[i].told
             /\ ops'[i].local = ops[i].local /\ ops'[i].before = ops[i].before
             /\ ops'[i].want = ops[i].want /\ ops'[i].size = ops[i].size
    <2>1. \A i \in DOMAIN ops : ops[i] \in Operation
      <3>1. ops \in Seq(Operation)
        BY DEF Inv, TypeOK, CallsOK
      <3> QED BY <3>1
    <2>2. CASE ops' = ops
      BY <2>2
    <2>3. CASE ops' = [ops EXCEPT ![xfer.op].stored = TRUE]
      <3>1. DOMAIN ops' = DOMAIN ops
        BY <2>3
      <3>2. \A i \in DOMAIN ops : ops'[i] = IF i = xfer.op THEN [ops[i] EXCEPT !.stored = TRUE] ELSE ops[i]
        BY <2>3
      <3> QED BY <2>1, <3>1, <3>2 DEF Operation
    <2> QED BY <1>1, <2>2, <2>3
  <1>4. /\ handles' = handles /\ task' = task /\ resolver' = resolver
        /\ client' = client /\ UNCHANGED <<data, cache, pipe, pollers, loops>>
        /\ OldJobs /\ OldTransfer /\ Step' = Step /\ Reading' = Reading
    BY <1>1, SameJobs DEF contextVars, dataVars, jobVars, OldTransfer, Step, Reading
  <1>5. Order'
    BY <1>1, <1>2, <1>4, OrderSaid DEF ReadInv, Leaves
  <1>6. Todo' = Todo /\ Rest' = Rest
    <2>1. Todo' = Todo
      BY <1>1, NoTransferIs DEF Todo
    <2> QED BY <1>4, <2>1 DEF Rest
  <1>7. Fits' /\ Ready'
    BY <1>1, <1>4 DEF ReadInv, Fits, Ready
  <1>8. Owned'
    BY <1>1, <1>4, NoTransferIs DEF ReadInv, Owned
  <1>9. Progress'
    <2>1. cur # 0 => cur \in DOMAIN ops
      BY Working
    <2> QED BY <1>1, <1>3, <1>4, <1>6, <2>1 DEF ReadInv, Progress, Stream, Good
  <1>10. ReadComplete'
    BY <1>3 DEF ReadInv, ReadComplete, Ok
  <1> QED BY <1>1, <1>5, <1>7, <1>8, <1>9, <1>10 DEF ReadInv

-----------------------------------------------------------------------------
(* The pollers.                                                             *)

(* The interval of a poller ends, or counts.                                *)
LEMMA PollersFewer ==
  ASSUME Inv, NEW p \in pollers, UNCHANGED loops,
         \/ pollers' = pollers \ {p}
         \/ \E n : pollers' = (pollers \ {p}) \cup {[p EXCEPT !.idle = n]}
  PROVE  OldJobs /\ OldPollers
  <1>1. p \in Pollers
    BY DEF Inv, TypeOK, DataOK
  <1>2. CASE pollers' = pollers \ {p}
    BY <1>2 DEF OldJobs, OldPollers
  <1>3. CASE \E n : pollers' = (pollers \ {p}) \cup {[p EXCEPT !.idle = n]}
    <2>1. PICK n : pollers' = (pollers \ {p}) \cup {[p EXCEPT !.idle = n]}
      BY <1>3
    <2> DEFINE q == [p EXCEPT !.idle = n]
    <2>2. q.id = p.id /\ q.size = p.size /\ q.got = p.got
      BY <1>1 DEF Pollers
    <2> HIDE DEF q
    <2>3. pollers' = (pollers \ {p}) \cup {q}
      BY <2>1 DEF q
    <2> QED BY <2>2, <2>3 DEF OldJobs, OldPollers
  <1> QED BY <1>2, <1>3

(* It sees an error.                                                        *)
LEMMA PollErrorReads ==
  ASSUME Inv, ReadInv, NEW p \in pollers, PollError(p),
         UNCHANGED <<handles, mode, up, errInfo, loops, serverVars>>
  PROVE  ReadInv'
  <1>1. /\ pollers' = pollers \ {p} /\ UNCHANGED <<resolver, cache>>
        /\ p.id \in Nat \ {0}
    BY Typed DEF PollError
  <1>2. OldJobs /\ OldPollers /\ OldWire /\ xfer' = xfer
    BY <1>1, PollersFewer, SameServer
  <1>3. CASE OnErrorOf(p.id) /\ client' = Closing(client)
    BY <1>1, <1>2, <1>3, OnErrorReads
  <1>4. CASE UNCHANGED <<callVars, task, data, pipe, client>>
    BY <1>1, <1>2, <1>4, LosesReads
  <1> QED BY <1>3, <1>4 DEF PollError

(* It waits.                                                                *)
LEMMA PollWaitsReads ==
  ASSUME Inv, ReadInv, NEW p \in pollers, PollWaits(p),
         UNCHANGED <<handles, mode, up, errInfo, loops, serverVars>>
  PROVE  ReadInv'
  <1>1. UNCHANGED <<callVars, task, resolver, data, pipe, client, cache>>
    BY DEF PollWaits
  <1>2. \E n : pollers' = (pollers \ {p}) \cup {[p EXCEPT !.idle = n]}
    BY DEF PollWaits
  <1>3. OldJobs /\ OldPollers /\ OldWire /\ xfer' = xfer
    BY <1>2, PollersFewer, SameServer
  <1> QED BY <1>1, <1>3, LosesReads

(* When as many chunks came as SIZE said, no more than there were, and there *)
(* were no more than SIZE said, none is left.                               *)
LEMMA Counted ==
  ASSUME NEW local \in Nat, NEW before \in Nat, NEW want \in Nat, NEW rest \in Nat,
         NEW size \in Nat, NEW got \in Nat,
         got >= size, got <= local - before, local + rest <= before + want, want <= size
  PROVE  rest = 0 /\ local + rest = before + want
  OBVIOUS

(* A poller that has what SIZE said has got the file: no more chunks than   *)
(* those of the file came, and so many came to the local file.              *)
LEMMA EnoughIsGood ==
  ASSUME Inv, ReadInv, NEW p \in pollers, Alive(p), Reading, Enough(p)
  PROVE  Good(ops[cur])
  <1> DEFINE o == ops[cur]
  <1>1. cur # 0 /\ Stream(o)
    BY Busy DEF ReadInv, Progress, Reading
  <1>2. /\ o.local \in Seq(Chunk) /\ o.before \in Seq(Chunk) /\ o.want \in Seq(Chunk)
        /\ o.size \in Nat /\ Rest \in Seq(Chunk) /\ p.got \in Nat
    BY <1>1, Working, Typed
  <1> HIDE DEF o
  <1>3. /\ Len(o.local) >= Len(o.before) /\ Within(o.local \o Rest, o.before \o o.want)
        /\ p.size = o.size /\ p.got <= Len(o.local) - Len(o.before)
    BY <1>1 DEF Stream, Alive
  <1>4. /\ Len(o.local \o Rest) = Len(o.local) + Len(Rest)
        /\ Len(o.before \o o.want) = Len(o.before) + Len(o.want)
        /\ Len(o.local) \in Nat /\ Len(Rest) \in Nat /\ Len(o.before) \in Nat
        /\ Len(o.want) \in Nat
    BY <1>2, Lengths
  <1>5. p.got >= o.size
    BY <1>2, <1>3 DEF Enough
  <1>6. ASSUME Len(o.want) <= o.size PROVE o.local = o.before \o o.want
    <2>1. Len(o.local) + Len(Rest) <= Len(o.before) + Len(o.want)
      BY <1>3, <1>4 DEF Within
    <2>2. Len(Rest) = 0 /\ Len(o.local) + Len(Rest) = Len(o.before) + Len(o.want)
      <3> DEFINE l == Len(o.local)
                 b == Len(o.before)
                 w == Len(o.want)
                 n == Len(Rest)
                 z == o.size
                 g == p.got
      <3>1. l \in Nat /\ b \in Nat /\ w \in Nat /\ n \in Nat /\ z \in Nat /\ g \in Nat
        BY <1>2, <1>4
      <3>2. g >= z /\ g <= l - b /\ l + n <= b + w /\ w <= z
        BY <1>3, <1>5, <1>6, <2>1
      <3> HIDE DEF l, b, w, n, z, g
      <3>3. n = 0 /\ l + n = b + w
        BY <3>1, <3>2, Counted
      <3> QED BY <3>3 DEF l, b, w, n
    <2>3. o.local \o Rest = o.before \o o.want
      BY <1>3, <1>4, <2>2 DEF Within
    <2>4. Rest = <<>>
      BY <1>2, <2>2, EmptySeq
    <2>5. o.local \o <<>> = o.local
      BY <1>2
    <2> QED BY <2>3, <2>4, <2>5
  <1>7. Len(o.want) <= o.size \/ Len(o.want) > o.size
    BY <1>2, <1>4
  <1> QED BY <1>6, <1>7 DEF Good, o

(* It ends.                                                                 *)
LEMMA PollEndsReads ==
  ASSUME Inv, ReadInv, NEW p \in pollers, PollEnds(p),
         UNCHANGED <<handles, mode, up, errInfo, loops, serverVars>>
  PROVE  ReadInv'
  <1>1. /\ pollers' = pollers \ {p} /\ Enough(p) /\ DownloadDone(p)
        /\ UNCHANGED <<client, cache>> /\ p.id \in Nat \ {0}
    BY Typed DEF PollEnds
  <1>2. OldJobs /\ OldPollers /\ OldWire /\ xfer' = xfer
    BY <1>1, PollersFewer, SameServer
  <1>3. CASE Alive(p) /\ client.state = "open"
    <2> DEFINE r == [resolver EXCEPT !.done = TRUE, !.got = p.got]
    <2>1. TryResolve(r)
      BY <1>1, <1>3 DEF DownloadDone
    <2> HIDE DEF r
    <2>2. awaited # 0 /\ cur # 0 /\ Step \in Transfers
      BY <1>1, <1>3, Busy DEF Alive, ReadInv, Owned, Transfers
    <2>3. Step = "RETR" => Good(ops[cur])
      BY <1>1, <1>3, <2>2, EnoughIsGood DEF Reading
    <2> QED BY <1>1, <1>2, <2>1, <2>2, <2>3, TryReads
  <1>4. CASE ~(Alive(p) /\ client.state = "open")
    <2>1. UNCHANGED <<resolver, data, pipe, task, callVars>>
      BY <1>1, <1>4 DEF DownloadDone
    <2> QED BY <1>1, <1>2, <2>1, LosesReads
  <1> QED BY <1>3, <1>4

(* What is taken from what is on the way goes to what is there.             *)
LEMMA Regrouped ==
  ASSUME NEW s \in Seq(Chunk), NEW c \in Seq(Chunk), NEW k \in Seq(Chunk)
  PROVE  (s \o c) \o k = s \o (c \o k) /\ <<>> \o s = s /\ <<>> \o s \o c = s \o c
  OBVIOUS

(* The poller of the download takes the cache to the local file: what is in *)
(* the file and what is still on the way stay what they were together.      *)
LEMMA StreamTakes ==
  ASSUME Inv, ReadInv, Reading, NEW p \in pollers, Alive(p), cache # <<>>,
         UNCHANGED <<cur, plan, awaited, resolver, pipe, client, xfer>>, cache' = <<>>,
         pollers' = (pollers \ {p}) \cup {[p EXCEPT !.got = @ + Len(cache), !.idle = 0]},
         ops' = [ops EXCEPT ![cur].local = @ \o cache]
  PROVE  /\ Stream(ops[cur])' /\ DOMAIN ops' = DOMAIN ops
         /\ \A i \in DOMAIN ops : i # cur => ops'[i] = ops[i]
         /\ ops'[cur].told = "" /\ ops[cur].told = ""
  <1> DEFINE o == ops[cur]
             n == [o EXCEPT !.local = o.local \o cache]
             q == [p EXCEPT !.got = p.got + Len(cache), !.idle = 0]
             k == pipe \o Todo
  <1>1. cur # 0 /\ Stream(o) /\ CallsOK
    BY Busy DEF ReadInv, Progress, Reading, Inv, TypeOK
  <1>2. /\ cur \in DOMAIN ops /\ o \in Operation /\ o.told = ""
        /\ o.local \in Seq(Chunk) /\ o.before \in Seq(Chunk) /\ o.want \in Seq(Chunk)
        /\ cache \in Seq(Chunk) /\ pipe \in Seq(Chunk) /\ Todo \in Seq(Chunk) /\ p.got \in Nat
        /\ p \in Pollers
    BY <1>1, Working, Typed DEF Inv, TypeOK, DataOK
  <1>3. k \in Seq(Chunk) /\ Rest = cache \o k /\ Len(cache) \in Nat /\ Len(cache) # 0
    <2>1. Rest = cache \o k
      <3>1. cache \in Seq(Chunk) /\ pipe \in Seq(Chunk) /\ Todo \in Seq(Chunk)
        BY <1>2
      <3>2. (cache \o pipe) \o Todo = cache \o (pipe \o Todo)
        BY ONLY <3>1, Regrouped
      <3> QED BY <3>2 DEF Rest
    <2> QED BY <1>2, <2>1, Lengths, EmptySeq
  <1>4. o.local \o cache \in Seq(Chunk)
    BY <1>2, Lengths
  <1>5. /\ n \in Operation /\ n.local = o.local \o cache /\ n.before = o.before
        /\ n.want = o.want /\ n.size = o.size /\ n.told = o.told
    BY <1>2, <1>4 DEF Operation
  <1>6. q.id = p.id /\ q.size = p.size /\ q.got = p.got + Len(cache)
    BY <1>2 DEF Pollers
  <1>7. pollers' = (pollers \ {p}) \cup {q} /\ ops' = [ops EXCEPT ![cur] = n]
    OBVIOUS
  <1> HIDE DEF n, q
  <1>8. /\ DOMAIN ops' = DOMAIN ops /\ ops'[cur] = n
        /\ \A i \in DOMAIN ops : i # cur => ops'[i] = ops[i]
    BY <1>1, <1>2, <1>5, <1>7, Replaced
  <1> HIDE DEF o
  <1>9. /\ Len(o.local) >= Len(o.before) /\ Within(o.local \o Rest, o.before \o o.want)
        /\ \A r \in pollers : r.id = awaited =>
             r.size = o.size /\ r.got <= Len(o.local) - Len(o.before)
        /\ client.state = "open" /\ resolver.done => Good(o)
    BY <1>1 DEF Stream
  <1>10. /\ Len(o.local \o cache) = Len(o.local) + Len(cache)
         /\ Len(o.local) \in Nat /\ Len(o.before) \in Nat /\ Len(cache) \in Nat
    BY <1>2, Lengths
  <1>11. Len(n.local) >= Len(n.before)
    BY <1>3, <1>5, <1>9, <1>10
  <1>12. Rest' = k
    <2>1. Todo' = Todo
      BY DEF Todo
    <2>2. <<>> \o pipe \o Todo = k
      BY <1>2, Regrouped
    <2> QED BY <2>1, <2>2 DEF Rest
  <1> HIDE DEF k
  <1>13. n.local \o k = o.local \o Rest
    <2> DEFINE l == o.local
    <2>1. l \in Seq(Chunk) /\ cache \in Seq(Chunk) /\ k \in Seq(Chunk)
      BY <1>2, <1>3
    <2> HIDE DEF l
    <2>2. (l \o cache) \o k = l \o (cache \o k)
      BY ONLY <2>1, Regrouped
    <2> USE DEF l
    <2> QED BY <1>3, <1>5, <2>2
  <1>14. Within(n.local \o k, n.before \o n.want)
    BY <1>5, <1>9, <1>13
  <1>15. ASSUME NEW r \in pollers', r.id = awaited
         PROVE  r.size = n.size /\ r.got <= Len(n.local) - Len(n.before)
    <2>1. CASE r = q
      <3>1. p.size = o.size /\ p.got <= Len(o.local) - Len(o.before)
        BY <1>9 DEF Alive
      <3>2. r.got <= Len(o.local \o cache) - Len(o.before)
        <4> DEFINE l == Len(o.local)
                   b == Len(o.before)
                   c == Len(cache)
        <4>1. l \in Nat /\ b \in Nat /\ c \in Nat /\ p.got \in Nat /\ p.got <= l - b
          BY <1>2, <1>10, <3>1
        <4>2. Len(o.local \o cache) = l + c /\ r.got = p.got + c
          BY <1>6, <1>10, <2>1
        <4> HIDE DEF l, b, c
        <4>3. p.got + c <= (l + c) - b
          BY <4>1
        <4> QED BY <4>2, <4>3 DEF b
      <3> QED BY <1>5, <1>6, <2>1, <3>1, <3>2
    <2>2. CASE r \in pollers
      <3>1. r.size = o.size /\ r.got <= Len(o.local) - Len(o.before) /\ r.got \in Nat
        BY <1>9, <1>15, <2>2, Typed
      <3>2. r.got <= Len(o.local \o cache) - Len(o.before)
        <4> DEFINE l == Len(o.local)
                   b == Len(o.before)
                   c == Len(cache)
        <4>1. l \in Nat /\ b \in Nat /\ c \in Nat /\ r.got \in Nat /\ r.got <= l - b
          BY <1>10, <3>1
        <4>2. Len(o.local \o cache) = l + c
          BY <1>10
        <4> HIDE DEF l, b, c
        <4>3. r.got <= (l + c) - b
          BY <4>1
        <4> QED BY <4>2, <4>3 DEF b
      <3> QED BY <1>5, <3>1, <3>2
    <2> QED BY <1>7, <2>1, <2>2
  <1>16. client.state = "open" /\ resolver.done => Len(n.want) > n.size
    <2> SUFFICES ASSUME o.local = o.before \o o.want PROVE FALSE
      BY <1>5, <1>9 DEF Good
    <2>1. /\ Len(o.local \o Rest) = Len(o.local) + Len(Rest)
          /\ Len(Rest) = Len(cache) + Len(k) /\ Len(k) \in Nat
      BY <1>2, <1>3, Lengths, Typed
    <2>2. Len(o.local \o Rest) <= Len(o.local)
      BY <1>9 DEF Within
    <2> DEFINE l == Len(o.local)
               c == Len(cache)
               m == Len(k)
    <2>3. l + (c + m) <= l
      BY <2>1, <2>2
    <2>4. l \in Nat /\ c \in Nat /\ c # 0 /\ m \in Nat
      BY <1>3, <1>10, <2>1
    <2> HIDE DEF l, c, m
    <2> QED BY <2>3, <2>4
  <1>17. Stream(ops[cur])'
    BY <1>8, <1>11, <1>12, <1>14, <1>15, <1>16 DEF Stream, Good
  <1> QED BY <1>2, <1>5, <1>8, <1>17 DEF o

(* It takes what came: the whole cache, or a chunk for nobody.              *)
LEMMA PollTakesReads ==
  ASSUME Inv, ReadInv, NEW p \in pollers, PollTakes(p),
         UNCHANGED <<handles, mode, up, errInfo, loops, serverVars>>
  PROVE  ReadInv'
  <1> DEFINE taken == IF Alive(p) THEN cache ELSE <<Head(cache)>>
             q == [p EXCEPT !.got = p.got + Len(taken), !.idle = 0]
  <1>1. /\ UNCHANGED <<cur, plan, awaited, task, resolver, data, pipe, client>>
        /\ cache # <<>> /\ cache' = IF Alive(p) THEN <<>> ELSE Tail(cache)
        /\ pollers' = (pollers \ {p}) \cup {q}
        /\ ops' = IF Alive(p) /\ Step = "RETR"
                  THEN [ops EXCEPT ![cur].local = ops[cur].local \o taken] ELSE ops
    BY DEF PollTakes
  <1>2. q.id = p.id /\ p.id # 0
    <2>1. p \in Pollers
      BY DEF Inv, TypeOK, DataOK
    <2> QED BY <2>1 DEF Pollers
  <1>3. OldWire /\ OldTransfer /\ xfer' = xfer
    BY SameServer
  <1>4. OldJobs
    <2> HIDE DEF q
    <2> QED BY <1>1, <1>2 DEF OldJobs
  <1>5. Order'
    BY <1>1, <1>3, <1>4, OrderKept DEF ReadInv, Leaves
  <1>6. ~(Step \in Transfers /\ awaited = 0)
    BY <1>1 DEF ReadInv, Ready
  <1>7. CASE Alive(p) /\ Step = "RETR"
    <2>1. awaited # 0 /\ Reading /\ cur # 0 /\ Step' = Step
      BY <1>1, <1>2, <1>7, Busy DEF Alive, Reading, Step
    <2>2. /\ Stream(ops[cur])' /\ DOMAIN ops' = DOMAIN ops
          /\ \A i \in DOMAIN ops : i # cur => ops'[i] = ops[i]
          /\ ops'[cur].told = "" /\ ops[cur].told = ""
      BY <1>1, <1>3, <1>7, <2>1, StreamTakes
    <2>3. Fits' /\ Owned' /\ Ready'
      BY <1>1, <1>3, <1>4, <1>6, <2>1 DEF ReadInv, Fits, Owned, Ready, OldJobs
    <2>4. HasRead(plan)
      <3>1. Len(plan) \in Nat \ {0} /\ plan[1] = "RETR"
        BY <1>7, <2>1, Working
      <3>2. 1 \in 1 .. Len(plan)
        BY <3>1
      <3> QED BY <3>1, <3>2 DEF HasRead
    <2>5. Progress'
      BY <1>1, <2>1, <2>2, <2>4 DEF Progress, Reading
    <2>6. ReadComplete'
      BY <2>2 DEF ReadInv, ReadComplete, Ok
    <2> QED BY <1>1, <1>5, <2>3, <2>5, <2>6 DEF ReadInv
  <1>8. CASE Alive(p) /\ Step # "RETR"
    <2>1. UNCHANGED callVars /\ ~Reading
      BY <1>1, <1>8 DEF callVars, Reading
    <2> QED BY <1>1, <1>3, <1>4, <1>5, <1>6, <2>1, Waits
  <1>9. CASE ~Alive(p)
    <2>1. UNCHANGED callVars /\ cache' = Tail(cache)
      BY <1>1, <1>9 DEF callVars
    <2>2. OldPollers
      <3> HIDE DEF q
      <3> QED BY <1>1, <1>2, <1>9 DEF OldPollers, Alive
    <2>3. cache \in Seq(Chunk) /\ pipe \in Seq(Chunk) /\ Todo \in Seq(Chunk)
      BY Typed
    <2>4. Tail(cache) \in Seq(Chunk) /\ Len(Tail(cache)) < Len(cache)
      BY <1>1, <2>3, Shifted
    <2>5. Rest' = Tail(cache) \o pipe \o Todo
      BY <1>1, <1>3, <2>1 DEF Rest, Todo
    <2>6. Rest' \in Seq(Chunk) /\ Less(Rest', Rest)
      BY <2>3, <2>4, <2>5, Lengths, Lessened DEF Rest, Less
    <2>7. Reading => Stream(ops[cur])'
      BY <1>1, <2>1, <2>2, <2>6, StillGood, StreamKept
    <2> QED BY <1>1, <1>3, <1>4, <1>5, <1>6, <2>1, <2>7, Waits
  <1> QED BY <1>7, <1>8, <1>9

(* An interval of a download goes on.                                       *)
LEMMA PollReads ==
  ASSUME Inv, ReadInv, Poll
  PROVE  ReadInv'
  <1>1. UNCHANGED <<handles, mode, up, errInfo, loops, serverVars>>
    BY DEF Poll
  <1>2. PICK p \in pollers : PollError(p) \/ PollTakes(p) \/ PollWaits(p) \/ PollEnds(p)
    BY DEF Poll
  <1>3. CASE PollError(p)
    BY <1>1, <1>3, PollErrorReads
  <1>4. CASE PollTakes(p)
    BY <1>1, <1>4, PollTakesReads
  <1>5. CASE PollWaits(p)
    BY <1>1, <1>5, PollWaitsReads
  <1>6. CASE PollEnds(p)
    BY <1>1, <1>6, PollEndsReads
  <1> QED BY <1>2, <1>3, <1>4, <1>5, <1>6

-----------------------------------------------------------------------------
(* The loops.                                                               *)

(* A loop of an upload goes on: it has nothing to do with what is read.     *)
LEMMA SendReads ==
  ASSUME Inv, ReadInv, Send
  PROVE  ReadInv'
  <1>1. UNCHANGED <<handles, mode, cache, errInfo, pollers, wire, listener, faultVars>>
    BY DEF Send
  <1>2. PICK l \in loops : LoopSends(l) \/ LoopFails(l) \/ LoopEnds(l)
    BY DEF Send
  <1>3. l \in Loops /\ l.id \in Nat \ {0}
    BY Typed DEF Inv, TypeOK, DataOK
  <1>4. OldPollers /\ OldWire
    BY <1>1 DEF OldPollers, OldWire
  <1>5. CASE LoopSends(l)
    <2> DEFINE m == [l EXCEPT !.left = @ - 1]
    <2>1. loops' = (loops \ {l}) \cup {m} /\ UNCHANGED <<callVars, task, client, data, pipe, resolver, xfer>>
      BY <1>5 DEF LoopSends
    <2>2. m.id = l.id
      BY <1>3 DEF Loops
    <2> HIDE DEF m
    <2>3. OldJobs
      BY <1>1, <2>1, <2>2 DEF OldJobs
    <2> QED BY <1>1, <1>4, <2>1, <2>3, LosesReads
  <1>6. CASE LoopFails(l)
    <2>1. loops' = loops \ {l} /\ UNCHANGED <<resolver, xfer>>
      BY <1>6 DEF LoopFails
    <2>2. OldJobs
      BY <1>1, <2>1 DEF OldJobs
    <2>3. CASE OnErrorOf(l.id) /\ client' \in {client, Closing(client)}
      BY <1>1, <1>3, <1>4, <2>1, <2>2, <2>3, OnErrorReads
    <2>4. CASE UNCHANGED <<callVars, task, data, pipe, client>>
      BY <1>1, <1>4, <2>1, <2>2, <2>4, LosesReads
    <2> QED BY <1>6, <2>3, <2>4 DEF LoopFails
  <1>7. CASE LoopEnds(l)
    <2>1. /\ loops' = loops \ {l} /\ client' = client
          /\ xfer' = IF xfer.id = l.id THEN [xfer EXCEPT !.ended = TRUE] ELSE xfer
      BY <1>7 DEF LoopEnds
    <2>2. OldJobs
      BY <1>1, <2>1 DEF OldJobs
    <2>3. xfer' = xfer \/ (xfer'.id = xfer.id /\ xfer'.socket = xfer.socket /\ xfer'.todo = xfer.todo)
      BY <2>1, Typed DEF Transferring
    <2>4. CASE client.state = "open" /\ Alive(l)
      <3> DEFINE r == [resolver EXCEPT !.done = TRUE]
      <3>1. TryResolve(r)
        BY <1>7, <2>4 DEF LoopEnds
      <3> HIDE DEF r
      <3>2. awaited # 0 /\ cur # 0 /\ Step = "STOR"
        BY <1>3, <2>4, Busy DEF Alive, ReadInv, Owned
      <3>3. Step \in Transfers /\ Step # "RETR"
        BY <3>2 DEF Transfers
      <3> QED BY <1>1, <1>4, <2>2, <2>3, <3>1, <3>2, <3>3, TryReads
    <2>5. CASE ~(client.state = "open" /\ Alive(l))
      <3>1. OnErrorOf(l.id) /\ UNCHANGED resolver
        BY <1>7, <2>5 DEF LoopEnds
      <3> QED BY <1>1, <1>3, <1>4, <2>1, <2>2, <2>3, <3>1, OnErrorReads
    <2> QED BY <2>4, <2>5
  <1> QED BY <1>2, <1>5, <1>6, <1>7

-----------------------------------------------------------------------------
(* The specification.                                                       *)

(* Nothing is read at first.                                                *)
LEMMA NothingRead == Init => ReadInv
  <1> SUFFICES ASSUME Init PROVE ReadInv
    OBVIOUS
  <1>1. Planned(plan)
    BY DEF Init, Planned, Opening, SizeFirst, OneRead
  <1>2. Fits /\ Owned
    BY DEF Init, Fits, Owned
  <1>3. Order
    BY NoTransferIs DEF Init, Order, Bounded, Fresh, Foreign, Numbered, Rising, Newer
  <1>4. Ready /\ Progress /\ ReadComplete
    BY DEF Init, Ready, Progress, ReadComplete, Step
  <1> QED BY <1>1, <1>2, <1>3, <1>4 DEF ReadInv

(* Every step keeps the invariant.                                          *)
LEMMA NextReads ==
  ASSUME Inv, ReadInv, [Next]_vars
  PROVE  ReadInv'
  <1>1. CASE UNCHANGED vars
    <2>1. UNCHANGED <<callVars, contextVars, dataVars, jobVars, serverVars>>
      BY <1>1 DEF vars
    <2>2. UNCHANGED <<handles, task, client, resolver, data, cache, pipe, xfer, wire>>
      BY <2>1 DEF contextVars, dataVars, serverVars
    <2> QED BY <2>1, <2>2, SameJobs, SameServer, LosesReads
  <1>2. CASE \E kind \in Kinds, again \in BOOLEAN : Begin(kind, again)
    BY <1>2, BeginReads
  <1>3. CASE Program
    BY <1>3, EnsureReads, HandleReads, ReceiveReads, OutsideReads, FinishCloseReads DEF Program
  <1>4. CASE Poll
    BY <1>4, PollReads
  <1>5. CASE Send
    BY <1>5, SendReads
  <1>6. CASE Network
    BY <1>6, DeliverReads, ServerSendsReads, ServerConfirmsReads, ServerGivesUpReads
       DEF Network, ServerNotices
  <1>7. CASE Abort \/ Drop \/ Lose \/ Switch \/ Resize
    BY <1>7, OutsideReads, ServerGivesUpReads DEF Abort
  <1> QED BY <1>1, <1>2, <1>3, <1>4, <1>5, <1>6, <1>7 DEF Next

(* A read that is reported as done has added to the local file what the     *)
(* server had, all of it and in order, unless the file grew after SIZE: no  *)
(* chunk of another transfer, none lost to another poller, whatever faults  *)
(* there were.                                                              *)
THEOREM ReadsAreComplete == Spec => []ReadComplete
  <1>1. Init => Inv /\ ReadInv
    BY InitOK, NothingRead
  <1>2. Inv /\ ReadInv /\ [Next]_vars => Inv' /\ ReadInv'
    BY NextKeeps, NextReads
  <1>3. ReadInv => ReadComplete
    BY DEF ReadInv
  <1> QED BY <1>1, <1>2, <1>3, PTL DEF Spec
-----------------------------------------------------------------------------
(* Uploads.                                                                 *)

(* No answer in w says that a transfer begins, or that one is done; its     *)
(* last answer is a refusal; a refusal comes before any beginning.          *)
Unmarked(w) == \A k \in 1 .. Len(w) : w[k].code # "mark"
Unconfirmed(w) == \A k \in 1 .. Len(w) : w[k].code # "ok"
Refused(w) == w # <<>> /\ w[Len(w)].code = "err"
Failing(w) ==
  \E k \in 1 .. Len(w) : w[k].code = "err" /\ \A j \in 1 .. k : w[j].code # "mark"

(* After the answer that opens the data connection n no transfer begins.    *)
Unused(w, n) ==
  \A j, k \in 1 .. Len(w) : j < k /\ Opens(w[j]) /\ w[j].id = n => w[k].code # "mark"

(* A client is new until it connects.                                       *)
First == client.state = "new" => Step = "CONNECT" /\ awaited = 0

Live == client.state = "open"

(* While the client waits for the data connection, the server is in no      *)
(* transfer, and the last of its answers is the one that is waited for.     *)
Asked == Live /\ task.cmd \in {"EPSV", "PASV"} /\ awaited # 0 /\ awaited = task.id =>
  /\ xfer = NoTransfer /\ wire # <<>>
  /\ \/ Refused(wire)
     \/ Opens(wire[Len(wire)]) /\ wire[Len(wire)].id = listener

(* Before a transfer nothing is under way, or what ends in a refusal.       *)
Poised == Live /\ Step \in Transfers /\ awaited = 0 =>
  xfer = NoTransfer /\ Unmarked(wire) /\ (wire = <<>> \/ Refused(wire))

(* An upload under way: what confirms it is true, or it will fail, because  *)
(* it will be refused before its data is sent.                              *)
InSync ==
  /\ Unconfirmed(wire) \/ ops[cur].stored
  /\ resolver.answered => ops[cur].stored
  /\ xfer = NoTransfer \/ (xfer.id = awaited /\ xfer.op = cur /\ xfer.cmd = "STOR")
Doomed ==
  /\ ~resolver.done
  /\ \A l \in loops : l.id # awaited
  /\ task = NoTask \/ Failing(wire)
Writing == Live /\ Step = "STOR" /\ awaited # 0 => InSync \/ Doomed

(* An operation that has its upload behind it.                              *)
HasWrite(p) == \E i \in 1 .. Len(p) : p[i] = "STOR"
Written == cur # 0 /\ ops[cur].kind \in {"write", "save"} /\ ~HasWrite(plan) => ops[cur].stored

WriteInv ==
  /\ First /\ Unused(wire, listener) /\ Asked /\ Poised /\ Writing /\ Written
  /\ WriteConfirmed

(* The rest of a plan.                                                      *)
LEMMA WriteTail ==
  ASSUME NEW p \in Seq(Steps), p # <<>>
  PROVE  HasWrite(p) <=> p[1] = "STOR" \/ HasWrite(Tail(p))
  <1> DEFINE t == Tail(p)
  <1>1. /\ Len(p) \in Nat \ {0} /\ Len(t) = Len(p) - 1
        /\ \A i \in 1 .. Len(t) : t[i] = p[i + 1] /\ i + 1 \in 1 .. Len(p)
        /\ \A i \in 2 .. Len(p) : p[i] = t[i - 1] /\ i - 1 \in 1 .. Len(t)
    OBVIOUS
  <1> HIDE DEF t
  <1>2. ASSUME HasWrite(t) PROVE HasWrite(p)
    <2>1. PICK i \in 1 .. Len(t) : t[i] = "STOR"
      BY <1>2 DEF HasWrite
    <2>2. i + 1 \in 1 .. Len(p) /\ p[i + 1] = "STOR"
      BY <1>1, <2>1
    <2> QED BY <2>2 DEF HasWrite
  <1>3. ASSUME HasWrite(p), p[1] # "STOR" PROVE HasWrite(t)
    <2>1. PICK i \in 1 .. Len(p) : p[i] = "STOR"
      BY <1>3 DEF HasWrite
    <2>2. i - 1 \in 1 .. Len(t) /\ t[i - 1] = "STOR"
      BY <1>1, <1>3, <2>1
    <2> QED BY <2>2 DEF HasWrite
  <1>4. p[1] = "STOR" => HasWrite(p)
    BY <1>1 DEF HasWrite
  <1> QED BY <1>2, <1>3, <1>4 DEF t

(* One plan after the other.                                                *)
LEMMA WriteBoth ==
  ASSUME NEW s \in Seq(Steps), NEW t \in Seq(Steps)
  PROVE  HasWrite(s \o t) <=> HasWrite(s) \/ HasWrite(t)
  <1> DEFINE p == s \o t
             m == Len(s)
  <1>1. /\ m \in Nat /\ Len(t) \in Nat /\ Len(p) = m + Len(t)
        /\ \A i \in 1 .. m : p[i] = s[i] /\ i \in 1 .. Len(p)
        /\ \A i \in 1 .. Len(t) : p[m + i] = t[i] /\ m + i \in 1 .. Len(p)
    OBVIOUS
  <1>2. \A i \in 1 .. Len(p) : i \in 1 .. m \/ (i - m \in 1 .. Len(t) /\ p[i] = t[i - m])
    BY <1>1
  <1>3. m = Len(s)
    OBVIOUS
  <1> HIDE DEF p, m
  <1>4. HasWrite(s) => HasWrite(p)
    BY <1>1, <1>3 DEF HasWrite
  <1>5. HasWrite(t) => HasWrite(p)
    BY <1>1 DEF HasWrite
  <1>6. HasWrite(p) => HasWrite(s) \/ HasWrite(t)
    BY <1>1, <1>2, <1>3 DEF HasWrite
  <1> QED BY <1>4, <1>5, <1>6 DEF p

(* The uploads have one.                                                    *)
LEMMA PlanWrites ==
  ASSUME NEW kind \in Kinds, kind \in {"write", "save"}
  PROVE  HasWrite(Plan(kind))
  <1> DEFINE e == <<"ENSURE">>
  <1>1. {"ENSURE", "EPSV", "LIST", "STOR"} \subseteq Steps
    BY DEF Steps, Requests, Transfers
  <1>2. e \in Seq(Steps) /\ Upload \in Seq(Steps) /\ ListDir \in Seq(Steps)
    BY <1>1 DEF Upload, ListDir
  <1>3. HasWrite(Upload)
    <2>1. Len(Upload) = 2 /\ Upload[2] = "STOR"
      BY DEF Upload
    <2> QED BY <2>1 DEF HasWrite
  <1> HIDE DEF e
  <1>4. CASE kind = "write"
    BY <1>2, <1>3, <1>4, WriteBoth DEF Plan, e
  <1>5. CASE kind = "save"
    <2> DEFINE a == e \o ListDir
               b == a \o Upload
               c == b \o e
    <2>1. a \in Seq(Steps)
      BY <1>2
    <2> HIDE DEF a
    <2>2. b \in Seq(Steps) /\ HasWrite(b)
      BY <1>2, <1>3, <2>1, WriteBoth
    <2> HIDE DEF b
    <2>3. c \in Seq(Steps) /\ HasWrite(c)
      BY <1>2, <2>2, WriteBoth
    <2> HIDE DEF c
    <2>4. HasWrite(c \o ListDir)
      BY <1>2, <2>3, WriteBoth
    <2> QED BY <1>5, <2>4 DEF Plan, e, a, b, c
  <1> QED BY <1>4, <1>5

(* Without the first answer.                                                *)
LEMMA HeadGone ==
  ASSUME NEW w \in Seq(Replies), w # <<>>, NEW n \in Nat
  PROVE  /\ Unmarked(w) => Unmarked(Tail(w)) /\ w[1].code # "mark"
         /\ Unconfirmed(w) => Unconfirmed(Tail(w)) /\ w[1].code # "ok"
         /\ Refused(w) => Tail(w) = <<>> \/ Refused(Tail(w))
         /\ Refused(w) /\ w[1].code # "err" => Refused(Tail(w))
         /\ Failing(w) => w[1].code # "mark" /\ (w[1].code # "err" => Failing(Tail(w)))
         /\ Unused(w, n) => Unused(Tail(w), n)
         /\ Unused(w, n) /\ Opens(w[1]) /\ w[1].id = n => Unmarked(Tail(w))
  <1> DEFINE t == Tail(w)
  <1>1. /\ t \in Seq(Replies) /\ Len(w) \in Nat \ {0} /\ Len(t) = Len(w) - 1
        /\ \A i \in 1 .. Len(t) : t[i] = w[i + 1] /\ i + 1 \in 1 .. Len(w) /\ 1 < i + 1
        /\ \A i \in 2 .. Len(w) : w[i] = t[i - 1] /\ i - 1 \in 1 .. Len(t)
        /\ 1 \in 1 .. Len(w)
    OBVIOUS
  <1>2. t = <<>> <=> Len(w) = 1
    <2>1. t = <<>> <=> Len(t) = 0
      BY <1>1, EmptySeq
    <2> HIDE DEF t
    <2> QED BY <1>1, <2>1
  <1> HIDE DEF t
  <1>3. Unmarked(w) => Unmarked(t) /\ w[1].code # "mark"
    BY <1>1 DEF Unmarked
  <1>4. Unconfirmed(w) => Unconfirmed(t) /\ w[1].code # "ok"
    BY <1>1 DEF Unconfirmed
  <1>5. /\ Refused(w) => t = <<>> \/ Refused(t)
        /\ Refused(w) /\ w[1].code # "err" => Refused(t)
    <2>1. t # <<>> => Len(t) \in 1 .. Len(t) /\ Len(t) + 1 = Len(w)
      BY <1>1, <1>2
    <2>2. t # <<>> => t[Len(t)] = w[Len(w)]
      BY <1>1, <2>1
    <2> QED BY <1>2, <2>2 DEF Refused
  <1>6. ASSUME Failing(w) PROVE w[1].code # "mark" /\ (w[1].code # "err" => Failing(t))
    <2>1. PICK k \in 1 .. Len(w) : w[k].code = "err" /\ \A j \in 1 .. k : w[j].code # "mark"
      BY <1>6 DEF Failing
    <2>2. w[1].code # "mark"
      BY <1>1, <2>1
    <2>3. CASE k = 1
      BY <2>1, <2>2, <2>3
    <2>4. CASE k # 1
      <3>1. k - 1 \in 1 .. Len(t) /\ t[k - 1] = w[k]
        BY <1>1, <2>4
      <3>2. ASSUME NEW j \in 1 .. k - 1 PROVE t[j].code # "mark"
        <4>1. j \in 1 .. Len(t) /\ j + 1 \in 1 .. k
          BY <1>1, <3>1
        <4> QED BY <1>1, <2>1, <4>1
      <3> QED BY <2>1, <2>2, <3>1, <3>2 DEF Failing
    <2> QED BY <2>3, <2>4
  <1>7. Unused(w, n) => Unused(t, n)
    <2> SUFFICES ASSUME Unused(w, n), NEW j \in 1 .. Len(t), NEW k \in 1 .. Len(t), j < k,
                        Opens(t[j]), t[j].id = n
                 PROVE  t[k].code # "mark"
      BY DEF Unused
    <2>1. /\ j + 1 \in 1 .. Len(w) /\ k + 1 \in 1 .. Len(w) /\ j + 1 < k + 1
          /\ t[j] = w[j + 1] /\ t[k] = w[k + 1]
      BY <1>1
    <2> QED BY <2>1 DEF Unused
  <1>8. Unused(w, n) /\ Opens(w[1]) /\ w[1].id = n => Unmarked(t)
    BY <1>1 DEF Unused, Unmarked
  <1> QED BY <1>3, <1>4, <1>5, <1>6, <1>7, <1>8 DEF t

(* With another answer.                                                     *)
LEMMA OneAdded ==
  ASSUME NEW w \in Seq(Replies), NEW r \in Replies, NEW n \in Nat
  PROVE  LET t == Append(w, r)
         IN  /\ t # <<>> /\ t[Len(t)] = r
             /\ Unmarked(w) /\ r.code # "mark" => Unmarked(t)
             /\ Unconfirmed(w) /\ r.code # "ok" => Unconfirmed(t)
             /\ r.code = "err" => Refused(t)
             /\ Failing(w) => Failing(t)
             /\ Unmarked(w) /\ (Refused(w) \/ r.code = "err") => Failing(t)
             /\ Unused(w, n) /\ r.code # "mark" => Unused(t, n)
             /\ Newer(w, n) => Unused(t, n)
             /\ (\A k \in 1 .. Len(w) : w[k].id # n) => Unused(t, n)
  <1> DEFINE t == Append(w, r)
  <1>1. /\ t \in Seq(Replies) /\ Len(w) \in Nat /\ Len(t) = Len(w) + 1 /\ t[Len(w) + 1] = r
        /\ \A i \in 1 .. Len(w) : t[i] = w[i]
    BY Appended
  <1> HIDE DEF t
  <1>2. ASSUME NEW k \in 1 .. Len(t)
        PROVE  (k \in 1 .. Len(w) /\ t[k] = w[k]) \/ (k = Len(w) + 1 /\ t[k] = r)
    BY <1>1
  <1>3. t # <<>> /\ t[Len(t)] = r
    <2>1. Len(t) # 0
      BY <1>1
    <2> QED BY <1>1, <2>1, EmptySeq
  <1>4. Unmarked(w) /\ r.code # "mark" => Unmarked(t)
    BY <1>2 DEF Unmarked
  <1>5. Unconfirmed(w) /\ r.code # "ok" => Unconfirmed(t)
    BY <1>2 DEF Unconfirmed
  <1>6. r.code = "err" => Refused(t)
    BY <1>3 DEF Refused
  <1>7. Failing(w) => Failing(t)
    <2> SUFFICES ASSUME NEW k \in 1 .. Len(w), w[k].code = "err", \A j \in 1 .. k : w[j].code # "mark"
                 PROVE  Failing(t)
      BY DEF Failing
    <2>1. k \in 1 .. Len(t) /\ t[k] = w[k] /\ \A j \in 1 .. k : t[j] = w[j]
      BY <1>1
    <2> QED BY <2>1 DEF Failing
  <1>8. Unmarked(w) /\ Refused(w) => Failing(w)
    <2> SUFFICES ASSUME Unmarked(w), Refused(w) PROVE Failing(w)
      OBVIOUS
    <2>1. Len(w) # 0
      BY EmptySeq DEF Refused
    <2>2. Len(w) \in 1 .. Len(w) /\ \A j \in 1 .. Len(w) : w[j].code # "mark"
      BY <1>1, <2>1 DEF Unmarked
    <2> QED BY <2>2 DEF Failing, Refused
  <1>9. Unmarked(w) /\ r.code = "err" => Failing(t)
    <2> SUFFICES ASSUME Unmarked(w), r.code = "err" PROVE Failing(t)
      OBVIOUS
    <2>1. Unmarked(t) /\ Len(t) \in 1 .. Len(t) /\ t[Len(t)].code = "err"
      BY <1>1, <1>3, <1>4
    <2> QED BY <2>1 DEF Failing, Unmarked
  <1>10. Unused(w, n) /\ r.code # "mark" => Unused(t, n)
    BY <1>1, <1>2 DEF Unused
  <1>11. (\A k \in 1 .. Len(w) : Opens(w[k]) => w[k].id # n) => Unused(t, n)
    BY <1>1, <1>2 DEF Unused
  <1>12. Newer(w, n) => \A k \in 1 .. Len(w) : Opens(w[k]) => w[k].id # n
    <2> SUFFICES ASSUME Newer(w, n), NEW k \in 1 .. Len(w), Opens(w[k]) PROVE w[k].id # n
      OBVIOUS
    <2>1. w[k].id > n /\ w[k] \in Replies
      BY DEF Newer
    <2>2. w[k].id \in Nat
      BY <2>1 DEF Replies
    <2> QED BY <2>1, <2>2
  <1> QED BY <1>3, <1>4, <1>5, <1>6, <1>7, <1>8, <1>9, <1>10, <1>11, <1>12 DEF t

(* What a step leaves of the operations.                                    *)
OldOps ==
  /\ DOMAIN ops' = DOMAIN ops
  /\ \A i \in DOMAIN ops : /\ ops'[i].kind = ops[i].kind /\ ops'[i].told = ops[i].told
                           /\ ops[i].stored => ops'[i].stored

(* An operation that is over was confirmed, when it is told so.             *)
LEMMA OverWrites ==
  ASSUME Inv, WriteInv, cur # 0, NEW told \in {"ok", "failed", "missing"}, Over(told),
         told = "ok" /\ ops[cur].kind \in {"write", "save"} => ops[cur].stored
  PROVE  Written' /\ WriteConfirmed' /\ awaited' = 0 /\ Step' = ""
  <1>1. cur' = 0 /\ awaited' = 0 /\ Step' = ""
    BY DEF Over, Step
  <1>2. Written'
    BY <1>1 DEF Written
  <1>3. WriteConfirmed'
    <2> SUFFICES ASSUME NEW i \in DOMAIN ops', Ok(i, {"write", "save"})'
                 PROVE  ops'[i].stored
      BY DEF WriteConfirmed
    <2>1. i \in DOMAIN ops /\ ops[i].kind \in {"write", "save"} /\ ops'[i].told = "ok"
      BY Told1 DEF Ok
    <2>2. CASE i = cur
      BY <2>1, <2>2, Told1
    <2>3. CASE i # cur
      <3>1. Ok(i, {"write", "save"})
        BY <2>1, <2>3, Told1 DEF Ok
      <3> QED BY <2>1, <3>1, Told1 DEF WriteInv, WriteConfirmed
    <2> QED BY <2>2, <2>3
  <1> QED BY <1>1, <1>2, <1>3

(* A step that is left.                                                     *)
Left ==
  \/ Fails \/ Over("failed") \/ Over("missing")
  \/ Succeeds /\ (Step = "STOR" => ops[cur].stored)

(* And the one that follows it.                                             *)
LEMMA LeftWrites ==
  ASSUME Inv, ReadInv, WriteInv, cur # 0, Left
  PROVE  /\ Written' /\ WriteConfirmed' /\ awaited' = 0
         /\ \/ Fails \/ Over("failed") \/ Over("missing")
            \/ Step \notin {"EPSV", "PASV"}
            => Step' \notin Transfers
  <1> DEFINE t == Tail(plan)
  <1>1. /\ HasWrite(plan) <=> Step = "STOR" \/ HasWrite(t)
        /\ t # <<>> /\ t[1] \in Transfers => Step \in {"EPSV", "PASV"}
        /\ t \in Seq(Steps) /\ plan \in Seq(Steps) /\ plan # <<>>
    <2>1. plan \in Seq(Steps) /\ plan # <<>> /\ Step = plan[1] /\ Planned(plan)
      BY Working DEF ReadInv
    <2>2. t \in Seq(Steps)
      BY <2>1, Rests
    <2>3. HasWrite(plan) <=> plan[1] = "STOR" \/ HasWrite(t)
      BY <2>1, WriteTail
    <2>4. t # <<>> /\ t[1] \in Transfers => plan[1] \in {"EPSV", "PASV"}
      BY <2>1, PlannedTail
    <2> QED BY <2>1, <2>2, <2>3, <2>4
  <1>2. "" \notin Transfers /\ "PASV" \notin Transfers
    BY DEF Transfers
  <1>3. ASSUME Over("failed") \/ Over("missing")
        PROVE  Written' /\ WriteConfirmed' /\ awaited' = 0 /\ Step' \notin Transfers
    BY <1>2, <1>3, OverWrites
  <1>4. ASSUME Fails
        PROVE  Written' /\ WriteConfirmed' /\ awaited' = 0 /\ Step' \notin Transfers
    <2>1. CASE TriesNext
      <3>1. /\ plan' = <<"PASV">> \o t /\ awaited' = 0 /\ UNCHANGED <<ops, cur>>
            /\ Step = "EPSV"
        BY <1>4, <2>1 DEF Fails, TriesNext
      <3> DEFINE s == <<"PASV">>
      <3>2. s \in Seq(Steps) /\ Len(s) = 1 /\ s[1] = "PASV" /\ s # <<>>
        BY DEF Steps, Requests
      <3> HIDE DEF s, t
      <3>3. ~HasWrite(s)
        BY <3>2 DEF HasWrite
      <3>4. plan' = s \o t
        BY <3>1 DEF s
      <3>5. plan' \in Seq(Steps) /\ plan' # <<>> /\ plan'[1] = "PASV"
        BY <1>1, <3>2, <3>4, Joined
      <3>6. Step' = "PASV"
        BY <3>5, Rests DEF Step
      <3>7. HasWrite(plan') <=> HasWrite(plan)
        BY <1>1, <3>1, <3>2, <3>3, <3>4, WriteBoth
      <3>8. Written' /\ WriteConfirmed'
        BY <3>1, <3>7 DEF WriteInv, Written, WriteConfirmed, Ok
      <3> QED BY <1>2, <3>1, <3>6, <3>8
    <2>2. CASE ~TriesNext
      BY <1>2, <1>4, <2>2, OverWrites DEF Fails
    <2> QED BY <2>1, <2>2
  <1>5. ASSUME Succeeds, Step = "STOR" => ops[cur].stored
        PROVE  /\ Written' /\ WriteConfirmed' /\ awaited' = 0
               /\ Step \notin {"EPSV", "PASV"} => Step' \notin Transfers
    <2>1. ~HasWrite(t) /\ ops[cur].kind \in {"write", "save"} => ops[cur].stored
      BY <1>1, <1>5 DEF WriteInv, Written
    <2>2. CASE Len(plan) = 1
      <3>1. Over("ok")
        BY <1>5, <2>2 DEF Succeeds
      <3>2. ~HasWrite(t)
        <4>1. t = <<>>
          BY <1>1, <2>2, Rests
        <4>2. Len(t) = 0
          BY <1>1, <4>1, EmptySeq
        <4> QED BY <4>2 DEF HasWrite
      <3> QED BY <1>2, <2>1, <3>1, <3>2, OverWrites
    <2>3. CASE Len(plan) # 1
      <3>1. plan' = t /\ awaited' = 0 /\ UNCHANGED <<ops, cur>>
        BY <1>5, <2>3 DEF Succeeds
      <3>2. t # <<>> /\ Step' = t[1]
        <4>1. t # <<>> /\ Head(t) = t[1]
          BY <1>1, <2>3, Rests
        <4> QED BY <3>1, <4>1 DEF Step
      <3>3. Written' /\ WriteConfirmed'
        BY <2>1, <3>1 DEF WriteInv, Written, WriteConfirmed, Ok
      <3> QED BY <1>1, <1>5, <3>1, <3>2, <3>3
    <2> QED BY <2>2, <2>3
  <1> QED BY <1>3, <1>4, <1>5 DEF Left

(* So such a step keeps the invariant.                                      *)
LEMMA LeavesWrites ==
  ASSUME Inv, ReadInv, WriteInv, cur # 0, Left,
         Unused(wire', listener'), client'.state # "new",
         \/ Fails \/ Over("failed") \/ Over("missing")
         \/ Step \notin {"EPSV", "PASV"} \/ Poised'
  PROVE  WriteInv'
  <1>1. /\ Written' /\ WriteConfirmed' /\ awaited' = 0
        /\ Step' \notin Transfers \/ Poised'
    BY LeftWrites
  <1>2. First' /\ Asked' /\ Writing'
    BY <1>1 DEF First, Asked, Writing
  <1>3. Poised'
    BY <1>1 DEF Poised
  <1> QED BY <1>1, <1>2, <1>3 DEF WriteInv

(* The operations where the plan does not change.                           *)
LEMMA StaysWritten ==
  ASSUME Inv, WriteInv, UNCHANGED <<cur, plan>>, OldOps
  PROVE  Written' /\ WriteConfirmed' /\ Step' = Step
  <1>1. cur # 0 => cur \in DOMAIN ops
    BY Working
  <1>2. Written'
    BY <1>1 DEF WriteInv, Written, OldOps
  <1>3. WriteConfirmed'
    BY DEF WriteInv, WriteConfirmed, OldOps, Ok
  <1> QED BY <1>2, <1>3 DEF Step

(* The client does not open.                                                *)
OldClient ==
  /\ client'.state = "open" => client.state = "open"
  /\ client'.state = "new" => client.state = "new"

(* A step in which no answer is given or taken.                             *)
LEMMA WaitsWrites ==
  ASSUME Inv, WriteInv, UNCHANGED <<cur, plan, awaited, wire, listener>>, OldOps, OldClient,
         task' = NoTask \/ task' = task,
         xfer = NoTransfer => xfer' = NoTransfer,
         \/ xfer' = NoTransfer
         \/ xfer'.id = xfer.id /\ xfer'.op = xfer.op /\ xfer'.cmd = xfer.cmd,
         resolver'.answered = resolver.answered,
         Live /\ Step = "STOR" /\ awaited # 0 /\ Doomed => resolver'.done = resolver.done,
         \A l \in loops' : \E m \in loops : m.id = l.id
  PROVE  WriteInv'
  <1>1. Written' /\ WriteConfirmed' /\ Step' = Step /\ (Live' => Live)
    BY StaysWritten DEF Live, OldClient
  <1>2. First' /\ Unused(wire', listener')
    BY <1>1 DEF WriteInv, First, OldClient
  <1>3. Asked'
    <2>1. CASE task' = NoTask
      BY <2>1 DEF Asked, NoTask
    <2>2. CASE task' = task
      <3>1. Asked
        BY DEF WriteInv
      <3>2. Refused(wire') <=> Refused(wire)
        OBVIOUS
      <3> QED BY <1>1, <2>2, <3>1, <3>2 DEF Asked
    <2> QED BY <2>1, <2>2
  <1>4. Poised'
    BY <1>1 DEF WriteInv, Poised
  <1>5. Writing'
    <2> SUFFICES ASSUME Live, Step = "STOR", awaited # 0 PROVE InSync' \/ Doomed'
      BY <1>1 DEF Writing
    <2>1. cur \in DOMAIN ops /\ (ops[cur].stored => ops'[cur'].stored)
      BY Busy, Working DEF OldOps
    <2>2. InSync => InSync'
      BY <2>1 DEF InSync
    <2>3. Doomed => Doomed'
      BY DEF Doomed
    <2> QED BY <2>2, <2>3 DEF WriteInv, Writing
  <1> QED BY <1>1, <1>2, <1>3, <1>4, <1>5 DEF WriteInv

(* The server ends its transfer, and says how.                              *)
LEMMA SaysWrites ==
  ASSUME Inv, WriteInv, UNCHANGED <<cur, plan, awaited, listener, task, client, resolver, loops>>,
         OldOps, xfer # NoTransfer, xfer' = NoTransfer,
         NEW r \in Replies, wire' = Append(wire, r), r.code \in {"ok", "err"},
         r.code = "ok" /\ xfer.cmd = "STOR" /\ xfer.op \in DOMAIN ops => ops'[xfer.op].stored
  PROVE  WriteInv'
  <1>1. Written' /\ WriteConfirmed' /\ Step' = Step
    BY StaysWritten
  <1>2. wire \in Seq(Replies) /\ listener \in Nat
    BY Typed
  <1>3. First' /\ Unused(wire', listener')
    BY <1>1, <1>2, OneAdded DEF WriteInv, First
  <1>4. Asked' /\ Poised'
    BY <1>1 DEF WriteInv, Asked, Poised, Live
  <1>5. Writing'
    <2> SUFFICES ASSUME Live, Step = "STOR", awaited # 0 PROVE InSync' \/ Doomed'
      BY <1>1 DEF Writing, Live
    <2>1. cur \in DOMAIN ops /\ (ops[cur].stored => ops'[cur].stored)
      BY Busy, Working DEF OldOps
    <2>2. ASSUME InSync PROVE InSync'
      <3>1. xfer.op = cur /\ xfer.cmd = "STOR"
        BY <2>2 DEF InSync
      <3>2. CASE r.code = "ok"
        BY <2>1, <2>2, <3>1, <3>2 DEF InSync
      <3>3. CASE r.code = "err"
        <4>1. Unconfirmed(wire) => Unconfirmed(wire')
          BY <1>2, <3>3, OneAdded
        <4> QED BY <2>1, <2>2, <4>1 DEF InSync
      <3> QED BY <3>2, <3>3
    <2>3. ASSUME Doomed PROVE Doomed'
      <3>1. Failing(wire) => Failing(wire')
        BY <1>2, OneAdded
      <3> QED BY <2>3, <3>1 DEF Doomed
    <2> QED BY <2>2, <2>3 DEF WriteInv, Writing
  <1> QED BY <1>1, <1>3, <1>4, <1>5 DEF WriteInv

(* An answer that nobody waits for is dropped.                              *)
LEMMA DropsWrites ==
  ASSUME Inv, WriteInv, wire # <<>>, wire' = Tail(wire), task = NoTask, task' = NoTask,
         UNCHANGED <<callVars, client, resolver, loops, listener, xfer>>
  PROVE  WriteInv'
  <1>1. UNCHANGED <<ops, cur, plan, awaited>>
    BY DEF callVars
  <1>2. Written' /\ WriteConfirmed' /\ Step' = Step
    BY <1>1, StaysWritten DEF OldOps
  <1>3. wire \in Seq(Replies) /\ listener \in Nat
    BY Typed
  <1>4. First' /\ Unused(wire', listener')
    BY <1>1, <1>2, <1>3, HeadGone DEF WriteInv, First
  <1>5. Asked'
    BY DEF Asked, NoTask
  <1>6. Poised'
    BY <1>1, <1>2, <1>3, HeadGone DEF WriteInv, Poised, Live
  <1>7. Writing'
    <2>1. InSync => InSync'
      BY <1>1, <1>3, HeadGone DEF InSync
    <2>2. Doomed => Doomed'
      BY <1>1 DEF Doomed
    <2> QED BY <1>1, <1>2, <2>1, <2>2 DEF WriteInv, Writing, Live
  <1> QED BY <1>2, <1>4, <1>5, <1>6, <1>7 DEF WriteInv

(* A new operation has an upload before it, if it is one.                   *)
LEMMA BeginWrites ==
  ASSUME Inv, WriteInv, NEW kind \in Kinds, NEW again \in BOOLEAN, Begin(kind, again)
  PROVE  WriteInv' /\ Step' \notin Transfers
  <1> DEFINE before == IF again THEN ops[Len(ops)].local ELSE <<>>
             o == [kind |-> kind, before |-> before, local |-> before,
                   size |-> 0, want |-> <<>>, stored |-> FALSE, told |-> ""]
  <1>1. /\ ops \in Seq(Operation) /\ cur = 0 /\ awaited = 0
        /\ ops' = Append(ops, o) /\ cur' = Len(ops) + 1 /\ plan' = Plan(kind)
        /\ UNCHANGED <<awaited, contextVars, dataVars, jobVars, serverVars, faultVars>>
    BY Busy DEF Begin, Free, Inv, TypeOK, CallsOK
  <1>2. o.kind = kind /\ o.told = ""
    BY DEF o
  <1> HIDE DEF o, before
  <1>3. ops' \in Seq(Operation)
    BY BeginKeeps DEF Inv, TypeOK, CallsOK
  <1>4. /\ Len(ops) \in Nat /\ DOMAIN ops = 1 .. Len(ops) /\ DOMAIN ops' = 1 .. Len(ops) + 1
        /\ ops'[Len(ops) + 1] = o
        /\ \A i \in 1 .. Len(ops) : ops'[i] = ops[i]
    BY <1>1, <1>3
  <1>5. plan'[1] \notin Transfers /\ plan' \in Seq(Steps) /\ plan' # <<>>
    BY <1>1, PlanPlanned, PlanTyped DEF Plans
  <1>6. Step' \notin Transfers
    BY <1>5, Rests DEF Step
  <1>7. First'
    <2>1. client.state # "new"
      BY <1>1, Busy DEF WriteInv, First
    <2> QED BY <1>1, <2>1 DEF First, contextVars
  <1>8. Unused(wire', listener') /\ Asked' /\ Poised' /\ Writing'
    BY <1>1, <1>6 DEF WriteInv, serverVars, Asked, Poised, Writing
  <1>9. Written'
    BY <1>1, <1>2, <1>4, PlanWrites DEF Written
  <1>10. WriteConfirmed'
    <2> SUFFICES ASSUME NEW i \in DOMAIN ops', Ok(i, {"write", "save"})'
                 PROVE  ops'[i].stored
      BY DEF WriteConfirmed
    <2>1. i # Len(ops) + 1
      BY <1>2, <1>4 DEF Ok
    <2>2. i \in DOMAIN ops /\ ops'[i] = ops[i]
      BY <1>4, <2>1
    <2> QED BY <2>2 DEF WriteInv, WriteConfirmed, Ok
  <1> QED BY <1>6, <1>7, <1>8, <1>9, <1>10 DEF WriteInv

(* A new connection starts with CONNECT.                                    *)
LEMMA EnsureWrites ==
  ASSUME Inv, ReadInv, WriteInv, Ensure
  PROVE  WriteInv' /\ Step' \notin Transfers
  <1> DEFINE t == Tail(plan)
  <1>1. /\ awaited = 0 /\ Step = "ENSURE" /\ cur # 0
        /\ UNCHANGED <<ops, cur, awaited>>
        /\ \/ plan' = Login \o t /\ wire' = <<>>
           \/ plan' = t /\ client' = client /\ UNCHANGED <<wire, listener>>
    BY Busy DEF Ensure
  <1>2. plan[1] = "ENSURE" /\ Planned(plan) /\ plan \in Seq(Steps) /\ plan # <<>>
    BY <1>1, Working DEF ReadInv
  <1>3. t \in Seq(Steps) /\ t # <<>>
    <2>1. CallsOK /\ Head(plan) \notin Transfers
      BY <1>2, Rests DEF Inv, TypeOK, Transfers
    <2> QED BY <1>1, <1>2, <2>1, Rests, NextStep
  <1>4. Planned(t) /\ (HasWrite(plan) <=> HasWrite(t)) /\ t[1] \notin Transfers
    BY <1>2, <1>3, PlannedTail, WriteTail
  <1> HIDE DEF t
  <1>5. CASE plan' = Login \o t /\ wire' = <<>>
    <2>1. plan' \in Seq(Steps) /\ plan' # <<>> /\ plan'[1] = "CONNECT"
      BY <1>3, <1>4, <1>5, LoginPlanned
    <2>2. Step' = "CONNECT"
      BY <2>1, Rests DEF Step
    <2>3. HasWrite(plan') <=> HasWrite(plan)
      <3>1. Login \in Seq(Steps) /\ ~HasWrite(Login)
        <4>1. Len(Login) = 4 /\ Login[1] = "CONNECT" /\ Login[2] = "OPTS" /\ Login[3] = "USER"
              /\ Login[4] = "TYPE" /\ Login \in Seq(Steps)
          BY DEF Login, Steps, Requests, Access
        <4> QED BY <4>1 DEF HasWrite
      <3> QED BY <1>3, <1>4, <1>5, <3>1, WriteBoth
    <2>4. First' /\ Asked' /\ Writing' /\ Poised'
      BY <1>1, <2>2 DEF First, Asked, Writing, Poised, Transfers
    <2>5. Unused(wire', listener')
      <3>1. Len(<<>>) = 0
        OBVIOUS
      <3> QED BY <1>5, <3>1 DEF Unused
    <2>6. Written' /\ WriteConfirmed'
      BY <1>1, <2>3 DEF WriteInv, Written, WriteConfirmed, Ok
    <2> QED BY <2>2, <2>4, <2>5, <2>6 DEF WriteInv, Transfers
  <1>6. CASE plan' = t /\ client' = client /\ UNCHANGED <<wire, listener>>
    <2>1. Step' \notin Transfers
      BY <1>3, <1>4, <1>6, Rests DEF Step
    <2>2. First'
      BY <1>1, <1>6 DEF WriteInv, First
    <2>3. Asked' /\ Writing' /\ Poised' /\ Unused(wire', listener')
      BY <1>1, <1>6, <2>1 DEF WriteInv, Asked, Writing, Poised, Transfers
    <2>4. Written' /\ WriteConfirmed'
      BY <1>1, <1>4, <1>6 DEF WriteInv, Written, WriteConfirmed, Ok
    <2> QED BY <2>1, <2>2, <2>3, <2>4 DEF WriteInv
  <1> QED BY <1>1, <1>5, <1>6

(* What the server makes of a command.                                      *)
LEMMA Served ==
  ASSUME Inv, NEW id, Serves(id, Command), Step \in Requests \cup Transfers
  PROVE  \E code \in {"ok", "mark", "more", "err"} :
           /\ wire' = Append(Before, Answer(id, Command, code))
           /\ code = "mark" => data # 0 /\ data = listener
           /\ Command \in {"EPSV", "PASV"} =>
                code = "ok" /\ listener' = id /\ xfer' = NoTransfer
           /\ Command \notin {"EPSV", "PASV"} => listener' = listener
           /\ Command = "STOR" =>
                /\ code \in {"mark", "err"}
                /\ xfer' = NoTransfer \/ (xfer'.id = id /\ xfer'.op = cur /\ xfer'.cmd = "STOR")
  <1> DEFINE connected == data # 0 /\ data = listener /\ up
             code == CASE Command = "USER" -> "more"
                       [] Command \in Transfers -> IF connected THEN "mark" ELSE "err"
                       [] OTHER -> "ok"
  <1>1. wire' = Append(Before, Answer(id, Command, code))
    BY DEF Serves
  <1>2. code \in {"ok", "mark", "more", "err"}
    BY Zenon DEF Transfers
  <1>3. code = "mark" => data # 0 /\ data = listener
    BY DEF Transfers
  <1>4. Command \in {"EPSV", "PASV"} => code = "ok" /\ listener' = id /\ xfer' = NoTransfer
    BY DEF Serves, Transfers
  <1>5. Command \notin {"EPSV", "PASV"} => listener' = listener
    BY DEF Serves
  <1>6. Command = "STOR" => code \in {"mark", "err"}
    BY DEF Transfers
  <1>7. Command = "STOR" =>
          xfer' = NoTransfer \/ (xfer'.id = id /\ xfer'.op = cur /\ xfer'.cmd = "STOR")
    <2> SUFFICES ASSUME Command = "STOR", xfer' # NoTransfer
                 PROVE  xfer'.id = id /\ xfer'.op = cur /\ xfer'.cmd = "STOR"
      OBVIOUS
    <2>1. xfer' = [op |-> cur, id |-> id, cmd |-> Command, socket |-> data, ended |-> FALSE,
                   todo |-> CASE Command = "RETR" -> remote
                              [] Command = "LIST" -> Listing
                              [] Command = "STOR" -> <<>>]
      BY DEF Serves
    <2> QED BY <2>1
  <1> HIDE DEF code
  <1> QED BY <1>1, <1>2, <1>3, <1>4, <1>5, <1>6, <1>7

(* A command is sent.  An upload begins in step with the server, or behind  *)
(* a refusal.                                                               *)
LEMMA SendsWrites ==
  ASSUME Inv, ReadInv, WriteInv, awaited = 0, Step \in Requests \cup Transfers,
         handles' = handles + 1, Sends(handles + 1, Command), UNCHANGED <<jobVars, hit>>
  PROVE  WriteInv'
  <1> DEFINE id == handles + 1
  <1>1. /\ task' = [id |-> id, cmd |-> Command] /\ awaited' = id
        /\ UNCHANGED <<cur, plan, loops>>
        /\ resolver' = IF Command \in Transfers THEN NoAnswers ELSE resolver
        /\ client' = IF Command = "CONNECT" THEN [client EXCEPT !.state = "open"] ELSE client
        /\ client.state \in {"new", "open", "dead"}
        /\ cur # 0 /\ id \in Nat \ {0} /\ Step' = Step
    BY Stepping, NewNumber DEF Sends, Opened, jobVars, Step
  <1>2. \/ client.state = "dead" /\ UNCHANGED <<ops, wire, listener>>
        \/ Serves(id, Command)
        \/ Refuses(id, Command)
    BY DEF Sends, serverVars
  <1>3. OldOps
    <2>1. \/ ops' = ops \/ ops' = [ops EXCEPT ![cur].want = remote]
          \/ ops' = [ops EXCEPT ![cur].size = Len(remote)]
      BY <1>2 DEF Serves, Refuses
    <2> QED BY <1>1, <2>1, Noted DEF OldOps
  <1>4. Written' /\ WriteConfirmed'
    BY <1>1, <1>3, StaysWritten
  <1>5. Step = "CONNECT" <=> Command = "CONNECT"
    BY DEF Command
  <1>6. client'.state # "new" /\ (Command # "CONNECT" => client' = client /\ client.state # "new")
    <2>1. client \in [gen : Nat, state : States]
      BY DEF Inv, TypeOK, ContextOK
    <2> QED BY <1>1, <1>5, <2>1 DEF WriteInv, First
  <1>7. First' /\ Poised'
    BY <1>1, <1>6 DEF First, Poised
  <1>8. /\ Before \in Seq(Replies) /\ Numbered(Before, handles) /\ Newer(Before, data)
        /\ wire \in Seq(Replies) /\ listener \in Nat /\ data \in Nat /\ handles \in Nat
    BY BeforeOrder, Typed DEF ReadInv
  <1>9. \A k \in 1 .. Len(Before) : Before[k].id # id
    <2> SUFFICES ASSUME NEW k \in 1 .. Len(Before) PROVE Before[k].id # id
      OBVIOUS
    <2>1. Before[k] \in Replies /\ Before[k].id <= handles
      BY <1>8 DEF Numbered
    <2>2. Before[k].id \in Nat
      BY <2>1 DEF Replies
    <2> QED BY <1>8, <2>1, <2>2
  <1>10. Unused(Before, listener)
    <2>1. CASE xfer = NoTransfer
      BY <2>1, BeforeTyped DEF WriteInv
    <2>2. CASE xfer # NoTransfer
      <3>1. PICK code \in {"ok", "err"} : Before = Append(wire, Answer(xfer.id, xfer.cmd, code))
        BY <2>2, BeforeTyped
      <3> DEFINE r == Answer(xfer.id, xfer.cmd, code)
      <3>2. r \in Replies /\ r.code = code
        BY TransferTyped DEF Answer, Replies
      <3>3. Before = Append(wire, r)
        BY <3>1
      <3> HIDE DEF r
      <3> QED BY <1>8, <3>1, <3>2, <3>3, OneAdded DEF WriteInv
    <2> QED BY <2>1, <2>2
  <1>11. ASSUME NEW code \in {"ok", "mark", "more", "err"}
         PROVE  Answer(id, Command, code) \in Replies /\ Answer(id, Command, code).code = code
                /\ Answer(id, Command, code).id = id /\ Answer(id, Command, code).cmd = Command
    BY <1>1, Stepping DEF Answer, Replies
  <1>12. CASE client.state = "dead" /\ UNCHANGED <<ops, wire, listener>>
    <2>1. Unused(wire', listener')
      BY <1>12 DEF WriteInv
    <2>2. Asked' /\ Writing'
      BY <1>1, <1>5, <1>6, <1>12 DEF Asked, Writing, Live
    <2> QED BY <1>4, <1>7, <2>1, <2>2 DEF WriteInv
  <1>13. CASE Serves(id, Command) \/ Refuses(id, Command)
    <2>1. PICK code \in {"ok", "mark", "more", "err"} :
            /\ wire' = Append(Before, Answer(id, Command, code))
            /\ code = "mark" => data # 0 /\ data = listener
            /\ Command \in {"EPSV", "PASV"} =>
                 xfer' = NoTransfer /\ (code = "err" \/ (code = "ok" /\ listener' = id))
            /\ listener' = listener \/ (listener' = id /\ Command \in {"EPSV", "PASV"})
            /\ Command = "STOR" =>
                 /\ code \in {"mark", "err"}
                 /\ xfer' = NoTransfer \/ (xfer'.id = id /\ xfer'.op = cur /\ xfer'.cmd = "STOR")
      <3>1. CASE Serves(id, Command)
        BY <3>1, Served
      <3>2. CASE Refuses(id, Command)
        BY <3>2 DEF Refuses
      <3> QED BY <1>13, <3>1, <3>2
    <2> DEFINE r == Answer(id, Command, code)
    <2>2. r \in Replies /\ r.code = code /\ r.id = id /\ r.cmd = Command /\ wire' = Append(Before, r)
      BY <1>11, <2>1
    <2> HIDE DEF r
    <2>3. Unused(wire', listener')
      <3>1. CASE listener' = id
        BY <1>1, <1>8, <1>9, <2>2, <3>1, OneAdded
      <3>2. CASE listener' = listener /\ code = "mark"
        BY <1>8, <2>1, <2>2, <3>2, OneAdded
      <3>3. CASE listener' = listener /\ code # "mark"
        BY <1>8, <1>10, <2>2, <3>3, OneAdded
      <3> QED BY <2>1, <3>1, <3>2, <3>3
    <2>4. Asked'
      <3> SUFFICES ASSUME Command \in {"EPSV", "PASV"}
                   PROVE  /\ xfer' = NoTransfer /\ wire' # <<>>
                          /\ Refused(wire') \/ (Opens(wire'[Len(wire')]) /\ wire'[Len(wire')].id = listener')
        BY <1>1 DEF Asked
      <3>1. wire' # <<>> /\ wire'[Len(wire')] = r /\ (code = "err" => Refused(wire'))
        BY <1>8, <2>2, OneAdded
      <3>2. code = "ok" => Opens(r)
        BY <2>2 DEF Opens
      <3> QED BY <2>1, <2>2, <3>1, <3>2
    <2>5. Writing'
      <3> SUFFICES ASSUME Live', Step = "STOR" PROVE InSync' \/ Doomed'
        BY <1>1 DEF Writing
      <3>1. Command = "STOR" /\ Command # "CONNECT" /\ "STOR" \in Transfers
        BY DEF Command, Transfers
      <3>2. Live /\ xfer = NoTransfer /\ Unmarked(wire) /\ (wire = <<>> \/ Refused(wire))
        BY <1>6, <3>1 DEF Live, WriteInv, Poised
      <3>3. Before = wire /\ wire' = Append(wire, r) /\ code \in {"mark", "err"}
        BY <2>1, <2>2, <3>1, <3>2, BeforeTyped
      <3>4. ~resolver'.done /\ ~resolver'.answered
        BY <1>1, <3>1 DEF NoAnswers
      <3>5. CASE Refused(wire)
        <4>1. Failing(wire')
          BY <1>8, <2>2, <3>2, <3>3, <3>5, OneAdded
        <4>2. \A l \in loops' : l.id # awaited'
          BY <1>1, NewNumber
        <4> QED BY <3>4, <4>1, <4>2 DEF Doomed
      <3>6. CASE wire = <<>>
        <4>1. Unconfirmed(wire)
          <5>1. Len(wire) = 0
            BY <3>6
          <5> QED BY <5>1 DEF Unconfirmed
        <4>2. Unconfirmed(wire')
          BY <1>8, <2>2, <3>3, <4>1, OneAdded
        <4> QED BY <1>1, <2>1, <3>1, <3>4, <4>2 DEF InSync
      <3> QED BY <3>2, <3>5, <3>6
    <2> QED BY <1>4, <1>7, <2>3, <2>4, <2>5 DEF WriteInv
  <1> QED BY <1>2, <1>12, <1>13

(* The client after a failed step is not new, and closed when it closed.    *)
LEMMA ClientAfter ==
  ASSUME Inv, WriteInv
  PROVE  /\ Step # "CONNECT" => client.state # "new"
         /\ client.state # "new" =>
              /\ Closing(client).state \notin {"new", "open"}
              /\ AfterFailure(client).state # "new"
              /\ AfterFailure(Closing(client)).state \notin {"new", "open"}
              /\ AfterFailure([client EXCEPT !.state = "closed"]).state \notin {"new", "open"}
         /\ Step = "CONNECT" => AfterFailure(Closing(client)).state = "none"
  <1>1. client \in [gen : Nat, state : States]
    BY DEF Inv, TypeOK, ContextOK
  <1>2. Step # "CONNECT" => client.state # "new"
    BY DEF WriteInv, First
  <1> DEFINE c == Closing(client)
  <1>3. c \in [gen : Nat, state : States] /\ (client.state # "new" => c.state \notin {"new", "open"})
    BY <1>1 DEF Closing, States
  <1> HIDE DEF c
  <1>4. /\ client.state # "new" => AfterFailure(c).state \notin {"new", "open"}
        /\ Step = "CONNECT" => AfterFailure(c).state = "none"
    BY <1>3 DEF AfterFailure, States, Access
  <1>5. client.state # "new" => AfterFailure(client).state # "new"
    BY <1>1 DEF AfterFailure, States
  <1>6. AfterFailure([client EXCEPT !.state = "closed"]).state \notin {"new", "open"}
    BY <1>1 DEF AfterFailure, States
  <1> QED BY <1>2, <1>3, <1>4, <1>5, <1>6 DEF c

(* A step of the plan starts its task.                                      *)
LEMMA HandleWrites ==
  ASSUME Inv, ReadInv, WriteInv, Handle
  PROVE  WriteInv'
  <1>1. awaited = 0 /\ Step \in Requests \cup Transfers /\ UNCHANGED <<jobVars, hit>> /\ cur # 0
    BY Stepping DEF Handle
  <1>2. CASE handles' = handles + 1 /\ Sends(handles + 1, Command)
    BY <1>1, <1>2, SendsWrites
  <1>3. CASE Fails /\ UNCHANGED serverVars /\ client'.state # "new"
    <2>1. Unused(wire', listener')
      BY <1>3 DEF WriteInv, serverVars
    <2> QED BY <1>1, <1>3, <2>1, LeavesWrites DEF Left
  <1>4. CASE handles' = handles + 1 /\ SendsClosed(handles + 1, Command)
    <2>1. /\ client' = AfterFailure(Closing(client)) /\ UNCHANGED serverVars
          /\ \/ Fails
             \/ /\ Command \in Transfers /\ awaited' = handles + 1
                /\ UNCHANGED <<ops, cur, plan>>
      BY <1>4 DEF SendsClosed
    <2>2. CASE Fails
      <3>1. client'.state # "new"
        BY <2>1, ClientAfter
      <3> QED BY <1>3, <2>1, <2>2, <3>1
    <2>3. CASE /\ Command \in Transfers /\ awaited' = handles + 1
               /\ UNCHANGED <<ops, cur, plan>>
      <3>1. Step # "CONNECT"
        BY <2>3 DEF Command, Transfers
      <3>2. client'.state \notin {"new", "open"}
        BY <2>1, <3>1, ClientAfter
      <3>3. First' /\ Asked' /\ Poised' /\ Writing'
        BY <3>2 DEF First, Asked, Poised, Writing, Live
      <3>4. Written' /\ WriteConfirmed'
        BY <2>3, StaysWritten DEF OldOps
      <3>5. Unused(wire', listener')
        BY <2>1 DEF WriteInv, serverVars
      <3> QED BY <3>3, <3>4, <3>5 DEF WriteInv
    <2> QED BY <2>1, <2>2, <2>3
  <1>5. CASE handles' = handles + 1 /\ SendsDead(handles + 1, Command)
    <2>1. client.state = "dead" /\ client' = AfterFailure(client) /\ Fails /\ UNCHANGED serverVars
      BY <1>5 DEF SendsDead
    <2>2. client'.state # "new"
      BY <2>1, ClientAfter
    <2> QED BY <1>3, <2>1, <2>2
  <1>6. CASE SendsNothing(Command)
    <2>1. Command \in {"RETR", "LIST"} /\ client' = client /\ Fails /\ UNCHANGED serverVars
      BY <1>6 DEF SendsNothing, contextVars
    <2>2. Step # "CONNECT"
      BY <2>1 DEF Command
    <2> QED BY <1>3, <2>1, <2>2, ClientAfter
  <1> QED BY <1>2, <1>4, <1>5, <1>6 DEF Handle

(* The answer to a request: the one that opens the data connection is the   *)
(* last there is, or what is after it ends in a refusal.                    *)
LEMMA AnsweredWrites ==
  ASSUME Inv, ReadInv, WriteInv, wire # <<>>, client.state = "open", task # NoTask,
         task.cmd \in Requests, Answered(Head(wire)), UNCHANGED <<handles, listener, xfer, remote, hit>>
  PROVE  WriteInv'
  <1> DEFINE r == Head(wire)
  <1>1. awaited = task.id /\ UNCHANGED <<resolver, jobVars>>
    BY DEF Answered
  <1>2. awaited # 0 /\ cur # 0 /\ Step \notin Transfers /\ task.id \in Nat
    BY <1>1, Fitting
  <1>3. /\ r \in Replies /\ r = wire[1] /\ Tail(wire) \in Seq(Replies) /\ wire \in Seq(Replies)
        /\ listener \in Nat
    BY WireTail, Typed
  <1>4. Unused(Tail(wire), listener)
    BY <1>3, HeadGone DEF WriteInv
  <1>5. CASE task.cmd = "USER" /\ r.code = "more"
    <2>1. /\ UNCHANGED <<callVars, task, client>>
          /\ \E code \in {"ok", "err"} : wire' = Append(Tail(wire), Answer(task.id, "PASS", code))
      BY <1>5 DEF Answered
    <2>2. PICK code \in {"ok", "err"} : wire' = Append(Tail(wire), Answer(task.id, "PASS", code))
      BY <2>1
    <2> DEFINE a == Answer(task.id, "PASS", code)
    <2>3. a \in Replies /\ a.code # "mark"
      BY <1>2 DEF Answer, Replies
    <2> DEFINE w == Tail(wire)
    <2>4. wire' = Append(w, a) /\ w \in Seq(Replies) /\ Unused(w, listener)
      BY <1>3, <1>4, <2>2
    <2> HIDE DEF a, w
    <2>5. Unused(wire', listener')
      BY <1>3, <2>3, <2>4, OneAdded
    <2>6. Written' /\ WriteConfirmed' /\ Step' = Step
      BY <2>1, StaysWritten DEF OldOps, callVars
    <2>7. First' /\ Asked' /\ Poised' /\ Writing'
      BY <1>2, <1>5, <2>1, <2>6 DEF First, Asked, Poised, Writing, callVars, Transfers
    <2> QED BY <2>5, <2>6, <2>7 DEF WriteInv
  <1>6. CASE ~(task.cmd = "USER" /\ r.code = "more")
    <2>1. wire' = Tail(wire) /\ Unused(wire', listener')
      BY <1>4, <1>6 DEF Answered
    <2>2. ASSUME Fails, client'.state # "new" PROVE WriteInv'
      BY <1>2, <2>1, <2>2, LeavesWrites DEF Left
    <2>3. CASE ~Accepts(r)
      <3>1. Fails /\ client' = AfterFailure(client)
        BY <1>6, <2>3 DEF Answered
      <3> QED BY <2>2, <3>1, ClientAfter
    <2>4. CASE Accepts(r) /\ task.cmd \notin {"EPSV", "PASV"}
      <3>1. Succeeds /\ client' = client
        BY <1>6, <2>4 DEF Answered
      <3>2. Step \notin {"EPSV", "PASV"} /\ Step # "STOR"
        BY <1>1, <1>2, <2>4 DEF ReadInv, Fits, Transfers
      <3> QED BY <1>2, <2>1, <3>1, <3>2, LeavesWrites DEF Left
    <2>5. CASE Accepts(r) /\ task.cmd \in {"EPSV", "PASV"}
      <3>1. Connects(r.id) /\ client' = client
        BY <1>6, <2>5 DEF Answered
      <3>2. Opens(r) /\ r.code # "err"
        BY <2>5 DEF Accepts, Opens
      <3>3. CASE Succeeds /\ r.id = listener
        <4>1. xfer = NoTransfer /\ (Refused(wire) \/ (Opens(wire[Len(wire)]) /\ wire[Len(wire)].id = listener))
          BY <1>1, <1>2, <2>5 DEF WriteInv, Asked, Live
        <4>2. Unmarked(Tail(wire))
          BY <1>3, <3>2, <3>3, HeadGone DEF WriteInv
        <4>3. Tail(wire) = <<>> \/ Refused(Tail(wire))
          <5>1. CASE Refused(wire)
            BY <1>3, <3>2, <5>1, HeadGone
          <5>2. CASE Opens(wire[Len(wire)]) /\ wire[Len(wire)].id = listener
            <6>1. Len(wire) \in Nat \ {0}
              BY <1>3, EmptySeq
            <6>2. ~(1 < Len(wire))
              <7>1. SUFFICES ASSUME 1 < Len(wire) PROVE FALSE
                OBVIOUS
              <7>2. 1 \in 1 .. Len(wire) /\ Len(wire) \in 1 .. Len(wire)
                BY <6>1
              <7>3. wire[1].id < wire[Len(wire)].id
                BY <1>3, <3>2, <5>2, <7>1, <7>2 DEF ReadInv, Order, Fresh, Rising
              <7> QED BY <1>3, <3>3, <5>2, <7>3
            <6>3. Len(wire) = 1
              <7> DEFINE n == Len(wire)
              <7>1. n \in Nat \ {0} /\ ~(1 < n)
                BY <6>1, <6>2
              <7> HIDE DEF n
              <7>2. n = 1
                BY <7>1
              <7> QED BY <7>2 DEF n
            <6>4. Len(Tail(wire)) = 0
              BY <1>3, <6>3
            <6> QED BY <1>3, <6>4, EmptySeq
          <5> QED BY <4>1, <5>1, <5>2
        <4>4. Poised'
          BY <2>1, <4>1, <4>2, <4>3 DEF Poised
        <4>5. Step # "STOR"
          BY <1>2 DEF Transfers
        <4> QED BY <1>2, <2>1, <3>1, <3>3, <4>4, <4>5, LeavesWrites DEF Left
      <3>4. CASE Fails
        BY <2>2, <3>1, <3>4
      <3> QED BY <3>1, <3>3, <3>4 DEF Connects
    <2> QED BY <2>3, <2>4, <2>5
  <1> QED BY <1>5, <1>6

(* An error of a transfer: the task is forgotten, and the operation over if *)
(* it is its own.                                                           *)
LEMMA OnErrorWrites ==
  ASSUME Inv, ReadInv, WriteInv, NEW id \in Nat \ {0}, OnErrorOf(id), Unused(wire', listener'),
         wire' = wire \/ (awaited = id /\ client.state = "open"),
         listener' = listener, resolver' = resolver, loops' \subseteq loops,
         client' \in {client, Closing(client)},
         \/ xfer' = xfer
         \/ /\ xfer # NoTransfer
            /\ xfer'.id = xfer.id /\ xfer'.op = xfer.op /\ xfer'.cmd = xfer.cmd
  PROVE  WriteInv'
  <1>1. OldClient
    BY ClosingStays DEF OldClient, Closing, Inv, TypeOK, ContextOK
  <1>2. CASE OnError(id) /\ awaited = id
    <2>1. Fails /\ cur # 0
      BY <1>2, Busy DEF OnError, Rejects
    <2>2. client'.state # "new"
      BY <1>1, <1>2 DEF OldClient, WriteInv, First
    <2> QED BY <2>1, <2>2, LeavesWrites DEF Left
  <1>3. CASE ~(OnError(id) /\ awaited = id)
    <2>1. UNCHANGED callVars /\ task' \in {NoTask, task}
      BY <1>3 DEF OnErrorOf, OnErrorGone, OnError, Rejects
    <2>2. wire' = wire
      BY <1>3 DEF OnErrorOf
    <2>3. OldOps /\ UNCHANGED <<cur, plan, awaited>>
      BY <2>1 DEF OldOps, callVars
    <2> QED BY <1>1, <2>1, <2>2, <2>3, WaitsWrites
  <1> QED BY <1>2, <1>3

(* The answer to a transfer.                                                *)
LEMMA TransferredWrites ==
  ASSUME Inv, ReadInv, WriteInv, wire # <<>>, client.state = "open", task # NoTask,
         task.cmd \in Transfers, awaited = task.id, Transferred(Head(wire)),
         UNCHANGED <<handles, listener, xfer, remote, hit>>
  PROVE  WriteInv'
  <1> DEFINE r == Head(wire)
  <1>1. /\ awaited # 0 /\ cur # 0 /\ task.id \in Nat \ {0} /\ Step = task.cmd /\ client' = client
        /\ wire' = Tail(wire)
    BY Fitting DEF Transferred
  <1>2. r = wire[1] /\ wire \in Seq(Replies) /\ listener \in Nat
    BY WireTail, Typed
  <1>3. Unused(wire', listener')
    BY <1>1, <1>2, HeadGone DEF WriteInv
  <1>4. CASE OnErrorOf(task.id) /\ UNCHANGED <<resolver, jobVars>>
    BY <1>1, <1>3, <1>4, OnErrorWrites DEF jobVars
  <1>5. ASSUME UNCHANGED callVars, task' = task, r.code \in {"mark", "ok"},
               resolver'.done = resolver.done,
               r.code = "ok" \/ resolver' = resolver,
               r.code = "mark" \/ loops' = loops
        PROVE  WriteInv'
    <2>1. UNCHANGED <<ops, cur, plan, awaited>>
      BY <1>5 DEF callVars
    <2>2. Written' /\ WriteConfirmed' /\ Step' = Step
      BY <2>1, StaysWritten DEF OldOps
    <2>3. First' /\ Asked' /\ Poised'
      BY <1>1, <1>5, <2>1, <2>2 DEF First, Asked, Poised, WriteInv, Transfers
    <2>4. Writing'
      <3> SUFFICES ASSUME Live, Step = "STOR" PROVE InSync' \/ Doomed'
        BY <1>1, <2>1, <2>2 DEF Writing, Live
      <3>1. ASSUME InSync PROVE InSync'
        <4>1. Unconfirmed(wire) => Unconfirmed(wire') /\ r.code # "ok"
          BY <1>1, <1>2, HeadGone
        <4> QED BY <1>5, <2>1, <3>1, <4>1 DEF InSync
      <3>2. ASSUME Doomed PROVE Doomed'
        <4>1. Failing(wire)
          BY <3>2 DEF Doomed
        <4>2. Failing(wire') /\ r.code # "mark"
          BY <1>1, <1>2, <1>5, <4>1, HeadGone
        <4> QED BY <1>5, <2>1, <3>2, <4>2 DEF Doomed
      <3> QED BY <1>1, <3>1, <3>2 DEF WriteInv, Writing
    <2> QED BY <1>3, <2>2, <2>3, <2>4 DEF WriteInv
  <1>6. CASE r.code = "mark" /\ UNCHANGED <<callVars, task, data, pipe, resolver>>
    BY <1>5, <1>6
  <1>7. CASE r.code = "ok" /\ TryResolve([resolver EXCEPT !.answered = TRUE]) /\ UNCHANGED jobVars
    <2> DEFINE s == [resolver EXCEPT !.answered = TRUE]
    <2>1. s.done = resolver.done /\ TryResolve(s)
      BY <1>7 DEF Inv, TypeOK, ContextOK, Resolvers
    <2> HIDE DEF s
    <2>2. CASE CanResolve(s)
      <3>1. Over("failed") \/ Over("missing") \/ Succeeds
        BY <2>1, <2>2 DEF TryResolve, NotFound, Outdated
      <3>2. Step = "STOR" => ops[cur].stored
        <4> SUFFICES ASSUME Step = "STOR" PROVE ops[cur].stored
          OBVIOUS
        <4>1. InSync
          BY <1>1, <2>1, <2>2 DEF WriteInv, Writing, Live, Doomed, CanResolve
        <4>2. ~Unconfirmed(wire)
          BY <1>2, <1>7, HeadGone
        <4> QED BY <4>1, <4>2 DEF InSync
      <3>3. Left /\ Step \notin {"EPSV", "PASV"} /\ client'.state # "new"
        BY <1>1, <3>1, <3>2 DEF Left, Transfers
      <3> QED BY <1>1, <1>3, <3>3, LeavesWrites
    <2>3. CASE ~CanResolve(s)
      <3>1. resolver' = s /\ UNCHANGED <<task, callVars>>
        BY <2>1, <2>3 DEF TryResolve
      <3> QED BY <1>5, <1>7, <2>1, <3>1 DEF jobVars
    <2> QED BY <2>2, <2>3
  <1> QED BY <1>4, <1>6, <1>7 DEF Transferred

(* An answer comes.                                                         *)
LEMMA ReceiveWrites ==
  ASSUME Inv, ReadInv, WriteInv, Receive
  PROVE  WriteInv'
  <1>1. /\ wire # <<>> /\ client.state \in {"open", "dead"}
        /\ UNCHANGED <<handles, listener, xfer, remote, hit>>
    BY DEF Receive
  <1>2. CASE task = NoTask
    <2>1. /\ wire' = Tail(wire)
          /\ UNCHANGED <<callVars, task, client, resolver, dataVars, jobVars>>
      BY <1>2 DEF Receive, NoTask, Requests, Access, Transfers
    <2> QED BY <1>1, <1>2, <2>1, DropsWrites DEF jobVars
  <1>3. CASE task # NoTask
    <2>1. /\ client.state = "open" /\ awaited = task.id /\ task.cmd \in Requests \cup Transfers
      BY <1>1, <1>3, Awaited
    <2>2. CASE task.cmd \in Requests
      <3>1. Answered(Head(wire))
        BY <1>3, <2>2 DEF Receive, Requests, Access, Transfers
      <3> QED BY <1>1, <1>3, <2>1, <2>2, <3>1, AnsweredWrites
    <2>3. CASE task.cmd \in Transfers
      <3>1. Transferred(Head(wire))
        BY <1>3, <2>3 DEF Receive, Requests, Access, Transfers
      <3> QED BY <1>1, <1>3, <2>1, <2>3, <3>1, TransferredWrites
    <2> QED BY <2>1, <2>2, <2>3
  <1> QED BY <1>2, <1>3

(* Steps of the network and of the server that say nothing, and the end of  *)
(* a connection.                                                            *)
LEMMA OutsideWrites ==
  ASSUME Inv, ReadInv, WriteInv,
         ControlClosed \/ Switch \/ Resize \/ Drop \/ Deliver \/ ServerSends \/ Lose
  PROVE  WriteInv'
  <1>1. CASE ControlClosed \/ Switch
    <2>1. /\ client' = Closing(client)
          /\ UNCHANGED <<callVars, task, resolver, jobVars, serverVars>>
      BY <1>1 DEF ControlClosed, Switch
    <2>2. OldClient
      BY <2>1, ClosingStays DEF OldClient, Closing, Inv, TypeOK, ContextOK
    <2> QED BY <2>1, <2>2, WaitsWrites DEF callVars, jobVars, serverVars, OldOps
  <1>2. CASE Resize \/ Drop \/ Deliver
    <2>1. UNCHANGED <<callVars, contextVars, jobVars, wire, listener, xfer>>
      BY <1>2 DEF Resize, Drop, Deliver, serverVars
    <2> QED BY <2>1, WaitsWrites DEF callVars, contextVars, jobVars, OldOps, OldClient
  <1>3. CASE ServerSends
    <2>1. /\ xfer.todo # <<>> /\ xfer' = [xfer EXCEPT !.todo = Tail(@)]
          /\ UNCHANGED <<callVars, contextVars, jobVars, wire, listener>>
      BY <1>3 DEF ServerSends
    <2>2. xfer # NoTransfer
      BY <2>1, NoTransferIs
    <2>3. xfer'.id = xfer.id /\ xfer'.op = xfer.op /\ xfer'.cmd = xfer.cmd
      <3>1. xfer \in Transferring
        BY Typed
      <3> QED BY <2>1, <3>1 DEF Transferring
    <2> QED BY <2>1, <2>2, <2>3, WaitsWrites DEF callVars, contextVars, jobVars, OldOps, OldClient
  <1>4. CASE Lose
    <2>1. /\ client.state = "open" /\ client' = [client EXCEPT !.state = "dead"]
          /\ wire' = <<>> /\ UNCHANGED callVars
      BY <1>4 DEF Lose
    <2>2. client'.state = "dead"
      BY <2>1 DEF Inv, TypeOK, ContextOK
    <2>3. First' /\ Asked' /\ Poised' /\ Writing'
      BY <2>2 DEF First, Asked, Poised, Writing, Live
    <2>4. Written' /\ WriteConfirmed'
      BY <2>1, StaysWritten DEF OldOps, callVars
    <2>5. Unused(wire', listener')
      <3>1. Len(<<>>) = 0
        OBVIOUS
      <3> QED BY <2>1, <3>1 DEF Unused
    <2> QED BY <2>3, <2>4, <2>5 DEF WriteInv
  <1> QED BY <1>1, <1>2, <1>3, <1>4

(* The sockets are closed, and the task gets the error.                     *)
LEMMA FinishCloseWrites ==
  ASSUME Inv, ReadInv, WriteInv, FinishClose
  PROVE  WriteInv'
  <1>1. /\ task' = NoTask /\ client.state = "closing"
        /\ UNCHANGED <<resolver, jobVars, serverVars>>
        /\ \/ /\ Fails /\ task # NoTask /\ awaited = task.id
              /\ client' = AfterFailure([client EXCEPT !.state = "closed"])
           \/ UNCHANGED callVars /\ client' = [client EXCEPT !.state = "closed"]
    BY DEF FinishClose
  <1>2. Unused(wire', listener')
    BY <1>1 DEF WriteInv, serverVars
  <1>3. CASE /\ Fails /\ task # NoTask /\ awaited = task.id
             /\ client' = AfterFailure([client EXCEPT !.state = "closed"])
    BY <1>1, <1>2, <1>3, Fitting, ClientAfter, LeavesWrites DEF Left
  <1>4. CASE UNCHANGED callVars /\ client' = [client EXCEPT !.state = "closed"]
    <2>1. client'.state = "closed"
      BY <1>4 DEF Inv, TypeOK, ContextOK
    <2> QED BY <1>1, <1>4, <2>1, WaitsWrites
          DEF callVars, jobVars, serverVars, OldOps, OldClient
  <1> QED BY <1>1, <1>3, <1>4

(* The server gives up a transfer.                                          *)
LEMMA ServerGivesUpWrites ==
  ASSUME Inv, WriteInv, ServerGivesUp
  PROVE  WriteInv'
  <1> DEFINE r == Answer(xfer.id, xfer.cmd, "err")
  <1>1. r \in Replies /\ r.code = "err"
    BY TransferTyped DEF Answer, Replies
  <1>2. /\ xfer # NoTransfer /\ xfer' = NoTransfer /\ wire' = Append(wire, r)
        /\ UNCHANGED <<callVars, contextVars, jobVars, listener>>
    BY DEF ServerGivesUp
  <1> HIDE DEF r
  <1> QED BY <1>1, <1>2, SaysWrites DEF callVars, contextVars, jobVars, OldOps

(* What the server confirms of an upload is noted, and nothing else.        *)
LEMMA ConfirmNoted ==
  ASSUME Inv, ServerConfirms
  PROVE  OldOps /\ (xfer.cmd = "STOR" /\ xfer.op \in DOMAIN ops => ops'[xfer.op].stored)
  <1>1. ops' = IF xfer.cmd = "STOR" THEN [ops EXCEPT ![xfer.op].stored = TRUE] ELSE ops
    BY DEF ServerConfirms
  <1>2. ops \in Seq(Operation)
    BY DEF Inv, TypeOK, CallsOK
  <1>3. OldOps
    <2>1. CASE ops' = ops
      BY <2>1 DEF OldOps
    <2>2. CASE ops' = [ops EXCEPT ![xfer.op].stored = TRUE]
      BY <1>2, <2>2 DEF OldOps, Operation
    <2> QED BY <1>1, <2>1, <2>2
  <1>4. xfer.cmd = "STOR" /\ xfer.op \in DOMAIN ops => ops'[xfer.op].stored
    <2> SUFFICES ASSUME xfer.cmd = "STOR", xfer.op \in DOMAIN ops PROVE ops'[xfer.op].stored
      OBVIOUS
    <2>1. ops' = [ops EXCEPT ![xfer.op].stored = TRUE] /\ ops[xfer.op] \in Operation
      BY <1>1, <1>2
    <2> QED BY <2>1 DEF Operation
  <1> QED BY <1>3, <1>4

(* So what it confirms is true.                                             *)
LEMMA ServerConfirmsWrites ==
  ASSUME Inv, WriteInv, ServerConfirms
  PROVE  WriteInv'
  <1> DEFINE r == Answer(xfer.id, xfer.cmd, "ok")
  <1>1. r \in Replies /\ r.code = "ok"
    BY TransferTyped DEF Answer, Replies
  <1>2. /\ xfer # NoTransfer /\ xfer' = NoTransfer /\ wire' = Append(wire, r)
        /\ UNCHANGED <<cur, plan, awaited, contextVars, jobVars, listener>>
    BY DEF ServerConfirms
  <1> HIDE DEF r
  <1>3. UNCHANGED <<cur, plan, awaited, listener, task, client, resolver, loops>>
    BY <1>2 DEF contextVars, jobVars
  <1> QED BY <1>1, <1>2, <1>3, ConfirmNoted, SaysWrites

(* The chunks that are taken change nothing but the local file.             *)
LEMMA TakesNoted ==
  ASSUME Inv, NEW p, PollTakes(p)
  PROVE  OldOps
  <1> DEFINE taken == IF Alive(p) THEN cache ELSE <<Head(cache)>>
  <1>1. ops' = IF Alive(p) /\ Step = "RETR"
              THEN [ops EXCEPT ![cur].local = ops[cur].local \o taken] ELSE ops
    BY DEF PollTakes
  <1> HIDE DEF taken
  <1>2. CASE ops' = ops
    BY <1>2 DEF OldOps
  <1>3. CASE Step = "RETR" /\ ops' = [ops EXCEPT ![cur].local = ops[cur].local \o taken]
    <2>1. cur \in DOMAIN ops /\ ops \in Seq(Operation) /\ \A i \in DOMAIN ops : ops[i] \in Operation
      <3>1. cur # 0 /\ CallsOK
        BY <1>3, Busy DEF Inv, TypeOK
      <3>2. cur \in DOMAIN ops /\ ops \in Seq(Operation)
        BY <3>1, Working DEF CallsOK
      <3> QED BY <3>2
    <2> QED BY <1>3, <2>1 DEF OldOps, Operation
  <1> QED BY <1>1, <1>2, <1>3

(* The pollers are those of downloads: no upload is over by them.           *)
LEMMA PollWrites ==
  ASSUME Inv, ReadInv, WriteInv, Poll
  PROVE  WriteInv'
  <1>1. UNCHANGED <<loops, wire, listener, xfer>>
    BY DEF Poll, serverVars
  <1>2. PICK p \in pollers : PollError(p) \/ PollTakes(p) \/ PollWaits(p) \/ PollEnds(p)
    BY DEF Poll
  <1>3. p.id \in Nat \ {0}
    BY Typed
  <1>4. Unused(wire', listener')
    BY <1>1 DEF WriteInv
  <1>5. CASE PollError(p)
    <2>1. /\ resolver' = resolver
          /\ \/ OnErrorOf(p.id) /\ client' = Closing(client)
             \/ UNCHANGED <<callVars, task, client>>
      BY <1>5 DEF PollError
    <2>2. CASE OnErrorOf(p.id) /\ client' = Closing(client)
      <3>1. /\ client' \in {client, Closing(client)} /\ loops' \subseteq loops
            /\ wire' = wire /\ listener' = listener /\ xfer' = xfer /\ resolver' = resolver
        BY <1>1, <2>1, <2>2
      <3> QED BY <1>3, <1>4, <2>2, <3>1, OnErrorWrites
    <2>3. CASE UNCHANGED <<callVars, task, client>>
      BY <1>1, <2>1, <2>3, WaitsWrites DEF callVars, OldOps, OldClient
    <2> QED BY <2>1, <2>2, <2>3
  <1>6. CASE PollTakes(p)
    <2>1. UNCHANGED <<cur, plan, awaited, task, resolver, client>>
      BY <1>6 DEF PollTakes
    <2>2. OldOps
      BY <1>6, TakesNoted
    <2> QED BY <1>1, <2>1, <2>2, WaitsWrites DEF OldClient
  <1>7. CASE PollWaits(p)
    <2>1. UNCHANGED <<callVars, task, resolver, client>>
      BY <1>7 DEF PollWaits
    <2> QED BY <1>1, <2>1, WaitsWrites DEF callVars, OldOps, OldClient
  <1>8. CASE PollEnds(p)
    <2>1. DownloadDone(p) /\ client' = client
      BY <1>8 DEF PollEnds
    <2>2. CASE Alive(p) /\ client.state = "open"
      <3> DEFINE s == [resolver EXCEPT !.done = TRUE, !.got = p.got]
      <3>1. TryResolve(s) /\ s.answered = resolver.answered
        <4>1. resolver \in Resolvers
          BY DEF Inv, TypeOK, ContextOK
        <4> QED BY <2>1, <2>2, <4>1 DEF DownloadDone, Resolvers
      <3> HIDE DEF s
      <3>2. awaited # 0 /\ cur # 0 /\ Step \in {"RETR", "LIST"}
        BY <1>3, <2>2, Busy DEF Alive, ReadInv, Owned
      <3>3. CASE CanResolve(s)
        <4>1. Left
          BY <3>1, <3>2, <3>3 DEF TryResolve, NotFound, Outdated, Left
        <4>2. client'.state # "new" /\ Step \notin {"EPSV", "PASV"}
          BY <2>1, <2>2, <3>2
        <4> QED BY <1>4, <3>2, <4>1, <4>2, LeavesWrites
      <3>4. CASE ~CanResolve(s)
        <4>1. resolver' = s /\ UNCHANGED <<task, callVars>>
          BY <3>1, <3>4 DEF TryResolve
        <4> QED BY <1>1, <2>1, <3>1, <3>2, <4>1, WaitsWrites DEF callVars, OldOps, OldClient
      <3> QED BY <3>3, <3>4
    <2>3. CASE ~(Alive(p) /\ client.state = "open")
      <3>1. UNCHANGED <<resolver, task, callVars>>
        BY <2>1, <2>3 DEF DownloadDone
      <3> QED BY <1>1, <2>1, <3>1, WaitsWrites DEF callVars, OldOps, OldClient
    <2> QED BY <2>2, <2>3
  <1> QED BY <1>2, <1>5, <1>6, <1>7, <1>8

(* The loops are those of uploads: one that ends has sent the file, and the *)
(* operation goes on when the server has confirmed it.                      *)
LEMMA SendWrites ==
  ASSUME Inv, ReadInv, WriteInv, Send
  PROVE  WriteInv'
  <1>1. UNCHANGED <<wire, listener>>
    BY DEF Send
  <1>2. PICK l \in loops : LoopSends(l) \/ LoopFails(l) \/ LoopEnds(l)
    BY DEF Send
  <1>3. l \in Loops /\ l.id \in Nat \ {0}
    BY Typed DEF Inv, TypeOK, DataOK
  <1>4. Unused(wire', listener')
    BY <1>1 DEF WriteInv
  <1>5. CASE LoopSends(l)
    <2> DEFINE m == [l EXCEPT !.left = @ - 1]
    <2>1. loops' = (loops \ {l}) \cup {m} /\ UNCHANGED <<callVars, task, client, resolver, xfer>>
      BY <1>5 DEF LoopSends
    <2>2. m.id = l.id
      BY <1>3 DEF Loops
    <2> HIDE DEF m
    <2>3. \A k \in loops' : \E i \in loops : i.id = k.id
      BY <2>1, <2>2
    <2> QED BY <1>1, <2>1, <2>3, WaitsWrites DEF callVars, OldOps, OldClient
  <1>6. CASE LoopFails(l)
    <2>1. loops' \subseteq loops /\ UNCHANGED <<resolver, xfer>>
      BY <1>6 DEF LoopFails
    <2>2. CASE OnErrorOf(l.id) /\ client' \in {client, Closing(client)}
      <3>1. wire' = wire /\ listener' = listener /\ xfer' = xfer /\ resolver' = resolver
        BY <1>1, <2>1
      <3> QED BY <1>3, <1>4, <2>1, <2>2, <3>1, OnErrorWrites
    <2>3. CASE UNCHANGED <<callVars, task, data, pipe, client>>
      BY <1>1, <2>1, <2>3, WaitsWrites DEF callVars, OldOps, OldClient
    <2> QED BY <1>6, <2>2, <2>3 DEF LoopFails
  <1>7. CASE LoopEnds(l)
    <2>1. /\ loops' \subseteq loops /\ client' = client
          /\ xfer' = IF xfer.id = l.id THEN [xfer EXCEPT !.ended = TRUE] ELSE xfer
      BY <1>7 DEF LoopEnds
    <2>2. \/ xfer' = xfer
          \/ xfer # NoTransfer /\ xfer'.id = xfer.id /\ xfer'.op = xfer.op /\ xfer'.cmd = xfer.cmd
      <3>1. xfer.id = l.id => xfer # NoTransfer
        BY <1>3, NoTransferIs
      <3>2. xfer \in Transferring
        BY Typed
      <3> QED BY <2>1, <3>1, <3>2 DEF Transferring
    <2>3. CASE client.state = "open" /\ Alive(l)
      <3> DEFINE s == [resolver EXCEPT !.done = TRUE]
      <3>1. TryResolve(s) /\ s.answered = resolver.answered
        <4>1. resolver \in Resolvers
          BY DEF Inv, TypeOK, ContextOK
        <4> QED BY <1>7, <2>3, <4>1 DEF LoopEnds, Resolvers
      <3> HIDE DEF s
      <3>2. awaited # 0 /\ cur # 0 /\ Step = "STOR" /\ ~Doomed
        BY <1>3, <2>3, Busy DEF Alive, ReadInv, Owned, Doomed
      <3>3. CASE CanResolve(s)
        <4>1. ops[cur].stored
          BY <2>3, <3>1, <3>2, <3>3 DEF CanResolve, WriteInv, Writing, Live, InSync
        <4>2. Left
          BY <3>1, <3>2, <3>3, <4>1 DEF TryResolve, Left
        <4>3. client'.state # "new" /\ Step \notin {"EPSV", "PASV"}
          BY <2>1, <2>3, <3>2
        <4> QED BY <1>4, <3>2, <4>2, <4>3, LeavesWrites
      <3>4. CASE ~CanResolve(s)
        <4>1. resolver' = s /\ UNCHANGED <<task, callVars>>
          BY <3>1, <3>4 DEF TryResolve
        <4>2. /\ xfer = NoTransfer => xfer' = NoTransfer
              /\ \/ xfer' = NoTransfer
                 \/ xfer'.id = xfer.id /\ xfer'.op = xfer.op /\ xfer'.cmd = xfer.cmd
          BY <2>2
        <4> QED BY <1>1, <2>1, <3>1, <3>2, <4>1, <4>2, WaitsWrites DEF callVars, OldOps, OldClient
      <3> QED BY <3>3, <3>4
    <2>4. CASE ~(client.state = "open" /\ Alive(l))
      <3>1. OnErrorOf(l.id) /\ UNCHANGED resolver
        BY <1>7, <2>4 DEF LoopEnds
      <3>2. /\ wire' = wire /\ listener' = listener /\ resolver' = resolver
            /\ client' \in {client, Closing(client)}
        BY <1>1, <2>1, <3>1
      <3> QED BY <1>3, <1>4, <2>1, <2>2, <3>1, <3>2, OnErrorWrites
    <2> QED BY <2>3, <2>4
  <1> QED BY <1>2, <1>5, <1>6, <1>7

(* Nothing is written at first.                                             *)
LEMMA NothingWritten == Init => WriteInv
  <1> SUFFICES ASSUME Init PROVE WriteInv
    OBVIOUS
  <1>1. First /\ Asked /\ Poised /\ Writing
    BY DEF Init, First, Asked, Poised, Writing, Live
  <1>2. Unused(wire, listener) /\ Written /\ WriteConfirmed
    BY DEF Init, Unused, Written, WriteConfirmed
  <1> QED BY <1>1, <1>2 DEF WriteInv

(* Every step keeps the invariant.                                          *)
LEMMA NextWrites ==
  ASSUME Inv, ReadInv, WriteInv, [Next]_vars
  PROVE  WriteInv'
  <1>1. CASE UNCHANGED vars
    <2>1. UNCHANGED <<callVars, contextVars, jobVars, serverVars>>
      BY <1>1 DEF vars
    <2> QED BY <2>1, WaitsWrites
          DEF callVars, contextVars, jobVars, serverVars, OldOps, OldClient
  <1>2. CASE \E kind \in Kinds, again \in BOOLEAN : Begin(kind, again)
    BY <1>2, BeginWrites
  <1>3. CASE Program
    BY <1>3, EnsureWrites, HandleWrites, ReceiveWrites, OutsideWrites, FinishCloseWrites
       DEF Program
  <1>4. CASE Poll
    BY <1>4, PollWrites
  <1>5. CASE Send
    BY <1>5, SendWrites
  <1>6. CASE Network
    BY <1>6, OutsideWrites, ServerConfirmsWrites, ServerGivesUpWrites DEF Network, ServerNotices
  <1>7. CASE Abort \/ Drop \/ Lose \/ Switch \/ Resize
    BY <1>7, OutsideWrites, ServerGivesUpWrites DEF Abort
  <1> QED BY <1>1, <1>2, <1>3, <1>4, <1>5, <1>6, <1>7 DEF Next

(* An upload that is reported as done was confirmed by the server, which    *)
(* saw the end of the whole file: no answer to another command and none of  *)
(* another transfer is taken for the confirmation, whatever faults there    *)
(* were.                                                                    *)
THEOREM WritesAreConfirmed == Spec => []WriteConfirmed
  <1>1. Init => Inv /\ ReadInv /\ WriteInv
    BY InitOK, NothingRead, NothingWritten
  <1>2. Inv /\ ReadInv /\ WriteInv /\ [Next]_vars => Inv' /\ ReadInv' /\ WriteInv'
    BY NextKeeps, NextReads, NextWrites
  <1>3. WriteInv => WriteConfirmed
    BY DEF WriteInv
  <1> QED BY <1>1, <1>2, <1>3, PTL DEF Spec
-----------------------------------------------------------------------------
(* Listings.                                                                *)

(* No poller and no loop, and the server in no transfer.                    *)
Still == pollers = {} /\ loops = {} /\ xfer = NoTransfer

(* A connection between two commands, and one on which a request is under   *)
(* way.                                                                     *)
Idle == awaited = 0 /\ task = NoTask /\ wire = <<>> /\ Still
Asks ==
  /\ awaited # 0 /\ awaited = task.id /\ task.cmd \in Requests /\ Step \notin Transfers
  /\ Len(wire) <= 1 /\ Still

(* The answer comes to a transfer: the refusal, the beginning and maybe the *)
(* end, or only the end.                                                    *)
RefusalComes == Len(wire) = 1 /\ wire[1].code = "err" /\ Still
MarkComes ==
  /\ Len(wire) \in {1, 2} /\ wire[1].code = "mark" /\ data # 0
  /\ Len(wire) = 2 => wire[2].code = "ok" /\ xfer = NoTransfer
  /\ pollers = {} /\ loops = {} /\ ~resolver.done /\ ~resolver.answered
EndComes ==
  /\ \/ wire = <<>>
     \/ Len(wire) = 1 /\ wire[1].code = "ok" /\ xfer = NoTransfer /\ ~resolver.answered
  /\ resolver.answered => xfer = NoTransfer
  /\ resolver.done => pollers = {} /\ loops = {}

(* The one poller or loop is that of the transfer under way, which has its  *)
(* data connection.                                                         *)
OwnJobs ==
  /\ \A p, q \in pollers : p = q /\ p.id = awaited
  /\ \A k, l \in loops : k = l /\ k.id = awaited /\ data = k.socket /\ up
OwnTransfer == xfer # NoTransfer =>
  /\ xfer.id = awaited /\ xfer.cmd = Step /\ data = xfer.socket /\ data # 0
  /\ up \/ (xfer.ended /\ xfer.cmd = "STOR")

(* A listing is not over before its chunk has come.                         *)
Listed == Step = "LIST" =>
  /\ wire # <<>> /\ wire[1].code = "mark" => Rest # <<>>
  /\ \A p \in pollers : /\ p.size = 0
                        /\ p.idle > 0 => Rest = <<>>
                        /\ p.got = 0 => Rest # <<>>
  /\ resolver.done => resolver.got # 0

Runs ==
  /\ awaited # 0 /\ awaited = task.id /\ task.cmd = Step /\ Step \in Transfers
  /\ OwnJobs /\ OwnTransfer /\ Listed
  /\ RefusalComes \/ MarkComes \/ EndComes

(* As long as no fault hits a transfer.                                     *)
Calm ==
  /\ ~errInfo /\ (Step \in Transfers => Live)
  /\ client.state = "new" => wire = <<>> /\ task = NoTask
  /\ ~Live => Still
  /\ Live => Idle \/ Asks \/ Runs

Unmissed == \A i \in DOMAIN ops : ops[i].told # "missing"

ListInv == ~hit => Calm /\ Unmissed

(* A step after which the connection is in use.                             *)
LEMMA CalmOpen ==
  ASSUME ~errInfo', Live', Idle' \/ Asks' \/ Runs'
  PROVE  Calm'
  BY DEF Calm, Live

(* One after which there is none, or none yet.                              *)
LEMMA CalmClosed ==
  ASSUME ~errInfo', ~Live', client'.state # "new" \/ (wire' = <<>> /\ task' = NoTask),
         pollers' = {}, loops' = {}, xfer' = NoTransfer, Step' \notin Transfers
  PROVE  Calm'
  BY DEF Calm, Still

(* Where it can be.                                                         *)
LEMMA CalmIs ==
  ASSUME Inv, WriteInv, Calm
  PROVE  /\ ~errInfo
         /\ awaited = 0 /\ Live => Idle
         /\ ~Live => Still /\ Step \notin Transfers
         /\ Step \notin Transfers => Still
         /\ Live /\ task # NoTask => Asks \/ Runs
         /\ Live /\ wire # <<>> => (task # NoTask /\ (Asks \/ Runs))
         /\ (pollers # {} \/ loops # {} \/ xfer # NoTransfer) => Live /\ Runs
         /\ Idle => Still
  <1>1. NoTask.id = 0
    BY DEF NoTask
  <1>2. /\ Idle => awaited = 0 /\ task = NoTask /\ wire = <<>> /\ Still
        /\ Asks => awaited # 0 /\ awaited = task.id /\ Step \notin Transfers /\ Still
        /\ Runs => awaited # 0 /\ awaited = task.id /\ Step \in Transfers
    BY DEF Idle, Asks, Runs
  <1>3. Asks \/ Runs => task # NoTask
    BY <1>1, <1>2
  <1>4. /\ ~errInfo /\ (Step \in Transfers => Live) /\ (~Live => Still)
        /\ Live => Idle \/ Asks \/ Runs
    BY DEF Calm
  <1>5. Still => pollers = {} /\ loops = {} /\ xfer = NoTransfer
    BY DEF Still
  <1> QED BY <1>2, <1>3, <1>4, <1>5

(* Without changing what is told.                                           *)
LEMMA UnmissedStays ==
  ASSUME Unmissed, OldOps \/ ops' = ops
  PROVE  Unmissed'
  BY DEF Unmissed, OldOps

(* A step that is left: the next is no transfer, unless its data connection *)
(* is open.                                                                 *)
LEMMA Follows ==
  ASSUME Inv, ReadInv, Unmissed, cur # 0, Fails \/ Over("failed") \/ Succeeds
  PROVE  /\ Unmissed' /\ awaited' = 0
         /\ Fails \/ Over("failed") \/ Step \notin {"EPSV", "PASV"} => Step' \notin Transfers
  <1>1. "" \notin Transfers /\ "PASV" \notin Transfers
    BY DEF Transfers
  <1>2. ASSUME NEW told \in {"ok", "failed"}, Over(told)
        PROVE  Unmissed' /\ awaited' = 0 /\ Step' \notin Transfers
    <2>1. Unmissed'
      BY <1>2, Told1 DEF Unmissed
    <2> QED BY <1>1, <1>2, <2>1 DEF Over, Step
  <1>3. CASE Over("failed")
    BY <1>2, <1>3
  <1>4. CASE Fails /\ TriesNext
    <2> DEFINE t == Tail(plan)
               s == <<"PASV">>
    <2>1. plan' = s \o t /\ awaited' = 0 /\ ops' = ops
      BY <1>4 DEF Fails
    <2>2. t \in Seq(Steps)
      <3>1. plan \in Seq(Steps) /\ plan # <<>>
        BY Working
      <3> QED BY <3>1, Rests
    <2>3. s \in Seq(Steps) /\ s # <<>> /\ s[1] = "PASV"
      BY DEF Steps, Requests
    <2> HIDE DEF s, t
    <2>4. plan' \in Seq(Steps) /\ plan' # <<>> /\ plan'[1] = "PASV"
      BY <2>1, <2>2, <2>3, Joined
    <2>5. Step' = "PASV"
      BY <2>4, Rests DEF Step
    <2> QED BY <1>1, <2>1, <2>5, UnmissedStays
  <1>5. CASE Fails /\ ~TriesNext
    BY <1>2, <1>5 DEF Fails
  <1>6. CASE Succeeds /\ Len(plan) = 1
    BY <1>2, <1>6 DEF Succeeds
  <1>7. CASE Succeeds /\ Len(plan) # 1
    <2> DEFINE t == Tail(plan)
    <2>1. plan' = t /\ awaited' = 0 /\ ops' = ops
      BY <1>7 DEF Succeeds
    <2>2. plan \in Seq(Steps) /\ plan # <<>> /\ Step = plan[1] /\ Planned(plan)
      BY Working DEF ReadInv
    <2>3. t # <<>> /\ Head(t) = t[1]
      BY <1>7, <2>2, Rests
    <2>4. t[1] \in Transfers => plan[1] \in {"EPSV", "PASV"}
      BY <2>2, <2>3, PlannedTail
    <2>5. Step' = t[1]
      BY <2>1, <2>3 DEF Step
    <2>6. ASSUME Fails PROVE Step' \notin Transfers
      BY <1>2, <1>4, <1>5, <2>6, <2>1, <2>4, <2>5
    <2>7. ASSUME Over("failed") PROVE Step' \notin Transfers
      BY <1>3, <2>7
    <2> QED BY <2>1, <2>2, <2>4, <2>5, <2>6, <2>7, UnmissedStays
  <1> QED BY <1>3, <1>4, <1>5, <1>6, <1>7

-----------------------------------------------------------------------------

(* A new operation comes to a connection that is not in use.                *)
LEMMA BeginCalm ==
  ASSUME Inv, ReadInv, WriteInv, Calm, Unmissed,
         NEW kind \in Kinds, NEW again \in BOOLEAN, Begin(kind, again)
  PROVE  Calm' /\ Unmissed'
  <1>1. /\ cur = 0 /\ awaited = 0 /\ awaited' = awaited
        /\ UNCHANGED <<contextVars, dataVars, jobVars, serverVars>>
    BY Busy DEF Begin, Free
  <1>2. /\ UNCHANGED <<task, client, errInfo, pollers, loops, wire, xfer>>
        /\ Step' \notin Transfers
    BY <1>1, BeginWrites DEF contextVars, dataVars, jobVars, serverVars
  <1>3. Unmissed'
    <2> DEFINE before == IF again THEN ops[Len(ops)].local ELSE <<>>
               o == [kind |-> kind, before |-> before, local |-> before,
                     size |-> 0, want |-> <<>>, stored |-> FALSE, told |-> ""]
    <2>0. o.told = ""
      OBVIOUS
    <2>1. ops \in Seq(Operation) /\ ops' = Append(ops, o)
      BY DEF Begin, Inv, TypeOK, CallsOK
    <2> HIDE DEF o, before
    <2>2. ops' \in Seq(Operation)
      BY BeginKeeps DEF Inv, TypeOK, CallsOK
    <2>3. /\ Len(ops) \in Nat /\ DOMAIN ops = 1 .. Len(ops) /\ DOMAIN ops' = 1 .. Len(ops) + 1
          /\ ops'[Len(ops) + 1] = o
          /\ \A i \in 1 .. Len(ops) : ops'[i] = ops[i]
      BY <2>1, <2>2
    <2>4. \A i \in DOMAIN ops' : ops'[i] = o \/ (i \in DOMAIN ops /\ ops'[i] = ops[i])
      BY <2>3
    <2> QED BY <2>0, <2>4 DEF Unmissed
  <1>4. CASE Live
    <2>1. Idle
      BY <1>1, <1>4, CalmIs
    <2>2. Idle' /\ Live'
      BY <1>1, <1>2, <1>4, <2>1 DEF Idle, Still, Live
    <2>3. ~errInfo'
      BY <1>2, CalmIs
    <2> QED BY <1>3, <2>2, <2>3, CalmOpen
  <1>5. CASE ~Live
    <2>1. Still /\ ~Live'
      BY <1>2, <1>5, CalmIs DEF Live
    <2>2. client'.state # "new" \/ (wire' = <<>> /\ task' = NoTask)
      BY <1>2 DEF Calm
    <2>3. ~errInfo' /\ pollers' = {} /\ loops' = {} /\ xfer' = NoTransfer /\ Step' \notin Transfers
      BY <1>2, <2>1, CalmIs DEF Still
    <2> QED BY <1>3, <2>1, <2>2, <2>3, CalmClosed
  <1> QED BY <1>4, <1>5

(* A new connection is one between two commands.                            *)
LEMMA EnsureCalm ==
  ASSUME Inv, ReadInv, WriteInv, Calm, Unmissed, Ensure
  PROVE  Calm' /\ Unmissed'
  <1>1. awaited = 0 /\ UNCHANGED <<ops, awaited, errInfo, pollers, loops>> /\ Step' \notin Transfers
    BY EnsureWrites DEF Ensure, jobVars
  <1>2. CASE client.state \in {"none", "closing", "closed"}
    <2>1. /\ client' = [gen |-> client.gen + 1, state |-> "new"]
          /\ task' = NoTask /\ wire' = <<>> /\ xfer' = NoTransfer
      BY <1>2 DEF Ensure
    <2>2. ~Live /\ ~Live'
      BY <1>2, <2>1 DEF Live
    <2>3. Still /\ ~errInfo
      BY <2>2, CalmIs
    <2> QED BY <1>1, <2>1, <2>2, <2>3, CalmClosed, UnmissedStays DEF Still
  <1>3. CASE client.state \notin {"none", "closing", "closed"}
    <2>1. UNCHANGED <<client, task, wire, xfer>>
      BY <1>3 DEF Ensure
    <2>2. CASE Live
      <3>1. Idle
        BY <1>1, <2>2, CalmIs
      <3>2. Idle' /\ Live'
        BY <1>1, <2>1, <2>2, <3>1 DEF Idle, Still, Live
      <3> QED BY <1>1, <3>2, CalmIs, CalmOpen, UnmissedStays
    <2>3. CASE ~Live
      <3>1. Still /\ ~Live'
        BY <2>1, <2>3, CalmIs DEF Live
      <3>2. client'.state # "new" \/ (wire' = <<>> /\ task' = NoTask)
        BY <2>1 DEF Calm
      <3> QED BY <1>1, <2>1, <3>1, <3>2, CalmIs, CalmClosed, UnmissedStays DEF Still
    <2> QED BY <2>2, <2>3
  <1> QED BY <1>2, <1>3

(* The answer is the only one under way.                                    *)
LEMMA OnlyAnswer ==
  ASSUME NEW r
  PROVE  LET w == Append(<<>>, r) IN Len(w) = 1 /\ w[1] = r /\ w # <<>>
  OBVIOUS

(* A listing has a chunk.                                                   *)
LEMMA ListingIs == Listing \in Seq(Chunk) /\ Len(Listing) = 1
  BY ListingTyped DEF Listing, Content

(* A command is sent on a connection that is not in use.                    *)
LEMMA SendsCalm ==
  ASSUME Inv, ReadInv, WriteInv, Calm, Unmissed, awaited = 0, Step \in Requests \cup Transfers,
         handles' = handles + 1, Sends(handles + 1, Command), UNCHANGED jobVars
  PROVE  Calm' /\ Unmissed'
  <1> DEFINE id == handles + 1
             connected == data # 0 /\ data = listener /\ up
             begun == [op |-> cur, id |-> id, cmd |-> Command, socket |-> data, ended |-> FALSE,
                       todo |-> CASE Command = "RETR" -> remote
                                  [] Command = "LIST" -> Listing
                                  [] Command = "STOR" -> <<>>]
  <1>1. /\ task' = [id |-> id, cmd |-> Command] /\ awaited' = id
        /\ UNCHANGED <<cur, plan, pollers, loops, data, up, cache, pipe, errInfo>>
        /\ resolver' = IF Command \in Transfers THEN NoAnswers ELSE resolver
        /\ client' = IF Command = "CONNECT" THEN [client EXCEPT !.state = "open"] ELSE client
        /\ client.state \in {"new", "open", "dead"}
        /\ cur # 0 /\ id \in Nat \ {0} /\ Step' = Step
    BY Stepping, NewNumber DEF Sends, Opened, jobVars, dataVars, Step
  <1>2. ~errInfo'
    BY <1>1, CalmIs
  <1>3. Command \in Requests \cup Transfers /\ (Step \in Transfers => Command = Step)
    BY Stepping DEF Command, Transfers
  <1>4. Command \in Transfers => Step \in Transfers
    BY DEF Command, Transfers
  <1>5. Live => Idle
    BY CalmIs
  <1>6. Still
    BY <1>5, CalmIs
  <1>7. \/ client.state = "dead" /\ UNCHANGED <<ops, wire, xfer>>
        \/ client.state # "dead" /\ (Serves(id, Command) \/ Refuses(id, Command))
    BY DEF Sends, serverVars
  <1>8. Unmissed'
    <2>1. \/ ops' = ops \/ ops' = [ops EXCEPT ![cur].want = remote]
          \/ ops' = [ops EXCEPT ![cur].size = Len(remote)]
      BY <1>7 DEF Serves, Refuses
    <2>2. OldOps
      BY <1>1, <2>1, Noted DEF OldOps
    <2> QED BY <2>2, UnmissedStays
  <1>9. Command # "CONNECT" => client' = client /\ client.state # "new"
    <2>1. Command # "CONNECT" => Step # "CONNECT"
      BY DEF Command
    <2> QED BY <1>1, <2>1 DEF WriteInv, First
  <1>10. Command = "CONNECT" => Live'
    <2>1. client \in [gen : Nat, state : States]
      BY DEF Inv, TypeOK, ContextOK
    <2> QED BY <1>1, <2>1 DEF Live
  <1>11. ASSUME Step \notin Transfers, xfer' = NoTransfer, Len(wire') <= 1, Live' PROVE Calm'
    <2>1. Asks'
      BY <1>1, <1>3, <1>4, <1>6, <1>11 DEF Asks, Still
    <2> QED BY <1>2, <1>11, <2>1, CalmOpen
  <1>12. CASE client.state = "dead" /\ UNCHANGED <<ops, wire, xfer>>
    <2>1. Step \notin Transfers /\ xfer' = NoTransfer
      BY <1>12, CalmIs DEF Live, Inv, AnswersAwaited
    <2>2. Len(wire') <= 1
      <3>1. wire' = <<>>
        BY <1>12 DEF Inv, AnswersAwaited
      <3> QED BY <3>1
    <2>3. CASE Live'
      BY <1>8, <1>11, <2>1, <2>2, <2>3
    <2>4. CASE ~Live'
      <3>1. client'.state # "new"
        BY <1>9, <1>10, <2>4
      <3>2. pollers' = {} /\ loops' = {} /\ Step' \notin Transfers
        BY <1>1, <1>6, <2>1 DEF Still
      <3> QED BY <1>2, <1>8, <2>1, <2>4, <3>1, <3>2, CalmClosed
    <2> QED BY <2>3, <2>4
  <1>13. CASE client.state # "dead" /\ (Serves(id, Command) \/ Refuses(id, Command))
    <2>1. wire = <<>> /\ xfer = NoTransfer
      BY <1>1, <1>5, <1>6, <1>13 DEF Calm, Idle, Still, Live
    <2>2. Before = <<>>
      BY <2>1 DEF Before
    <2>3. Live'
      BY <1>1, <1>9, <1>10, <1>13 DEF Live
    <2>4. PICK r : wire' = Append(<<>>, r)
      BY <1>13, <2>2 DEF Serves, Refuses
    <2>5. Len(wire') = 1 /\ wire'[1] = r /\ wire' # <<>>
      BY <2>4, OnlyAnswer
    <2>6. CASE Step \notin Transfers
      <3>1. xfer' = NoTransfer
        BY <1>4, <1>13, <2>6 DEF Serves, Refuses
      <3> QED BY <1>8, <1>11, <2>3, <2>5, <2>6, <3>1
    <2>7. CASE Step \in Transfers
      <3>1. Command = Step /\ Command \in Transfers
        BY <1>3, <2>7
      <3>2. /\ awaited' # 0 /\ awaited' = task'.id /\ task'.cmd = Step' /\ Step' \in Transfers
            /\ pollers' = {} /\ loops' = {} /\ ~resolver'.done /\ ~resolver'.answered
        BY <1>1, <1>6, <2>7, <3>1 DEF Still, NoAnswers
      <3>3. OwnJobs'
        BY <3>2 DEF OwnJobs
      <3>4. CASE wire'[1].code = "err" /\ xfer' = NoTransfer
        <4>1. OwnTransfer' /\ RefusalComes'
          BY <2>5, <3>2, <3>4 DEF OwnTransfer, RefusalComes, Still
        <4>2. Listed'
          BY <3>2, <3>4 DEF Listed
        <4> QED BY <1>2, <1>8, <2>3, <3>2, <3>3, <4>1, <4>2, CalmOpen DEF Runs
      <3>5. CASE wire'[1].code = "mark" /\ data # 0 /\ up /\ xfer' = begun
        <4>1. /\ begun.id = id /\ begun.socket = data /\ begun.cmd = Command
              /\ Command = "LIST" => begun.todo = Listing
          OBVIOUS
        <4> HIDE DEF begun
        <4>2. OwnTransfer'
          BY <1>1, <3>1, <3>5, <4>1 DEF OwnTransfer
        <4>3. MarkComes'
          BY <1>1, <2>5, <3>2, <3>5 DEF MarkComes
        <4>4. Step = "LIST" => Rest' # <<>>
          <5> SUFFICES ASSUME Step = "LIST" PROVE Rest' # <<>>
            OBVIOUS
          <5>1. Todo' = Listing
            BY <1>1, <3>1, <3>5, <4>1 DEF Todo
          <5> DEFINE s == cache \o pipe
          <5>2. Rest' = s \o Listing
            BY <1>1, <5>1 DEF Rest
          <5>3. s \in Seq(Chunk)
            BY Typed, Lengths
          <5> HIDE DEF s
          <5>4. Len(s \o Listing) # 0
            <6>1. Len(s \o Listing) = Len(s) + Len(Listing) /\ Len(s) \in Nat
              BY <5>3, ListingIs, Lengths
            <6> QED BY <6>1, ListingIs
          <5> QED BY <5>2, <5>4
        <4>5. Listed'
          BY <1>1, <3>2, <4>4 DEF Listed
        <4> QED BY <1>2, <1>8, <2>3, <3>2, <3>3, <4>2, <4>3, <4>5, CalmOpen DEF Runs
      <3>6. CASE Refuses(id, Command)
        <4>1. wire' = Append(<<>>, Answer(id, Command, "err")) /\ xfer' = NoTransfer
          BY <2>2, <3>6 DEF Refuses
        <4>2. wire'[1] = Answer(id, Command, "err")
          BY <4>1, OnlyAnswer
        <4> QED BY <3>4, <4>1, <4>2 DEF Answer
      <3>7. CASE Serves(id, Command)
        <4> DEFINE code == IF connected THEN "mark" ELSE "err"
        <4>1. wire' = Append(<<>>, Answer(id, Command, code))
          BY <2>2, <3>1, <3>7 DEF Serves, Transfers
        <4>2. wire'[1] = Answer(id, Command, code)
          BY <4>1, OnlyAnswer
        <4>3. xfer' = IF connected THEN begun ELSE NoTransfer
          BY <3>1, <3>7 DEF Serves
        <4> HIDE DEF begun
        <4>4. wire'[1].code = code
          BY <4>2 DEF Answer
        <4> QED BY <3>4, <3>5, <4>3, <4>4
      <3> QED BY <1>13, <3>6, <3>7
    <2> QED BY <2>6, <2>7
  <1> QED BY <1>7, <1>8, <1>12, <1>13

(* A step of the plan starts its task.                                      *)
LEMMA HandleCalm ==
  ASSUME Inv, ReadInv, WriteInv, Calm, Unmissed, Handle
  PROVE  Calm' /\ Unmissed'
  <1>1. awaited = 0 /\ Step \in Requests \cup Transfers /\ UNCHANGED jobVars /\ cur # 0
    BY Stepping DEF Handle
  <1>2. CASE handles' = handles + 1 /\ Sends(handles + 1, Command)
    BY <1>1, <1>2, SendsCalm
  <1>3. ASSUME Fails, UNCHANGED <<errInfo, xfer>>, ~Live, ~Live', client'.state # "new"
        PROVE  Calm' /\ Unmissed'
    <2>1. Unmissed' /\ Step' \notin Transfers
      BY <1>1, <1>3, Follows
    <2>2. pollers' = {} /\ loops' = {} /\ xfer' = NoTransfer /\ ~errInfo'
      BY <1>1, <1>3, CalmIs DEF Still, jobVars
    <2> QED BY <1>3, <2>1, <2>2, CalmClosed
  <1>4. CASE handles' = handles + 1 /\ SendsClosed(handles + 1, Command)
    <2>1. /\ client.state \in {"closing", "closed"} \/ task # NoTask
          /\ client' = AfterFailure(Closing(client)) /\ UNCHANGED <<errInfo, xfer>>
          /\ Fails \/ Command \in Transfers
      BY <1>4 DEF SendsClosed, serverVars
    <2>2. ~Live /\ client.state # "new"
      <3>1. Live => task = NoTask
        BY <1>1, CalmIs DEF Idle
      <3>2. client.state = "new" => task = NoTask
        BY DEF Calm
      <3> QED BY <2>1, <3>1, <3>2 DEF Live
    <2>3. Command \notin Transfers
      BY <2>2, CalmIs DEF Command, Transfers
    <2>4. client'.state # "new" /\ ~Live'
      BY <2>1, <2>2, ClientAfter DEF Live
    <2> QED BY <1>3, <2>1, <2>2, <2>3, <2>4
  <1>5. CASE handles' = handles + 1 /\ SendsDead(handles + 1, Command)
    <2>1. /\ client.state = "dead" /\ client' = AfterFailure(client)
          /\ Fails /\ UNCHANGED <<errInfo, xfer>>
      BY <1>5 DEF SendsDead, serverVars, dataVars
    <2>2. client'.state \in {"dead", "none"}
      <3>1. client \in [gen : Nat, state : States]
        BY DEF Inv, TypeOK, ContextOK
      <3> QED BY <2>1, <3>1 DEF AfterFailure
    <2>3. ~Live /\ ~Live' /\ client'.state # "new"
      BY <2>1, <2>2 DEF Live
    <2> QED BY <1>3, <2>1, <2>3
  <1>6. CASE SendsNothing(Command)
    <2>1. /\ Command \in {"RETR", "LIST"} /\ Fails
          /\ UNCHANGED <<client, task, errInfo, wire, xfer, pollers, loops>>
      BY <1>1, <1>6 DEF SendsNothing, contextVars, dataVars, serverVars, jobVars
    <2>2. Step \in Transfers
      BY <2>1 DEF Command, Transfers
    <2>3. Live /\ Idle
      BY <1>1, <2>2, CalmIs
    <2>4. Unmissed' /\ awaited' = 0
      BY <1>1, <2>1, Follows
    <2>5. Live' /\ Idle' /\ ~errInfo'
      BY <2>1, <2>3, <2>4, CalmIs DEF Live, Idle, Still
    <2> QED BY <2>4, <2>5, CalmOpen
  <1> QED BY <1>2, <1>4, <1>5, <1>6 DEF Handle

(* The only answer is taken.                                                *)
LEMMA TakesOnly ==
  ASSUME NEW w \in Seq(Replies), w # <<>>
  PROVE  /\ Len(w) <= 1 => Len(w) = 1 /\ Tail(w) = <<>>
         /\ Len(w) = 1 => Tail(w) = <<>>
         /\ Len(w) = 2 => Len(Tail(w)) = 1 /\ Tail(w)[1] = w[2] /\ Tail(w) # <<>>
         /\ Head(w) = w[1]
  <1> DEFINE t == Tail(w)
             n == Len(w)
  <1>1. /\ n \in Nat \ {0} /\ t \in Seq(Replies) /\ Len(t) = n - 1 /\ Head(w) = w[1]
        /\ n = 2 => t[1] = w[2]
    BY EmptySeq
  <1>2. t = <<>> <=> Len(t) = 0
    BY <1>1, EmptySeq
  <1> HIDE DEF t, n
  <1>3. (n <= 1 => n = 1 /\ Len(t) = 0) /\ (n = 1 => Len(t) = 0)
    BY <1>1
  <1>4. n = 2 => Len(t) = 1
    BY <1>1
  <1> QED BY <1>1, <1>2, <1>3, <1>4 DEF t, n

(* The answer to a request ends it, and opens the right data connection.    *)
LEMMA AnsweredCalm ==
  ASSUME Inv, ReadInv, WriteInv, Calm, Unmissed, Live, Asks, wire # <<>>, task # NoTask,
         Answered(Head(wire)), xfer' = xfer
  PROVE  Calm' /\ Unmissed'
  <1> DEFINE r == Head(wire)
  <1>1. /\ awaited = task.id /\ awaited # 0 /\ cur # 0 /\ task.cmd \in Requests
        /\ Step \notin Transfers /\ UNCHANGED <<resolver, pollers, loops>>
    BY Busy DEF Answered, Asks, jobVars
  <1>2. /\ r \in Replies /\ r = wire[1] /\ Tail(wire) = <<>> /\ Len(wire) = 1
        /\ wire \in Seq(Replies)
    BY WireTail, TakesOnly, Typed DEF Asks
  <1>3. Still /\ Still' /\ ~errInfo
    BY <1>1, CalmIs DEF Asks, Still
  <1>4. CASE task.cmd = "USER" /\ r.code = "more"
    <2>1. UNCHANGED <<ops, plan, awaited, task, client, errInfo>>
      BY <1>4 DEF Answered, callVars, dataVars
    <2>2. \E a : wire' = Append(<<>>, a)
      BY <1>2, <1>4 DEF Answered
    <2>3. Len(wire') <= 1
      BY <2>2, OnlyAnswer
    <2>4. Asks' /\ Live'
      BY <1>1, <1>3, <2>1, <2>3 DEF Asks, Live, Step
    <2>5. ~errInfo' /\ Unmissed'
      BY <1>3, <2>1, UnmissedStays
    <2> QED BY <2>4, <2>5, CalmOpen
  <1>5. CASE ~(task.cmd = "USER" /\ r.code = "more")
    <2>1. wire' = <<>> /\ task' = NoTask
      BY <1>2, <1>5 DEF Answered
    <2>2. ASSUME Fails \/ Succeeds, client' = client, ~errInfo' PROVE Calm' /\ Unmissed'
      <3>1. Unmissed' /\ awaited' = 0
        BY <1>1, <2>2, Follows
      <3>2. Live' /\ Idle'
        BY <1>3, <2>1, <2>2, <3>1 DEF Live, Idle
      <3> QED BY <2>2, <3>1, <3>2, CalmOpen
    <2>3. CASE ~Accepts(r)
      <3>1. Fails /\ client' = AfterFailure(client) /\ errInfo' = errInfo
        BY <1>5, <2>3 DEF Answered, dataVars
      <3>2. client' = client \/ client'.state = "none"
        BY <3>1 DEF AfterFailure, Inv, TypeOK, ContextOK
      <3>3. CASE client' = client
        BY <1>3, <2>2, <3>1, <3>3
      <3>4. CASE client'.state = "none"
        <4>1. Unmissed' /\ Step' \notin Transfers
          BY <1>1, <3>1, Follows
        <4>2. ~Live' /\ client'.state # "new" /\ ~errInfo'
          BY <1>3, <3>1, <3>4 DEF Live
        <4> QED BY <1>3, <4>1, <4>2, CalmClosed DEF Still
      <3> QED BY <3>2, <3>3, <3>4
    <2>4. CASE Accepts(r) /\ task.cmd \notin {"EPSV", "PASV"}
      <3>1. Succeeds /\ client' = client /\ errInfo' = errInfo
        BY <1>5, <2>4 DEF Answered, dataVars
      <3> QED BY <1>3, <2>2, <3>1
    <2>5. CASE Accepts(r) /\ task.cmd \in {"EPSV", "PASV"}
      <3>1. Connects(r.id) /\ client' = client
        BY <1>5, <2>5 DEF Answered
      <3>2. r.code # "err"
        BY <2>5 DEF Accepts
      <3>3. r.id = listener
        <4>1. Refused(wire) \/ wire[Len(wire)].id = listener
          BY <1>1, <2>5 DEF WriteInv, Asked
        <4>2. wire[Len(wire)] = r
          BY <1>2
        <4> QED BY <3>2, <4>1, <4>2 DEF Refused
      <3>4. Succeeds /\ ~errInfo'
        BY <3>1, <3>3 DEF Connects, Live
      <3> QED BY <2>2, <3>1, <3>4
    <2> QED BY <2>3, <2>4, <2>5
  <1> QED BY <1>4, <1>5

(* The transfer goes on.                                                    *)
LEMMA RunsOn ==
  ASSUME Runs, UNCHANGED <<plan, awaited, task>>, OwnJobs', OwnTransfer', Listed',
         RefusalComes' \/ MarkComes' \/ EndComes'
  PROVE  Runs'
  BY DEF Runs, Step

(* Or it is over, when the data is done and the server has said so: then    *)
(* nothing of it is left, and a listing has come.                           *)
LEMMA TriesCalm ==
  ASSUME Inv, ReadInv, Unmissed, cur # 0, Step \in Transfers, NEW s, TryResolve(s),
         Live', ~errInfo',
         CanResolve(s) => Still' /\ wire' = <<>> /\ (Step = "LIST" => s.got # 0),
         ~CanResolve(s) /\ resolver' = s /\ UNCHANGED <<data, pipe, task, callVars>> => Runs'
  PROVE  Calm' /\ Unmissed'
  <1>1. CASE CanResolve(s)
    <2>1. task' = NoTask /\ (Over("failed") \/ Succeeds)
      BY <1>1 DEF TryResolve, Outdated
    <2>2. Unmissed' /\ awaited' = 0
      BY <2>1, Follows
    <2>3. Idle'
      BY <1>1, <2>1, <2>2 DEF Idle
    <2> QED BY <2>2, <2>3, CalmOpen
  <1>2. CASE ~CanResolve(s)
    <2>1. resolver' = s /\ UNCHANGED <<data, pipe, task, callVars>>
      BY <1>2 DEF TryResolve
    <2>2. Unmissed'
      BY <2>1, UnmissedStays DEF callVars
    <2> QED BY <1>2, <2>1, <2>2, CalmOpen
  <1> QED BY <1>1, <1>2

(* The answer to a transfer ends it, or it goes on.                         *)
LEMMA TransferredCalm ==
  ASSUME Inv, ReadInv, WriteInv, Calm, Unmissed, Live, Runs, wire # <<>>,
         Transferred(Head(wire)), xfer' = xfer
  PROVE  Calm' /\ Unmissed'
  <1> DEFINE r == Head(wire)
  <1>1. /\ awaited # 0 /\ awaited = task.id /\ task.cmd = Step /\ Step \in Transfers /\ cur # 0
        /\ OwnJobs /\ OwnTransfer /\ Listed
        /\ wire' = Tail(wire) /\ UNCHANGED <<client, up, cache, errInfo>>
    BY Busy DEF Runs, Transferred
  <1>2. ~errInfo' /\ Live'
    BY <1>1, CalmIs DEF Live
  <1>3. /\ r = wire[1]
        /\ Len(wire) = 1 => wire' = <<>>
        /\ Len(wire) = 2 => Len(wire') = 1 /\ wire'[1] = wire[2] /\ wire' # <<>>
    BY <1>1, Typed, TakesOnly
  <1>4. CASE RefusalComes
    <2>1. r.code = "err" /\ wire' = <<>> /\ Still
      BY <1>3, <1>4 DEF RefusalComes
    <2>2. OnErrorOf(task.id) /\ UNCHANGED jobVars
      BY <2>1 DEF Transferred
    <2>3. Fails /\ task' = NoTask
      BY <1>1, <2>2 DEF OnErrorOf, OnError, Rejects, Live
    <2>4. Unmissed' /\ awaited' = 0
      BY <1>1, <2>3, Follows
    <2>5. Idle'
      BY <2>1, <2>2, <2>3, <2>4 DEF Idle, Still, jobVars
    <2> QED BY <1>2, <2>4, <2>5, CalmOpen
  <1>5. CASE MarkComes
    <2>1. r.code = "mark" /\ data # 0 /\ pollers = {} /\ loops = {}
      BY <1>3, <1>5 DEF MarkComes
    <2>2. Starts /\ UNCHANGED <<callVars, task, data, pipe, resolver>>
      BY <2>1 DEF Transferred
    <2>3. UNCHANGED <<ops, plan, awaited>> /\ Step' = Step
      BY <2>2 DEF callVars, Step
    <2>4. Rest' = Rest
      BY <1>1, <2>2, <2>3 DEF Rest, Todo
    <2>5. pollers' \subseteq {Poller} /\ loops' \subseteq {Loop} /\ (loops' # {} => up)
      BY <2>1, <2>2 DEF Starts
    <2>6. OwnTransfer'
      BY <1>1, <2>2, <2>3 DEF OwnTransfer
    <2>7. OwnJobs'
      <3>1. Poller.id = awaited /\ Loop.id = awaited /\ Loop.socket = data
        BY <1>1 DEF Poller, Loop
      <3>2. \A p, q \in pollers' : p = q /\ p.id = awaited'
        BY <2>3, <2>5, <3>1
      <3>3. \A k, l \in loops' : k = l /\ k.id = awaited' /\ data' = k.socket /\ up'
        BY <1>1, <2>2, <2>3, <2>5, <3>1
      <3> QED BY <3>2, <3>3 DEF OwnJobs
    <2>8. ~resolver'.done /\ ~resolver'.answered
      BY <1>5, <2>2 DEF MarkComes
    <2>9. \/ wire' = <<>>
          \/ Len(wire') = 1 /\ wire'[1].code = "ok" /\ xfer' = NoTransfer
      BY <1>3, <1>5 DEF MarkComes
    <2>10. EndComes'
      BY <2>8, <2>9 DEF EndComes
    <2>11. Listed'
      <3> SUFFICES ASSUME Step = "LIST" PROVE Listed'
        BY <2>3 DEF Listed
      <3>1. Rest # <<>>
        BY <1>1, <1>3, <2>1 DEF Listed
      <3>2. Poller.size = 0 /\ Poller.idle = 0
        BY <1>1 DEF Poller
      <3> QED BY <2>3, <2>4, <2>5, <2>8, <3>1, <3>2 DEF Listed
    <2>12. Runs' /\ Unmissed'
      BY <2>2, <2>3, <2>6, <2>7, <2>10, <2>11, RunsOn, UnmissedStays
    <2> QED BY <1>2, <2>12, CalmOpen
  <1>6. CASE EndComes
    <2> DEFINE s == [resolver EXCEPT !.answered = TRUE]
    <2>1. r.code = "ok" /\ wire' = <<>> /\ xfer = NoTransfer
      BY <1>3, <1>6 DEF EndComes
    <2>2. TryResolve(s) /\ UNCHANGED <<pollers, loops>>
      BY <2>1 DEF Transferred, jobVars
    <2>3. s.done = resolver.done /\ s.got = resolver.got
      BY DEF Inv, TypeOK, ContextOK, Resolvers
    <2> HIDE DEF s
    <2>4. ASSUME CanResolve(s)
          PROVE  Still' /\ wire' = <<>> /\ (Step = "LIST" => s.got # 0)
      <3>1. resolver.done
        BY <2>3, <2>4 DEF CanResolve
      <3>2. Still'
        BY <1>6, <2>1, <2>2, <3>1 DEF EndComes, Still
      <3> QED BY <1>1, <2>1, <2>3, <3>1, <3>2 DEF Listed
    <2>5. ASSUME resolver' = s, UNCHANGED <<data, pipe, task, callVars>>
          PROVE  Runs'
      <3>1. UNCHANGED <<plan, awaited>> /\ Step' = Step
        BY <2>5 DEF callVars, Step
      <3>2. Rest' = Rest
        BY <1>1, <2>5, <3>1 DEF Rest, Todo
      <3>3. OwnJobs' /\ OwnTransfer'
        BY <1>1, <2>2, <2>5, <3>1 DEF OwnJobs, OwnTransfer
      <3>4. Listed'
        BY <1>1, <2>1, <2>2, <2>3, <2>5, <3>1, <3>2 DEF Listed
      <3>5. EndComes'
        BY <1>6, <2>1, <2>2, <2>3, <2>5 DEF EndComes
      <3> QED BY <2>5, <3>1, <3>3, <3>4, <3>5, RunsOn
    <2> QED BY <1>1, <1>2, <2>2, <2>4, <2>5, TriesCalm
  <1> QED BY <1>4, <1>5, <1>6 DEF Runs

(* An answer comes, to the task that is waited for.                         *)
LEMMA ReceiveCalm ==
  ASSUME Inv, ReadInv, WriteInv, Calm, Unmissed, Receive
  PROVE  Calm' /\ Unmissed'
  <1>1. wire # <<>> /\ client.state \in {"open", "dead"} /\ xfer' = xfer
    BY DEF Receive
  <1>2. Live
    BY <1>1 DEF Live, Inv, AnswersAwaited
  <1>3. task # NoTask /\ (Asks \/ Runs)
    BY <1>1, <1>2, CalmIs
  <1>4. CASE Asks
    <2>1. task.cmd \in Requests
      BY <1>4 DEF Asks
    <2>2. Answered(Head(wire))
      BY <1>3, <2>1 DEF Receive, Requests, Access, Transfers
    <2> QED BY <1>1, <1>2, <1>3, <1>4, <2>2, AnsweredCalm
  <1>5. CASE Runs
    <2>1. task.cmd \in Transfers
      BY <1>5 DEF Runs
    <2>2. Transferred(Head(wire))
      BY <1>3, <2>1 DEF Receive, Requests, Access, Transfers
    <2> QED BY <1>1, <1>2, <1>5, <2>2, TransferredCalm
  <1> QED BY <1>3, <1>4, <1>5

(* What does not touch the connection leaves it as it is.                   *)
LEMMA StaysCalm ==
  ASSUME Calm, ~errInfo', Rest' = Rest,
         UNCHANGED <<plan, awaited, task, client, resolver, data, up, pollers, loops, wire, xfer>>
  PROVE  Calm'
  <1>1. Step' = Step /\ (Live' <=> Live) /\ (Still' <=> Still)
    BY DEF Step, Live, Still
  <1>2. (Idle => Idle') /\ (Asks => Asks')
    BY <1>1 DEF Idle, Asks
  <1>3. ASSUME Runs PROVE Runs'
    <2>1. OwnJobs' /\ OwnTransfer'
      BY <1>1, <1>3 DEF Runs, OwnJobs, OwnTransfer
    <2>2. Listed'
      BY <1>1, <1>3 DEF Runs, Listed
    <2>3. RefusalComes' \/ MarkComes' \/ EndComes'
      BY <1>1, <1>3 DEF Runs, RefusalComes, MarkComes, EndComes
    <2> QED BY <1>3, <2>1, <2>2, <2>3, RunsOn
  <1> QED BY <1>1, <1>2, <1>3 DEF Calm

(* A connection that is closed or lost while no transfer is under way.      *)
LEMMA OutsideCalm ==
  ASSUME Inv, ReadInv, WriteInv, Calm, Unmissed, ~hit',
         ControlClosed \/ Switch \/ Lose \/ FinishClose
  PROVE  Calm' /\ Unmissed'
  <1>1. UNCHANGED <<errInfo, pollers, loops>>
    BY DEF ControlClosed, Switch, Lose, FinishClose, dataVars, jobVars
  <1>2. client \in [gen : Nat, state : States] /\ ~errInfo
    BY CalmIs DEF Inv, TypeOK, ContextOK
  <1>3. CASE ControlClosed \/ Switch \/ Lose
    <2>1. Step \notin Transfers /\ Still
      <3>1. CASE ControlClosed
        <4>1. ~Live
          BY <3>1 DEF ControlClosed, Live
        <4> QED BY <4>1, CalmIs
      <3>2. CASE Switch \/ Lose
        <4>1. Step \notin Transfers
          BY <3>2 DEF Switch, Lose, InTransfer
        <4> QED BY <4>1, CalmIs
      <3> QED BY <1>3, <3>1, <3>2
    <2>2. UNCHANGED callVars /\ (xfer' = xfer \/ xfer' = NoTransfer)
      BY <1>3 DEF ControlClosed, Switch, Lose, serverVars
    <2>3. Step' = Step /\ ops' = ops
      BY <2>2 DEF callVars, Step
    <2>4. client'.state \in {"dead", "closing"}
      BY <1>2, <1>3 DEF ControlClosed, Switch, Lose, Closing
    <2>5. ~Live' /\ client'.state # "new"
      BY <2>4 DEF Live
    <2>6. Calm'
      BY <1>1, <1>2, <2>1, <2>2, <2>3, <2>5, CalmClosed DEF Still
    <2> QED BY <2>3, <2>6, UnmissedStays
  <1>4. CASE FinishClose
    <2>1. /\ client.state = "closing" /\ xfer' = xfer
          /\ \/ /\ Fails /\ awaited = task.id /\ task # NoTask
                /\ client' = AfterFailure([client EXCEPT !.state = "closed"])
             \/ UNCHANGED callVars /\ client' = [client EXCEPT !.state = "closed"]
      BY <1>4 DEF FinishClose, serverVars
    <2>2. ~Live
      BY <2>1 DEF Live
    <2>3. Step \notin Transfers /\ Still
      BY <2>2, CalmIs
    <2>4. client'.state \in {"closed", "none"}
      BY <1>2, <2>1 DEF AfterFailure
    <2>5. ~Live' /\ client'.state # "new"
      BY <2>4 DEF Live
    <2>6. CASE Fails /\ awaited = task.id /\ task # NoTask
      <3>1. cur # 0
        <4>1. awaited # 0
          BY <2>6, Typed
        <4> QED BY <4>1, Busy
      <3>2. Unmissed' /\ Step' \notin Transfers
        BY <2>6, <3>1, Follows
      <3> QED BY <1>1, <1>2, <2>1, <2>3, <2>5, <3>2, CalmClosed DEF Still
    <2>7. CASE UNCHANGED callVars
      <3>1. Step' = Step /\ Unmissed'
        BY <2>7, UnmissedStays DEF callVars, Step
      <3> QED BY <1>1, <1>2, <2>1, <2>3, <2>5, <3>1, CalmClosed DEF Still
    <2> QED BY <2>1, <2>6, <2>7
  <1> QED BY <1>3, <1>4

(* A chunk arrives, or the file changes.                                    *)
LEMMA ArrivesCalm ==
  ASSUME Inv, ReadInv, WriteInv, Calm, Unmissed, Deliver \/ Resize
  PROVE  Calm' /\ Unmissed'
  <1>1. UNCHANGED <<callVars, contextVars, data, up, jobVars, wire, xfer>>
    BY DEF Deliver, Resize, dataVars, serverVars
  <1>2. Rest' = Rest
    <2>1. CASE Deliver
      BY <2>1, DeliverReads
    <2>2. CASE Resize
      BY <1>1, <2>2 DEF Resize, dataVars, Rest, Todo, callVars
    <2> QED BY <2>1, <2>2
  <1>3. ~errInfo'
    BY CalmIs DEF Deliver, Resize, dataVars
  <1>4. UNCHANGED <<ops, plan, awaited, task, client, resolver, pollers, loops>>
    BY <1>1 DEF callVars, contextVars, jobVars
  <1> QED BY <1>1, <1>2, <1>3, <1>4, StaysCalm, UnmissedStays

(* The server sends a chunk of the transfer under way.                      *)
LEMMA ServerSendsCalm ==
  ASSUME Inv, ReadInv, WriteInv, Calm, Unmissed, ServerSends
  PROVE  Calm' /\ Unmissed'
  <1>1. /\ xfer.todo # <<>> /\ xfer' = [xfer EXCEPT !.todo = Tail(@)]
        /\ UNCHANGED <<callVars, contextVars, data, up, errInfo, jobVars, wire>>
    BY DEF ServerSends
  <1>2. UNCHANGED <<ops, plan, awaited, task, client, resolver, pollers, loops>> /\ Step' = Step
    BY <1>1 DEF callVars, contextVars, jobVars, Step
  <1>3. xfer # NoTransfer
    BY <1>1, NoTransferIs
  <1>4. Live /\ Runs /\ ~errInfo
    BY <1>3, CalmIs
  <1>5. /\ xfer'.id = xfer.id /\ xfer'.socket = xfer.socket
        /\ xfer'.cmd = xfer.cmd /\ xfer'.ended = xfer.ended
    BY <1>1, Typed DEF Transferring
  <1>6. Rest' = Rest
    BY ChunkSent
  <1>7. OwnJobs' /\ OwnTransfer'
    BY <1>1, <1>2, <1>3, <1>4, <1>5 DEF Runs, OwnJobs, OwnTransfer
  <1>8. Listed'
    BY <1>1, <1>2, <1>4, <1>6 DEF Runs, Listed
  <1>9. MarkComes' \/ EndComes'
    BY <1>1, <1>2, <1>3, <1>4 DEF Runs, RefusalComes, MarkComes, EndComes, Still
  <1>10. Runs' /\ Live' /\ ~errInfo'
    BY <1>1, <1>2, <1>4, <1>7, <1>8, <1>9, RunsOn DEF Live
  <1> QED BY <1>2, <1>10, CalmOpen, UnmissedStays

(* An answer comes behind the first one, or as the only one.                *)
LEMMA Behind ==
  ASSUME NEW w \in Seq(Replies), NEW r \in Replies
  PROVE  /\ w = <<>> => Len(Append(w, r)) = 1 /\ Append(w, r)[1] = r
         /\ Len(w) = 1 => Len(Append(w, r)) = 2 /\ Append(w, r)[1] = w[1] /\ Append(w, r)[2] = r
         /\ Len(w) = 1 => w # <<>>
  <1> DEFINE a == Append(w, r)
             n == Len(w)
  <1>1. n \in Nat /\ Len(a) = n + 1 /\ a[n + 1] = r /\ \A i \in 1 .. n : a[i] = w[i]
    OBVIOUS
  <1>2. w = <<>> <=> n = 0
    BY EmptySeq
  <1> HIDE DEF a, n
  <1>3. n = 0 => Len(a) = 1 /\ a[1] = r
    BY <1>1
  <1>4. n = 1 => Len(a) = 2 /\ a[1] = w[1] /\ a[2] = r
    BY <1>1
  <1>5. n = 1 => n # 0
    OBVIOUS
  <1> QED BY <1>2, <1>3, <1>4, <1>5 DEF a, n

(* The server confirms the transfer under way.                              *)
LEMMA ServerConfirmsCalm ==
  ASSUME Inv, ReadInv, WriteInv, Calm, Unmissed, ServerConfirms
  PROVE  Calm' /\ Unmissed'
  <1> DEFINE r == Answer(xfer.id, xfer.cmd, "ok")
  <1>1. /\ xfer # NoTransfer /\ xfer.todo = <<>> /\ xfer' = NoTransfer
        /\ wire' = Append(wire, r)
        /\ UNCHANGED <<plan, awaited, contextVars, dataVars, jobVars>>
    BY DEF ServerConfirms
  <1>2. r.code = "ok" /\ r \in Replies
    BY <1>1, TransferTyped DEF Answer, Replies
  <1> HIDE DEF r
  <1>3. /\ UNCHANGED <<task, client, resolver, pollers, loops, data, up, errInfo, cache, pipe>>
        /\ Step' = Step
    BY <1>1 DEF contextVars, dataVars, jobVars, Step
  <1>4. Live /\ Runs /\ ~errInfo
    BY <1>1, CalmIs
  <1>5. Rest' = Rest
    <2>1. Todo = <<>> /\ Todo' = <<>>
      BY <1>1, NoTransferIs DEF Todo
    <2> QED BY <1>3, <2>1 DEF Rest
  <1>6. OwnJobs' /\ OwnTransfer'
    BY <1>1, <1>3, <1>4 DEF Runs, OwnJobs, OwnTransfer
  <1>7. /\ wire = <<>> => Len(wire') = 1 /\ wire'[1] = r
        /\ Len(wire) = 1 => Len(wire') = 2 /\ wire'[1] = wire[1] /\ wire'[2] = r
        /\ Len(wire) = 1 => wire # <<>>
    BY <1>1, <1>2, Typed, Behind
  <1>8. MarkComes \/ EndComes
    BY <1>1, <1>4 DEF Runs, RefusalComes, Still
  <1>9. CASE MarkComes
    <2>1. Len(wire) = 1
      BY <1>1, <1>9 DEF MarkComes
    <2>2. Len(wire') = 2 /\ wire'[1] = wire[1] /\ wire'[2].code = "ok" /\ wire # <<>>
      BY <1>2, <1>7, <2>1
    <2>3. MarkComes'
      BY <1>1, <1>3, <1>9, <2>2 DEF MarkComes
    <2>4. Listed'
      BY <1>1, <1>3, <1>4, <1>5, <2>2 DEF Runs, Listed
    <2>5. Runs' /\ Live' /\ ~errInfo'
      BY <1>1, <1>3, <1>4, <1>6, <2>3, <2>4, RunsOn DEF Live
    <2> QED BY <2>5, CalmOpen, ConfirmNoted, UnmissedStays
  <1>10. CASE EndComes
    <2>1. wire = <<>> /\ ~resolver.answered
      BY <1>1, <1>10 DEF EndComes
    <2>2. Len(wire') = 1 /\ wire'[1].code = "ok"
      BY <1>2, <1>7, <2>1
    <2>3. EndComes'
      BY <1>1, <1>3, <1>10, <2>1, <2>2 DEF EndComes
    <2>4. Listed'
      BY <1>1, <1>3, <1>4, <1>5, <2>2 DEF Runs, Listed
    <2>5. Runs' /\ Live' /\ ~errInfo'
      BY <1>1, <1>3, <1>4, <1>6, <2>3, <2>4, RunsOn DEF Live
    <2> QED BY <2>5, CalmOpen, ConfirmNoted, UnmissedStays
  <1> QED BY <1>8, <1>9, <1>10

(* The data connection of the transfer under way is not gone.               *)
LEMMA NothingNoticed ==
  ASSUME Inv, WriteInv, Calm, ServerNotices
  PROVE  FALSE
  <1>1. xfer # NoTransfer
    BY DEF ServerNotices, ServerGivesUp
  <1>2. OwnTransfer
    BY <1>1, CalmIs DEF Runs
  <1> QED BY <1>1, <1>2 DEF OwnTransfer, ServerNotices

(* A poller is that of the download under way.                              *)
LEMMA OwnPoller ==
  ASSUME Inv, ReadInv, WriteInv, Calm, NEW p \in pollers
  PROVE  /\ Live /\ Runs /\ EndComes /\ ~errInfo /\ ~resolver.done
         /\ pollers = {p} /\ loops = {} /\ p.id = awaited /\ p \in Pollers
         /\ awaited # 0 /\ cur # 0 /\ Step \in Transfers
         /\ wire # <<>> => wire[1].code # "mark"
  <1>1. Live /\ Runs /\ ~errInfo /\ p \in Pollers
    BY CalmIs DEF Inv, TypeOK, DataOK
  <1>2. p.id = awaited /\ pollers = {p} /\ awaited # 0 /\ Step \in Transfers
    BY <1>1 DEF Runs, OwnJobs
  <1>3. EndComes
    BY <1>1 DEF Runs, RefusalComes, MarkComes, Still
  <1>4. loops = {}
    <2>1. \A l \in loops : l.id = awaited
      BY <1>1 DEF Runs, OwnJobs
    <2>2. Step # "STOR" /\ \A l \in loops : l.id = awaited => Step = "STOR"
      BY <1>2 DEF ReadInv, Owned
    <2> QED BY <2>1, <2>2
  <1> QED BY <1>1, <1>2, <1>3, <1>4, Busy DEF EndComes

(* And a loop that of the upload.                                           *)
LEMMA OwnLoop ==
  ASSUME Inv, ReadInv, WriteInv, Calm, NEW l \in loops
  PROVE  /\ Live /\ Runs /\ EndComes /\ ~errInfo /\ ~resolver.done
         /\ loops = {l} /\ pollers = {} /\ l.id = awaited /\ l \in Loops
         /\ data = l.socket /\ up
         /\ awaited # 0 /\ cur # 0 /\ Step = "STOR"
  <1>1. Live /\ Runs /\ ~errInfo /\ l \in Loops
    BY CalmIs DEF Inv, TypeOK, DataOK
  <1>2. l.id = awaited /\ loops = {l} /\ data = l.socket /\ up /\ awaited # 0
    BY <1>1 DEF Runs, OwnJobs
  <1>3. EndComes
    BY <1>1 DEF Runs, RefusalComes, MarkComes, Still
  <1>4. Step = "STOR"
    BY <1>2 DEF ReadInv, Owned
  <1>5. pollers = {}
    <2>1. \A p \in pollers : p.id = awaited
      BY <1>1 DEF Runs, OwnJobs
    <2>2. \A p \in pollers : p.id = awaited => Step \in {"RETR", "LIST"}
      BY <1>2 DEF ReadInv, Owned
    <2> QED BY <1>4, <2>1, <2>2
  <1> QED BY <1>1, <1>2, <1>3, <1>4, <1>5, Busy DEF EndComes

(* The poller goes on, with what it has got and how long it has waited.     *)
LEMMA PollsOn ==
  ASSUME Inv, ReadInv, WriteInv, Calm, Unmissed, NEW p \in pollers, NEW q, pollers' = {q}, q.id = p.id,
         q.size = p.size, Step = "LIST" => (q.idle > 0 => Rest' = <<>>) /\ (q.got = 0 => Rest' # <<>>),
         OldOps \/ ops' = ops,
         UNCHANGED <<plan, awaited, task, client, resolver, data, up, errInfo, loops, wire, xfer>>
  PROVE  Calm' /\ Unmissed'
  <1>1. Runs /\ EndComes /\ ~errInfo /\ ~resolver.done /\ loops = {} /\ p.id = awaited /\ Live
    BY OwnPoller
  <1>2. wire # <<>> => wire[1].code # "mark"
    BY OwnPoller
  <1>3. Step' = Step
    BY DEF Step
  <1>4. OwnJobs' /\ OwnTransfer'
    <2>1. loops' = {}
      BY <1>1
    <2>2. OwnJobs'
      BY <1>1, <2>1 DEF OwnJobs
    <2> QED BY <1>1, <1>3, <2>2 DEF Runs, OwnTransfer
  <1>5. EndComes'
    BY <1>1 DEF EndComes
  <1>6. Listed'
    <2> SUFFICES ASSUME Step = "LIST" PROVE Listed'
      BY <1>3 DEF Listed
    <2>1. p.size = 0
      BY <1>1 DEF Runs, Listed
    <2> QED BY <1>1, <1>2, <2>1 DEF Listed
  <1>7. Runs' /\ Live'
    BY <1>1, <1>4, <1>5, <1>6, RunsOn DEF Live
  <1> QED BY <1>1, <1>7, CalmOpen, UnmissedStays

(* It takes what has come.                                                  *)
LEMMA PollTakesCalm ==
  ASSUME Inv, ReadInv, WriteInv, Calm, Unmissed, NEW p \in pollers, PollTakes(p),
         UNCHANGED <<handles, mode, up, errInfo, loops, serverVars>>
  PROVE  Calm' /\ Unmissed'
  <1> DEFINE n == p.got + Len(cache)
             q == [p EXCEPT !.got = n, !.idle = 0]
  <1>1. pollers = {p} /\ p.id = awaited /\ p \in Pollers
    BY OwnPoller
  <1>2. /\ pollers' = (pollers \ {p}) \cup {q} /\ cache # <<>>
        /\ UNCHANGED <<plan, awaited, task, resolver, data, client>>
    BY <1>1 DEF PollTakes, Alive
  <1>3. n # 0
    <2>1. p.got \in Nat /\ Len(cache) \in Nat /\ Len(cache) # 0
      BY <1>2, Typed, EmptySeq
    <2> QED BY <2>1
  <1> HIDE DEF n
  <1>4. q.id = p.id /\ q.size = p.size /\ q.idle = 0 /\ q.got = n
    BY <1>1 DEF Pollers
  <1> HIDE DEF q
  <1>5. pollers' = {q}
    BY <1>1, <1>2
  <1>6. ~(q.idle > 0) /\ q.got # 0
    BY <1>3, <1>4
  <1>7. UNCHANGED <<wire, xfer>> /\ OldOps
    BY TakesNoted DEF serverVars
  <1> QED BY <1>2, <1>4, <1>5, <1>6, <1>7, PollsOn

(* It waits, for nothing is on the way.                                     *)
LEMMA PollWaitsCalm ==
  ASSUME Inv, ReadInv, WriteInv, Calm, Unmissed, ~hit', NEW p \in pollers, PollWaits(p),
         UNCHANGED <<handles, mode, up, errInfo, loops, serverVars>>
  PROVE  Calm' /\ Unmissed'
  <1> DEFINE q == [p EXCEPT !.idle = @ + 1]
  <1>1. pollers = {p} /\ p.id = awaited /\ p \in Pollers /\ Runs
    BY OwnPoller
  <1>2. /\ pollers' = (pollers \ {p}) \cup {q} /\ cache = <<>> /\ pipe = <<>>
        /\ xfer.id = p.id => xfer.todo = <<>>
        /\ UNCHANGED <<callVars, task, resolver, data, pipe, client, cache>>
    BY DEF PollWaits
  <1>3. q.id = p.id /\ q.size = p.size /\ q.got = p.got
    BY <1>1 DEF Pollers
  <1> HIDE DEF q
  <1>4. pollers' = {q}
    BY <1>1, <1>2
  <1>5. UNCHANGED <<wire, xfer, ops, plan, awaited>>
    BY <1>2 DEF serverVars, callVars
  <1>6. Rest = <<>> /\ Rest' = Rest
    <2>1. Todo = <<>>
      BY <1>1, <1>2 DEF Todo
    <2>2. Rest = <<>>
      BY <1>2, <2>1 DEF Rest
    <2> QED BY <1>2, <1>5, <2>2 DEF Rest, Todo
  <1>7. Step = "LIST" => q.got # 0
    BY <1>1, <1>3, <1>6 DEF Runs, Listed
  <1> QED BY <1>2, <1>3, <1>4, <1>5, <1>6, <1>7, PollsOn

(* It has got all of the file, or nothing came any more.                    *)
LEMMA PollEndsCalm ==
  ASSUME Inv, ReadInv, WriteInv, Calm, Unmissed, NEW p \in pollers, PollEnds(p),
         UNCHANGED <<handles, mode, up, errInfo, loops, serverVars>>
  PROVE  Calm' /\ Unmissed'
  <1> DEFINE s == [resolver EXCEPT !.done = TRUE, !.got = p.got]
  <1>1. /\ Runs /\ EndComes /\ ~errInfo /\ pollers = {p} /\ loops = {} /\ p.id = awaited
        /\ p \in Pollers /\ Live /\ cur # 0 /\ Step \in Transfers /\ awaited # 0
    BY OwnPoller
  <1>2. wire # <<>> => wire[1].code # "mark"
    BY OwnPoller
  <1>3. /\ pollers' = {} /\ loops' = {} /\ Enough(p) /\ TryResolve(s)
        /\ UNCHANGED <<client, cache, wire, xfer, errInfo, up>>
    BY <1>1 DEF PollEnds, DownloadDone, Alive, Live, serverVars
  <1>4. s.done /\ s.answered = resolver.answered /\ s.got = p.got
    BY <1>1 DEF Inv, TypeOK, ContextOK, Resolvers
  <1> HIDE DEF s
  <1>5. Step = "LIST" => p.got # 0
    <2> SUFFICES ASSUME Step = "LIST" PROVE p.got # 0
      OBVIOUS
    <2>1. /\ p.size = 0 /\ (p.idle > 0 => Rest = <<>>)
          /\ p.got = 0 => Rest # <<>>
      BY <1>1 DEF Runs, Listed
    <2>2. p.idle \in Nat /\ Patience \in Nat /\ p.idle > Patience
      BY <1>1, <1>3, <2>1, BoundAssumption DEF Enough, Pollers
    <2>3. p.idle > 0
      BY <2>2
    <2> QED BY <2>1, <2>3
  <1>6. Live' /\ ~errInfo'
    BY <1>1, <1>3 DEF Live
  <1>7. ASSUME CanResolve(s)
        PROVE  Still' /\ wire' = <<>> /\ (Step = "LIST" => s.got # 0)
    <2>1. resolver.answered
      BY <1>4, <1>7 DEF CanResolve
    <2>2. xfer = NoTransfer /\ wire = <<>>
      BY <1>1, <2>1 DEF EndComes
    <2> QED BY <1>3, <1>4, <1>5, <2>2 DEF Still
  <1>8. ASSUME resolver' = s, UNCHANGED <<data, pipe, task, callVars>>
        PROVE  Runs'
    <2>1. UNCHANGED <<plan, awaited>> /\ Step' = Step
      BY <1>8 DEF callVars, Step
    <2>2. OwnJobs'
      BY <1>3 DEF OwnJobs
    <2>3. OwnTransfer'
      BY <1>1, <1>3, <1>8, <2>1 DEF Runs, OwnTransfer
    <2>4. Listed'
      BY <1>2, <1>3, <1>4, <1>5, <1>8, <2>1 DEF Listed
    <2>5. EndComes'
      BY <1>1, <1>3, <1>4, <1>8 DEF EndComes
    <2> QED BY <1>1, <1>8, <2>1, <2>2, <2>3, <2>4, <2>5, RunsOn
  <1> QED BY <1>1, <1>3, <1>6, <1>7, <1>8, TriesCalm

(* The poller.                                                              *)
LEMMA PollCalm ==
  ASSUME Inv, ReadInv, WriteInv, Calm, Unmissed, ~hit', Poll
  PROVE  Calm' /\ Unmissed'
  <1>1. /\ UNCHANGED <<handles, mode, up, errInfo, loops, serverVars>>
        /\ \E p \in pollers : PollError(p) \/ PollTakes(p) \/ PollWaits(p) \/ PollEnds(p)
    BY DEF Poll
  <1>2. PICK p \in pollers : PollError(p) \/ PollTakes(p) \/ PollWaits(p) \/ PollEnds(p)
    BY <1>1
  <1>3. ~PollError(p)
    BY OwnPoller DEF PollError
  <1> QED BY <1>1, <1>2, <1>3, PollTakesCalm, PollWaitsCalm, PollEndsCalm

(* A loop sends; when it ends, the server will see the end of the data.     *)
LEMMA SendCalm ==
  ASSUME Inv, ReadInv, WriteInv, Calm, Unmissed, Send
  PROVE  Calm' /\ Unmissed'
  <1>1. PICK l \in loops : LoopSends(l) \/ LoopFails(l) \/ LoopEnds(l)
    BY DEF Send
  <1>2. /\ Live /\ Runs /\ EndComes /\ ~errInfo /\ loops = {l} /\ pollers = {}
        /\ l.id = awaited /\ l \in Loops /\ data = l.socket /\ up
        /\ awaited # 0 /\ cur # 0 /\ Step = "STOR"
    BY OwnLoop
  <1>3. UNCHANGED <<errInfo, pollers, wire>>
    BY DEF Send
  <1>4. CASE LoopSends(l)
    <2> DEFINE m == [l EXCEPT !.left = @ - 1]
    <2>1. /\ loops' = (loops \ {l}) \cup {m}
          /\ UNCHANGED <<callVars, task, client, data, pipe, up, resolver, xfer>>
      BY <1>4 DEF LoopSends
    <2>2. m.id = l.id /\ m.socket = l.socket
      BY <1>2 DEF Loops
    <2> HIDE DEF m
    <2>3. loops' = {m} /\ pollers' = {}
      BY <1>2, <1>3, <2>1
    <2>4. UNCHANGED <<ops, plan, awaited>> /\ Step' = Step
      BY <2>1 DEF callVars, Step
    <2>5. OwnJobs'
      BY <1>2, <2>1, <2>2, <2>3, <2>4 DEF OwnJobs
    <2>6. OwnTransfer'
      BY <1>2, <2>1, <2>4 DEF Runs, OwnTransfer
    <2>7. Listed'
      BY <1>2, <2>4 DEF Listed
    <2>8. EndComes'
      <3>1. ~resolver'.done
        BY <2>1, OwnLoop
      <3> QED BY <1>2, <1>3, <2>1, <3>1 DEF EndComes
    <2>9. Runs' /\ Live' /\ ~errInfo'
      BY <1>2, <1>3, <2>1, <2>4, <2>5, <2>6, <2>7, <2>8, RunsOn DEF Live
    <2> QED BY <2>4, <2>9, CalmOpen, UnmissedStays
  <1>5. CASE LoopFails(l)
    BY <1>2, <1>5 DEF LoopFails, Open
  <1>6. CASE LoopEnds(l)
    <2> DEFINE s == [resolver EXCEPT !.done = TRUE]
    <2>1. /\ loops' = {} /\ up' = FALSE /\ UNCHANGED client
          /\ xfer' = IF xfer.id = l.id THEN [xfer EXCEPT !.ended = TRUE] ELSE xfer
          /\ TryResolve(s)
      BY <1>2, <1>6 DEF LoopEnds, Alive, Live
    <2>2. s.answered = resolver.answered
      BY DEF Inv, TypeOK, ContextOK, Resolvers
    <2> HIDE DEF s
    <2>3. pollers' = {} /\ Live' /\ ~errInfo'
      BY <1>2, <1>3, <2>1 DEF Live
    <2>4. xfer = NoTransfer => xfer' = NoTransfer
      BY <1>2, <2>1, NoTransferIs
    <2>5. ASSUME CanResolve(s)
          PROVE  Still' /\ wire' = <<>> /\ (Step = "LIST" => s.got # 0)
      <3>1. resolver.answered
        BY <2>2, <2>5 DEF CanResolve
      <3>2. xfer = NoTransfer /\ wire = <<>>
        BY <1>2, <3>1 DEF EndComes
      <3> QED BY <1>2, <1>3, <2>1, <2>3, <2>4, <3>2 DEF Still
    <2>6. ASSUME resolver' = s, UNCHANGED <<data, pipe, task, callVars>>
          PROVE  Runs'
      <3>1. UNCHANGED <<plan, awaited>> /\ Step' = Step
        BY <2>6 DEF callVars, Step
      <3>2. OwnJobs'
        BY <2>1, <2>3 DEF OwnJobs
      <3>3. OwnTransfer'
        <4> SUFFICES ASSUME xfer' # NoTransfer PROVE OwnTransfer'
          BY DEF OwnTransfer
        <4>1. /\ xfer # NoTransfer /\ xfer.id = awaited /\ xfer.cmd = Step
              /\ data = xfer.socket /\ data # 0
          BY <1>2, <2>4 DEF Runs, OwnTransfer
        <4>2. /\ xfer'.id = xfer.id /\ xfer'.cmd = xfer.cmd /\ xfer'.socket = xfer.socket
              /\ xfer'.ended
          BY <1>2, <2>1, <4>1, Typed DEF Transferring
        <4> QED BY <1>2, <2>6, <3>1, <4>1, <4>2 DEF OwnTransfer
      <3>4. Listed'
        BY <1>2, <3>1 DEF Listed
      <3>5. EndComes'
        BY <1>2, <1>3, <2>1, <2>2, <2>3, <2>4, <2>6 DEF EndComes
      <3> QED BY <1>2, <2>6, <3>1, <3>2, <3>3, <3>4, <3>5, RunsOn
    <2>7. Step \in Transfers
      BY <1>2 DEF Transfers
    <2> QED BY <1>2, <2>1, <2>3, <2>5, <2>6, <2>7, TriesCalm
  <1> QED BY <1>1, <1>4, <1>5, <1>6

(* A fault that hit a transfer is not forgotten.                            *)
LEMMA HitStays ==
  ASSUME [Next]_vars, hit
  PROVE  hit'
  <1>1. CASE UNCHANGED vars
    BY <1>1 DEF vars, faultVars
  <1>2. CASE \E kind \in Kinds, again \in BOOLEAN : Begin(kind, again)
    BY <1>2 DEF Begin, faultVars
  <1>3. CASE Ensure \/ Handle \/ Receive
    BY <1>3 DEF Ensure, Handle, Receive, faultVars
  <1>4. CASE ControlClosed \/ FinishClose
    BY <1>4 DEF ControlClosed, FinishClose, faultVars
  <1>5. CASE Poll
    BY <1>5 DEF Poll, PollError, PollTakes, PollWaits, PollEnds
  <1>6. CASE Send
    BY <1>6 DEF Send, faultVars
  <1>7. CASE Network
    BY <1>7 DEF Network, Deliver, ServerSends, ServerConfirms, ServerNotices, faultVars
  <1>8. CASE Abort \/ Drop \/ Lose \/ Switch \/ Resize
    BY <1>8 DEF Abort, Drop, Lose, Switch, Resize
  <1> QED BY <1>1, <1>2, <1>3, <1>4, <1>5, <1>6, <1>7, <1>8 DEF Next, Program

(* Nothing is listed at first.                                              *)
LEMMA NothingListed == Init => ListInv
  <1> SUFFICES ASSUME Init PROVE ListInv
    OBVIOUS
  <1>1. Unmissed
    BY DEF Init, Unmissed
  <1>2. ~Live /\ Still /\ ~errInfo /\ client.state # "new"
    BY DEF Init, Live, Still
  <1>3. Step \notin Transfers
    BY DEF Init, Step, Transfers
  <1> QED BY <1>1, <1>2, <1>3 DEF ListInv, Calm

(* Every step keeps the connection in order, or is the first fault that     *)
(* hits a transfer.                                                         *)
LEMMA NextLists ==
  ASSUME Inv, ReadInv, WriteInv, ListInv, [Next]_vars
  PROVE  ListInv'
  <1> SUFFICES ASSUME ~hit' PROVE Calm' /\ Unmissed'
    BY DEF ListInv
  <1>1. Calm /\ Unmissed
    BY HitStays DEF ListInv
  <1>2. CASE UNCHANGED vars
    <2>1. UNCHANGED <<callVars, contextVars, dataVars, jobVars, serverVars>>
      BY <1>2 DEF vars
    <2>2. /\ UNCHANGED <<plan, awaited, task, client, resolver, data, up, pollers, loops, wire, xfer>>
          /\ UNCHANGED <<ops, errInfo, cache, pipe>>
      BY <2>1 DEF callVars, contextVars, dataVars, jobVars, serverVars
    <2>3. Rest' = Rest /\ ~errInfo'
      BY <1>1, <2>2, CalmIs DEF Rest, Todo
    <2> QED BY <1>1, <2>2, <2>3, StaysCalm, UnmissedStays
  <1>3. CASE \E kind \in Kinds, again \in BOOLEAN : Begin(kind, again)
    BY <1>1, <1>3, BeginCalm
  <1>4. CASE Program
    BY <1>1, <1>4, EnsureCalm, HandleCalm, ReceiveCalm, OutsideCalm DEF Program
  <1>5. CASE Poll
    BY <1>1, <1>5, PollCalm
  <1>6. CASE Send
    BY <1>1, <1>6, SendCalm
  <1>7. CASE Network
    BY <1>1, <1>7, ArrivesCalm, ServerSendsCalm, ServerConfirmsCalm, NothingNoticed DEF Network
  <1>8. CASE Abort \/ Drop \/ Lose \/ Switch \/ Resize
    BY <1>1, <1>8, OutsideCalm, ArrivesCalm DEF Abort, Drop
  <1> QED BY <1>2, <1>3, <1>4, <1>5, <1>6, <1>7, <1>8 DEF Next

(* getInfoOrNull() says that a file that is there does not exist only when  *)
(* a fault hit a transfer: refusals, failed logins, and connections lost or *)
(* closed between two transfers, never make a listing come back empty, and  *)
(* no listing is over before its chunk has come.                            *)
THEOREM MissingOnlyWhenLate == Spec => []MissingIsLate
  <1>1. Init => Inv /\ ReadInv /\ WriteInv /\ ListInv
    BY InitOK, NothingRead, NothingWritten, NothingListed
  <1>2. Inv /\ ReadInv /\ WriteInv /\ ListInv /\ [Next]_vars
        => Inv' /\ ReadInv' /\ WriteInv' /\ ListInv'
    BY NextKeeps, NextReads, NextWrites, NextLists
  <1>3. ListInv => MissingIsLate
    BY DEF ListInv, Unmissed, MissingIsLate
  <1> QED BY <1>1, <1>2, <1>3, PTL DEF Spec
=============================================================================
