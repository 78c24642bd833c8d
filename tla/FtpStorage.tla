----------------------------- MODULE FtpStorage -----------------------------
(***************************************************************************)
(* The FTP storage: the queue of operations of FTPStorage.ets, the handler *)
(* that keeps one control connection (FTPHandler.ets), and the client      *)
(* library under it (libs/basic-ftp): a context with one task at a time,   *)
(* passive data connections, and transfers that are over only when the     *)
(* data is done and the server has said so.                                *)
(*                                                                         *)
(* An operation is a plan of steps, one after the other; a step is one     *)
(* call of FTPContext.handle() and its task.  Tasks are numbered; a data   *)
(* socket has the number of the task whose answer opened it.  A file is a  *)
(* sequence of chunks; a directory listing is one chunk.                   *)
(*                                                                         *)
(* Taken from the platform and the server (external): a chunk sent on a    *)
(* connection that stands arrives, in order; a control connection that is  *)
(* gone is reported by 'close'; getState() and close() of it resolve, and  *)
(* setExtraOptions() on it may reject; a server answers every command, and *)
(* confirms an upload only when it saw the orderly end of the data; it     *)
(* takes commands in turn, the next when the transfer before has ended.    *)
(***************************************************************************)
EXTENDS Naturals, Sequences, FiniteSets

CONSTANTS
  Kinds,      \* the kinds of operation the callers ask for
  FileSize,   \* bound: chunks of a remote file
  MaxOps,     \* bound: operations
  Faults,     \* the kinds of fault that happen
  MaxFaults,  \* bound: faults
  Patience    \* empty polls before a listing is over: 10 in downloadTo()

AllKinds == {"read", "load", "write", "save", "info"}
AllFaults == {"refuse", "abort", "drop", "lose", "switch", "resize", "slow"}

ASSUME KindAssumption == Kinds \subseteq AllKinds /\ Faults \subseteq AllFaults
ASSUME BoundAssumption == /\ FileSize \in Nat \ {0} /\ MaxOps \in Nat
                          /\ MaxFaults \in Nat /\ Patience \in Nat

VARIABLES
  ops,       \* history: the operations and what they came to
  cur,       \* the one the queue runs, 0 if none
  plan,      \* its steps to come, the one under way first
  awaited,   \* the task its code waits for, 0 if none
  task,      \* FTPContext._task
  handles,   \* history: tasks so far, to number them
  client,    \* the handler's client, and how its context stands
  mode,      \* prepareTransfer: the strategy found to work, or "any"
  data,      \* FTPContext.dataSocket, 0 if undefined
  up,        \* its connection stands
  resolver,  \* TransferResolver of the last transfer, and the chunks it got
  cache,     \* cacheData: chunks that arrived and nobody took yet
  errInfo,   \* cacheData: an error is set
  pollers,   \* the intervals of downloadTo()
  loops,     \* the read-and-send loops of uploadFrom()
  pipe,      \* chunks under way to the data socket
  wire,      \* answers under way to the control socket
  listener,  \* the server: where the next data connection is expected
  xfer,      \* the server: the transfer it is in
  remote,    \* the server: the file
  faults,    \* faults so far
  hit        \* history: a fault hit a transfer

callVars == <<ops, cur, plan, awaited>>
contextVars == <<task, handles, client, mode, resolver>>
dataVars == <<data, up, cache, errInfo, pipe>>
jobVars == <<pollers, loops>>
serverVars == <<wire, listener, xfer, remote>>
faultVars == <<faults, hit>>
vars == <<callVars, contextVars, dataVars, jobVars, serverVars, faultVars>>

Access == {"CONNECT", "OPTS", "USER", "TYPE"}
Requests == Access \cup {"SIZE", "EPSV", "PASV"}
Transfers == {"RETR", "LIST", "STOR"}
Steps == {"ENSURE"} \cup Requests \cup Transfers

Chunk == [of : 0 .. MaxOps + 1, n : 1 .. FileSize]
Told == {"", "ok", "missing", "failed"}

(* before: what was in the local file; size: what SIZE said; want: what the *)
(* server had when the transfer began; stored: it confirmed our upload.     *)
Operation == [kind : Kinds, before : Seq(Chunk), local : Seq(Chunk), size : Nat,
              want : Seq(Chunk), stored : BOOLEAN, told : Told]

NoTask == [id |-> 0, cmd |-> ""]
NoAnswers == [done |-> FALSE, answered |-> FALSE, got |-> 0]
NoTransfer == [op |-> 0, id |-> 0, cmd |-> "", socket |-> 0, todo |-> <<>>, ended |-> FALSE]

Content(of, size) == [n \in 1 .. size |-> [of |-> of, n |-> n]]
Listing == Content(0, 1)

(* access() and what FTPHandler.doConnect() adds to it.                     *)
Login == <<"CONNECT", "OPTS", "USER", "TYPE">>

(* downloadTo() of a file, uploadFrom() of a file, list() of a directory:   *)
(* each opens its data connection.                                          *)
Download == <<"SIZE", "EPSV", "RETR">>
Upload == <<"EPSV", "STOR">>
ListDir == <<"EPSV", "LIST">>

(* What an operation does: readOnce(), readToFileOnce(), writeOnce() of a   *)
(* new file, writeFromFileOnce() with an expected version, and              *)
(* getInfoOrNullOnce(), down to the commands of the client.                 *)
Plan(kind) ==
  CASE kind = "read" -> <<"ENSURE">> \o Download
    [] kind = "load" -> <<"ENSURE">> \o Download \o <<"ENSURE">> \o ListDir
    [] kind = "write" -> <<"ENSURE">> \o Upload
    [] kind = "save" -> <<"ENSURE">> \o ListDir \o Upload \o <<"ENSURE">> \o ListDir
    [] kind = "info" -> <<"ENSURE">> \o ListDir

Init ==
  /\ ops = <<>>
  /\ cur = 0
  /\ plan = <<>>
  /\ awaited = 0
  /\ task = NoTask
  /\ handles = 0
  /\ client = [gen |-> 0, state |-> "none"]
  /\ mode = "any"
  /\ data = 0
  /\ up = FALSE
  /\ resolver = NoAnswers
  /\ cache = <<>>
  /\ errInfo = FALSE
  /\ pollers = {}
  /\ loops = {}
  /\ pipe = <<>>
  /\ wire = <<>>
  /\ listener = 0
  /\ xfer = NoTransfer
  /\ remote = Content(0, FileSize)
  /\ faults = 0
  /\ hit = FALSE

-----------------------------------------------------------------------------
(* How a step of the operation comes out.                                   *)

Step == IF plan = <<>> THEN "" ELSE Head(plan)

(* Mutated Over: the code of the operation goes on waiting.                 *)
OverWaiting(told) ==
  /\ ops' = [ops EXCEPT ![cur].told = told]
  /\ cur' = 0
  /\ plan' = <<>>
  /\ UNCHANGED awaited

(* The operation is over: its caller is told, and the queue goes on.        *)
Over(told) ==
  /\ ops' = [ops EXCEPT ![cur].told = told]
  /\ cur' = 0
  /\ plan' = <<>>
  /\ awaited' = 0

Succeeds ==
  IF Len(plan) = 1
  THEN Over("ok")
  ELSE plan' = Tail(plan) /\ awaited' = 0 /\ UNCHANGED <<ops, cur>>

(* The first strategy failed, for whatever reason, and PASV is next.        *)
TriesNext == Step = "EPSV" /\ mode = "any"

Fails ==
  IF TriesNext
  THEN plan' = <<"PASV">> \o Tail(plan) /\ awaited' = 0 /\ UNCHANGED <<ops, cur>>
  ELSE Over("failed")

(* doConnect() drops a client that failed to connect or to log in.          *)
AfterFailure(c) == IF Step \in Access THEN [c EXCEPT !.state = "none"] ELSE c

(* closeWithError(): the context counts as closed at once.                  *)
Closing(c) ==
  IF c.state \in {"open", "dead"} THEN [c EXCEPT !.state = "closing"] ELSE c

(* Mutated Rejects: the context goes on tracking the task.                  *)
RejectsTracking(id) ==
  /\ UNCHANGED task
  /\ IF awaited = id THEN Fails ELSE UNCHANGED callVars

(* task.reject() of the task id: the context stops tracking whatever task   *)
(* it tracks, and the operation fails if it waits for that task.            *)
Rejects(id) ==
  /\ task' = NoTask
  /\ IF awaited = id THEN Fails ELSE UNCHANGED callVars

(* TransferResolver.onError() with a control socket that answers.           *)
OnError(id) ==
  /\ data' = 0
  /\ pipe' = <<>>
  /\ Rejects(id)

(* When the control socket is gone its first await may reject, and nobody   *)
(* ever rejects the task.                                                   *)
OnErrorGone(id) ==
  \/ OnError(id)
  \/ UNCHANGED <<callVars, task, data, pipe>>

OnErrorOf(id) ==
  IF client.state = "open" THEN OnError(id) ELSE OnErrorGone(id)

(* Mutated CanResolve: the data is in, whatever the server says of it.      *)
CanResolveEarly(r) == r.done

(* Mutated CanResolve: the server has sent all it had.                      *)
CanResolveOnAnswer(r) == r.answered

CanResolve(r) == r.done /\ r.answered

(* getFileInfo() does not find the name in the listing: getInfoOrNull()     *)
(* answers that there is no such file, getInfo() is an error.               *)
NotFound == Over(IF ops[cur].kind = "info" THEN "missing" ELSE "failed")

(* The version in the listing before an upload is not the expected one.     *)
Outdated == ops[cur].kind = "save" /\ Len(plan) > 1 /\ Over("failed")

(* tryResolve() of the transfer the operation waits for.                    *)
TryResolve(r) ==
  IF CanResolve(r)
  THEN /\ resolver' = r
       /\ data' = 0
       /\ pipe' = <<>>
       /\ task' = NoTask
       /\ IF Step = "LIST" /\ r.got = 0 THEN NotFound
          ELSE Succeeds \/ (Step = "LIST" /\ Outdated)
  ELSE /\ resolver' = r
       /\ UNCHANGED <<data, pipe, task, callVars>>

-----------------------------------------------------------------------------
(* Operations and steps.                                                    *)

(* Mutated Free: serialize() does not wait for the call before.             *)
FreeAlways == TRUE

Free == cur = 0

(* The queue takes the next operation.  again: the save worker, in the next *)
(* round of its loop, reads to the temporary file of the round before.      *)
Begin(kind, again) ==
  /\ Free
  /\ Len(ops) < MaxOps
  /\ again => /\ kind = "load"
              /\ ops # <<>>
              /\ ops[Len(ops)].kind = "load" /\ ops[Len(ops)].told = "ok"
  /\ LET before == IF again THEN ops[Len(ops)].local ELSE <<>>
     IN  ops' = Append(ops, [kind |-> kind, before |-> before, local |-> before,
                             size |-> 0, want |-> <<>>, stored |-> FALSE, told |-> ""])
  /\ cur' = Len(ops) + 1
  /\ plan' = Plan(kind)
  /\ UNCHANGED <<awaited, contextVars, dataVars, jobVars, serverVars, faultVars>>

(* ensureConnected(): a client that is closed is replaced; what the old one *)
(* left running goes on.                                                    *)
Ensure ==
  /\ awaited = 0 /\ Step = "ENSURE"
  /\ IF client.state \in {"none", "closing", "closed"}
     THEN /\ client' = [gen |-> client.gen + 1, state |-> "new"]
          /\ plan' = Login \o Tail(plan)
          /\ mode' = "any"
          /\ task' = NoTask
          /\ data' = 0 /\ up' = FALSE /\ pipe' = <<>>
          /\ wire' = <<>> /\ listener' = 0 /\ xfer' = NoTransfer
     ELSE /\ plan' = Tail(plan)
          /\ UNCHANGED <<client, mode, task, data, up, pipe, wire, listener, xfer>>
  /\ UNCHANGED <<ops, cur, awaited, handles, resolver, cache, errInfo, jobVars,
                 remote, faultVars>>

Fault(kind) ==
  /\ kind \in Faults /\ faults < MaxFaults
  /\ faults' = faults + 1

(* The command sent for a step: the strategy that worked is kept.           *)
Command == IF Step = "EPSV" /\ mode = "PASV" THEN "PASV" ELSE Step

Answer(id, cmd, code) == [id |-> id, cmd |-> cmd, code |-> code]

(* The server takes the commands in turn.  A transfer it is still in when   *)
(* the next one comes was left by the client, which has closed its data     *)
(* connection: it ends first, as far as it came.                            *)
Before ==
  IF xfer = NoTransfer THEN wire
  ELSE Append(wire, Answer(xfer.id, xfer.cmd,
                           IF xfer.cmd # "STOR" /\ xfer.todo = <<>> THEN "ok" ELSE "err"))

(* What the server makes of a command, when it does not refuse it.          *)
Serves(id, cmd) ==
  LET connected == data # 0 /\ data = listener /\ up
      begins == cmd \in Transfers /\ connected
      code == CASE cmd = "USER" -> "more"
                [] cmd \in Transfers -> IF connected THEN "mark" ELSE "err"
                [] OTHER -> "ok"
  IN  /\ wire' = Append(Before, Answer(id, cmd, code))
      /\ listener' = IF cmd \in {"EPSV", "PASV"} THEN id ELSE listener
      /\ xfer' = IF ~begins THEN NoTransfer
                 ELSE [op |-> cur, id |-> id, cmd |-> cmd, socket |-> data, ended |-> FALSE,
                       todo |-> CASE cmd = "RETR" -> remote
                                  [] cmd = "LIST" -> Listing
                                  [] cmd = "STOR" -> <<>>]
      /\ remote' = IF begins /\ cmd = "STOR" THEN <<>> ELSE remote
      /\ ops' = CASE cmd = "RETR" -> [ops EXCEPT ![cur].want = remote]
                  [] cmd = "SIZE" -> [ops EXCEPT ![cur].size = Len(remote)]
                  [] OTHER -> ops

Refuses(id, cmd) ==
  /\ Fault("refuse")
  /\ wire' = Append(Before, Answer(id, cmd, "err"))
  /\ xfer' = NoTransfer
  /\ UNCHANGED <<listener, remote, ops>>

(* connect(): the context has a new socket, and CONNECT is its connection   *)
(* and the greeting of the server.                                          *)
Opened(c, cmd) == IF cmd = "CONNECT" THEN [c EXCEPT !.state = "open"] ELSE c

(* handle(): the command is sent and its task tracked.                      *)
Sends(id, cmd) ==
  /\ client.state \in {"new", "open", "dead"} /\ task = NoTask
  /\ task' = [id |-> id, cmd |-> cmd]
  /\ awaited' = id
  /\ client' = Opened(client, cmd)
  /\ resolver' = IF cmd \in Transfers THEN NoAnswers ELSE resolver
  /\ IF client.state = "dead"
     THEN UNCHANGED <<ops, serverVars, faults>>
     ELSE \/ Serves(id, cmd) /\ UNCHANGED faults
          \/ Refuses(id, cmd)
  /\ UNCHANGED <<cur, plan, mode, dataVars>>

(* handle() on a context that is closed, or closes now because it still     *)
(* tracks another task: the error goes to the new task's handler.           *)
SendsClosed(id, cmd) ==
  /\ client.state \in {"closing", "closed"} \/ task # NoTask
  /\ client' = AfterFailure(Closing(client))
  /\ \/ /\ data' = IF cmd \in Transfers THEN 0 ELSE data
        /\ task' = NoTask
        /\ Fails
     \/ /\ cmd \in Transfers
        /\ task' = [id |-> id, cmd |-> cmd]
        /\ awaited' = id
        /\ UNCHANGED <<data, ops, cur, plan>>
  /\ UNCHANGED <<mode, resolver, up, cache, errInfo, pipe, serverVars, faults>>

(* handle() when setExtraOptions() rejects: the caller gets the error, and  *)
(* the context goes on tracking the task.                                   *)
SendsDead(id, cmd) ==
  /\ client.state = "dead" /\ task = NoTask
  /\ client' = AfterFailure(client)
  /\ task' = [id |-> id, cmd |-> cmd]
  /\ Fails
  /\ UNCHANGED <<mode, resolver, dataVars, serverVars, faults>>

(* downloadTo() throws at once when there is no data connection.            *)
SendsNothing(cmd) ==
  /\ cmd \in {"RETR", "LIST"} /\ data = 0
  /\ Fails
  /\ UNCHANGED <<contextVars, dataVars, serverVars, faults>>

Handle ==
  /\ awaited = 0 /\ Step \in Requests \cup Transfers
  /\ \/ /\ Command \in {"RETR", "LIST"} => data # 0
        /\ handles' = handles + 1
        /\ \/ Sends(handles + 1, Command)
           \/ SendsClosed(handles + 1, Command)
           \/ SendsDead(handles + 1, Command)
     \/ SendsNothing(Command)
  /\ UNCHANGED <<jobVars, hit>>

-----------------------------------------------------------------------------
(* The control connection.                                                  *)

(* What the handler of a request makes of an answer: sendIgnoringError()    *)
(* takes any, and size() and the strategies must be able to parse theirs.   *)
Accepts(r) ==
  /\ r.code # "err" \/ task.cmd = "OPTS"
  /\ task.cmd \in {"SIZE", "EPSV", "PASV"} => r.cmd = task.cmd

(* connectForPassiveTransfer(): 'connect' empties the cache; an 'error'     *)
(* before that is kept in it.                                               *)
Connects(port) ==
  IF port = listener /\ client.state = "open"
  THEN /\ data' = port /\ up' = TRUE /\ pipe' = <<>>
       /\ cache' = <<>> /\ errInfo' = FALSE
       /\ mode' = task.cmd
       /\ Succeeds
  ELSE /\ errInfo' \in {errInfo, TRUE}
       /\ cache' = IF errInfo' THEN <<>> ELSE cache
       /\ Fails
       /\ UNCHANGED <<data, up, pipe, mode>>

(* The handler of a request, and what its caller does with the answer.      *)
Answered(r) ==
  /\ awaited = task.id
  /\ IF task.cmd = "USER" /\ r.code = "more"
     THEN \* the handler sends PASS and waits on
          /\ \/ /\ wire' = Append(Tail(wire), Answer(task.id, "PASS", "ok"))
                /\ UNCHANGED faults
             \/ /\ Fault("refuse")
                /\ wire' = Append(Tail(wire), Answer(task.id, "PASS", "err"))
          /\ UNCHANGED <<callVars, task, client, mode, dataVars>>
     ELSE /\ wire' = Tail(wire)
          /\ task' = NoTask
          /\ UNCHANGED faults
          /\ IF Accepts(r)
             THEN /\ UNCHANGED client
                  /\ IF task.cmd \in {"EPSV", "PASV"}
                     THEN Connects(r.id)
                     ELSE Succeeds /\ UNCHANGED <<mode, dataVars>>
             ELSE /\ client' = AfterFailure(client)
                  /\ Fails
                  /\ UNCHANGED <<mode, dataVars>>
  /\ UNCHANGED <<resolver, jobVars>>

Poller == [id |-> task.id, gen |-> client.gen, got |-> 0, idle |-> 0,
           size |-> IF task.cmd = "RETR" THEN ops[cur].size ELSE 0]

Loop == [id |-> task.id, gen |-> client.gen, socket |-> data, left |-> FileSize]

(* 150: the transfer begins.                                                *)
Starts ==
  /\ pollers' = IF task.cmd = "STOR" THEN pollers ELSE pollers \cup {Poller}
  /\ loops' = IF task.cmd = "STOR" /\ up THEN loops \cup {Loop} ELSE loops

(* The handlers of downloadTo() and uploadFrom().                           *)
Transferred(r) ==
  /\ wire' = Tail(wire)
  /\ \/ /\ r.code = "err" \/ (r.code = "mark" /\ data = 0)
        /\ OnErrorOf(task.id)
        /\ UNCHANGED <<resolver, jobVars>>
     \/ /\ r.code = "mark" /\ data # 0
        /\ Starts
        /\ UNCHANGED <<callVars, task, data, pipe, resolver>>
     \/ /\ r.code = "ok"
        /\ TryResolve([resolver EXCEPT !.answered = TRUE])
        /\ UNCHANGED jobVars
  /\ UNCHANGED <<client, mode, up, cache, errInfo, faults>>

(* _onControlSocketData(): an answer goes to the task tracked now, whatever *)
(* task it was sent for; without one it is dropped.                         *)
Receive ==
  /\ wire # <<>> /\ client.state \in {"open", "dead"}
  /\ CASE task = NoTask ->
            /\ wire' = Tail(wire)
            /\ UNCHANGED <<callVars, task, client, mode, resolver, dataVars,
                           jobVars, faults>>
       [] task.cmd \in Requests -> Answered(Head(wire))
       [] task.cmd \in Transfers -> Transferred(Head(wire))
  /\ UNCHANGED <<handles, listener, xfer, remote, hit>>

(* 'close' of the control socket.                                           *)
ControlClosed ==
  /\ client.state = "dead"
  /\ client' = Closing(client)
  /\ UNCHANGED <<callVars, task, handles, mode, resolver, dataVars, jobVars,
                 serverVars, faultVars>>

(* Mutated FinishClose: the task is forgotten, and nobody tells it.         *)
FinishCloseSilently ==
  /\ client.state = "closing"
  /\ client' = [client EXCEPT !.state = "closed"]
  /\ task' = NoTask /\ data' = 0 /\ pipe' = <<>>
  /\ UNCHANGED <<callVars, handles, mode, resolver, up, cache, errInfo,
                 jobVars, serverVars, faultVars>>

(* closeWithError() after its awaits: the sockets are closed, and the task  *)
(* gets the error.                                                          *)
FinishClose ==
  /\ client.state = "closing"
  /\ LET closed == [client EXCEPT !.state = "closed"]
     IN  IF task # NoTask /\ awaited = task.id
         THEN \/ Fails /\ client' = AfterFailure(closed)
              \/ task.cmd \in Transfers /\ client' = closed /\ UNCHANGED callVars
         ELSE client' = closed /\ UNCHANGED callVars
  /\ task' = NoTask /\ data' = 0 /\ pipe' = <<>>
  /\ UNCHANGED <<handles, mode, resolver, up, cache, errInfo, jobVars,
                 serverVars, faultVars>>

-----------------------------------------------------------------------------
(* The data connection.                                                     *)

(* 'message'                                                                *)
Deliver ==
  /\ pipe # <<>>
  /\ cache' = Append(cache, Head(pipe))
  /\ pipe' = Tail(pipe)
  /\ errInfo' = FALSE
  /\ UNCHANGED <<callVars, contextVars, data, up, jobVars, serverVars, faultVars>>

(* A poller or loop of the client that is in use now.                       *)
Current(job) == job.gen = client.gen /\ client.state # "none"

(* The operation that started it still waits: its local file is open.       *)
Alive(job) == job.id = awaited

(* onDataDone() of a download: without a control connection its error is    *)
(* nobody's, and the task is never settled.                                 *)
DownloadDone(p) ==
  IF Alive(p) /\ client.state = "open"
  THEN TryResolve([resolver EXCEPT !.done = TRUE, !.got = p.got])
  ELSE UNCHANGED <<resolver, data, pipe, task, callVars>>

(* The poller sees an error in the cache: onError(), then closeWithError(). *)
PollError(p) ==
  /\ errInfo
  /\ pollers' = pollers \ {p}
  /\ IF Current(p)
     THEN OnErrorOf(p.id) /\ client' = Closing(client)
     ELSE UNCHANGED <<callVars, task, data, pipe, client>>
  /\ UNCHANGED <<resolver, cache, faults, hit>>

(* It takes what is in the cache, whoever that is for.  Written to a file   *)
(* that is closed by now, a chunk is lost.                                  *)
PollTakes(p) ==
  /\ ~errInfo /\ cache # <<>>
  /\ p.size > 0 => p.got < p.size
  /\ LET taken == IF Alive(p) THEN cache ELSE <<Head(cache)>>
     IN  /\ cache' = IF Alive(p) THEN <<>> ELSE Tail(cache)
         /\ pollers' = (pollers \ {p})
               \cup {[p EXCEPT !.got = @ + Len(taken), !.idle = 0]}
         /\ ops' = IF Alive(p) /\ Step = "RETR"
                   THEN [ops EXCEPT ![cur].local = @ \o taken] ELSE ops
  /\ UNCHANGED <<cur, plan, awaited, task, resolver, data, pipe, client, faults, hit>>

(* It waits.  Chunks that are sent arrive between two polls, unless the     *)
(* server or the network is slow.                                           *)
PollWaits(p) ==
  /\ ~errInfo /\ cache = <<>> /\ p.size = 0 /\ p.idle <= Patience
  /\ \/ /\ pipe = <<>> /\ (xfer.id = p.id => xfer.todo = <<>>)
        /\ pollers' = (pollers \ {p}) \cup {[p EXCEPT !.idle = @ + 1]}
        /\ UNCHANGED <<faults, hit>>
     \/ /\ Fault("slow") /\ hit' = TRUE
        /\ pollers' = (pollers \ {p}) \cup {[p EXCEPT !.idle = Patience + 1]}
  /\ UNCHANGED <<callVars, task, resolver, data, pipe, client, cache>>

(* Mutated Enough: one chunk short of what SIZE said.                       *)
EnoughAlmost(p) == IF p.size > 0 THEN p.got + 1 >= p.size ELSE p.idle > Patience

(* It has the bytes SIZE announced; a listing is over when nothing came.    *)
Enough(p) == IF p.size > 0 THEN p.got >= p.size ELSE p.idle > Patience

PollEnds(p) ==
  /\ ~errInfo /\ Enough(p)
  /\ pollers' = pollers \ {p}
  /\ DownloadDone(p)
  /\ UNCHANGED <<client, cache, faults, hit>>

Poll ==
  /\ \E p \in pollers : PollError(p) \/ PollTakes(p) \/ PollWaits(p) \/ PollEnds(p)
  /\ UNCHANGED <<handles, mode, up, errInfo, loops, serverVars>>

(* Its data socket is still the context's, and connected.                   *)
Open(l) == data = l.socket /\ up

LoopSends(l) ==
  /\ l.left > 0 /\ Open(l)
  /\ loops' = (loops \ {l}) \cup {[l EXCEPT !.left = @ - 1]}
  /\ remote' = IF xfer.id = l.id
               THEN Append(remote, [of |-> xfer.op, n |-> FileSize - l.left + 1])
               ELSE remote
  /\ UNCHANGED <<callVars, task, client, data, pipe, up, resolver, xfer>>

(* send() or close() rejects: onError(), and closeWithError() as well when  *)
(* the socket reports an error of its own.                                  *)
LoopFails(l) ==
  /\ ~Open(l)
  /\ loops' = loops \ {l}
  /\ IF Current(l)
     THEN OnErrorOf(l.id) /\ client' \in {client, Closing(client)}
     ELSE UNCHANGED <<callVars, task, data, pipe, client>>
  /\ UNCHANGED <<up, resolver, xfer, remote>>

(* Everything is sent: the socket is closed, and onDataDone() called.       *)
LoopEnds(l) ==
  /\ l.left = 0 /\ Open(l)
  /\ loops' = loops \ {l}
  /\ up' = FALSE
  /\ xfer' = IF xfer.id = l.id THEN [xfer EXCEPT !.ended = TRUE] ELSE xfer
  /\ IF client.state = "open" /\ Alive(l)
     THEN TryResolve([resolver EXCEPT !.done = TRUE])
     ELSE OnErrorOf(l.id) /\ UNCHANGED resolver
  /\ UNCHANGED <<client, remote>>

Send ==
  /\ \E l \in loops : LoopSends(l) \/ LoopFails(l) \/ LoopEnds(l)
  /\ UNCHANGED <<handles, mode, cache, errInfo, pollers, wire, listener, faultVars>>

-----------------------------------------------------------------------------
(* The server.                                                              *)

ServerSends ==
  /\ xfer.todo # <<>> /\ data = xfer.socket /\ up
  /\ pipe' = Append(pipe, Head(xfer.todo))
  /\ xfer' = [xfer EXCEPT !.todo = Tail(@)]
  /\ UNCHANGED <<callVars, contextVars, data, up, cache, errInfo, jobVars,
                 wire, listener, remote, faultVars>>

(* 226: it has sent everything, or seen the end of what we send.            *)
ServerConfirms ==
  /\ xfer # NoTransfer
  /\ xfer.todo = <<>> /\ (xfer.cmd = "STOR" => xfer.ended)
  /\ wire' = Append(wire, Answer(xfer.id, xfer.cmd, "ok"))
  /\ ops' = IF xfer.cmd = "STOR" THEN [ops EXCEPT ![xfer.op].stored = TRUE] ELSE ops
  /\ xfer' = NoTransfer
  /\ UNCHANGED <<cur, plan, awaited, contextVars, dataVars, jobVars, listener,
                 remote, faultVars>>

ServerGivesUp ==
  /\ xfer # NoTransfer
  /\ wire' = Append(wire, Answer(xfer.id, xfer.cmd, "err"))
  /\ xfer' = NoTransfer
  /\ UNCHANGED <<callVars, contextVars, dataVars, jobVars, listener, remote>>

(* It notices that the data connection is gone.                             *)
ServerNotices ==
  /\ ~(data = xfer.socket /\ up)
  /\ IF xfer.cmd = "STOR" THEN ~xfer.ended ELSE xfer.todo # <<>>
  /\ ServerGivesUp
  /\ UNCHANGED faultVars

-----------------------------------------------------------------------------
(* Faults.                                                                  *)

(* 4xx in the middle of a transfer.                                         *)
Abort ==
  /\ Fault("abort") /\ hit' = TRUE
  /\ ServerGivesUp

Drop ==
  /\ Fault("drop") /\ hit' = TRUE
  /\ data # 0 /\ up
  /\ up' = FALSE /\ pipe' = <<>>
  /\ UNCHANGED <<callVars, contextVars, data, cache, errInfo, jobVars, serverVars>>

InTransfer == Step \in Transfers \/ xfer # NoTransfer

Lose ==
  /\ Fault("lose") /\ hit' = (hit \/ InTransfer)
  /\ client.state = "open"
  /\ client' = [client EXCEPT !.state = "dead"]
  /\ wire' = <<>> /\ xfer' = NoTransfer
  /\ UNCHANGED <<callVars, task, handles, mode, resolver, dataVars, jobVars,
                 listener, remote>>

(* init() with another configuration, or close(): the handler is closed     *)
(* without waiting for the queue.                                           *)
Switch ==
  /\ Fault("switch") /\ hit' = (hit \/ InTransfer)
  /\ client.state \in {"open", "dead"}
  /\ client' = Closing(client)
  /\ UNCHANGED <<callVars, task, handles, mode, resolver, dataVars, jobVars,
                 serverVars>>

(* Another device writes the file.                                          *)
Resize ==
  /\ Fault("resize") /\ hit' = (hit \/ cur # 0)
  /\ xfer = NoTransfer
  /\ \E size \in 0 .. FileSize : remote' = Content(MaxOps + 1, size)
  /\ UNCHANGED <<callVars, contextVars, dataVars, jobVars, wire, listener, xfer>>

-----------------------------------------------------------------------------
Program == Ensure \/ Handle \/ Receive \/ ControlClosed \/ FinishClose
Network == Deliver \/ ServerSends \/ ServerConfirms \/ ServerNotices

Next ==
  \/ \E kind \in Kinds, again \in BOOLEAN : Begin(kind, again)
  \/ Program \/ Poll \/ Send \/ Network
  \/ Abort \/ Drop \/ Lose \/ Switch \/ Resize

Spec == Init /\ [][Next]_vars

(* The event loop runs every callback and timer, and the network delivers.  *)
(* No fault has to happen, and no operation has to be asked for.            *)
Fairness ==
  /\ WF_vars(Ensure) /\ WF_vars(Handle) /\ WF_vars(Receive)
  /\ WF_vars(ControlClosed) /\ WF_vars(FinishClose)
  /\ WF_vars(Poll) /\ WF_vars(Send)
  /\ WF_vars(Deliver) /\ WF_vars(ServerSends)
  /\ WF_vars(ServerConfirms) /\ WF_vars(ServerNotices)

FairSpec == Spec /\ Fairness

-----------------------------------------------------------------------------
States == {"none", "new", "open", "dead", "closing", "closed"}

Pollers == [id : Nat \ {0}, gen : Nat, got : Nat, idle : Nat, size : Nat]
Loops == [id : Nat \ {0}, gen : Nat, socket : Nat, left : 0 .. FileSize]
Replies == [id : Nat, cmd : Requests \cup Transfers \cup {"", "PASS"},
            code : {"ok", "mark", "more", "err"}]
Resolvers == [done : BOOLEAN, answered : BOOLEAN, got : Nat]
Transferring == [op : 0 .. MaxOps, id : Nat, cmd : Transfers \cup {""}, socket : Nat,
                 todo : Seq(Chunk), ended : BOOLEAN]

(* A plan ends with a transfer.                                             *)
Plans == {p \in Seq(Steps) : p # <<>> => p[Len(p)] \in Transfers}

(* The queue runs the last operation or none; that one, and no other, has   *)
(* not been told its result; and only its code waits for a task.            *)
CallsOK ==
  /\ ops \in Seq(Operation) /\ Len(ops) <= MaxOps
  /\ cur \in {0, Len(ops)}
  /\ \A i \in DOMAIN ops : ops[i].told = "" <=> i = cur
  /\ plan \in Plans /\ (plan = <<>> <=> cur = 0)
  /\ handles \in Nat /\ awaited \in 0 .. handles /\ (awaited # 0 => cur # 0)

ContextOK ==
  /\ task \in [id : 0 .. handles, cmd : Requests \cup Transfers \cup {""}]
  /\ task = NoTask \/ (task.id # 0 /\ task.cmd # "")
  /\ client \in [gen : Nat, state : States] /\ mode \in {"any", "EPSV", "PASV"}
  /\ resolver \in Resolvers

DataOK ==
  /\ data \in Nat /\ up \in BOOLEAN /\ errInfo \in BOOLEAN
  /\ cache \in Seq(Chunk) /\ pipe \in Seq(Chunk)
  /\ pollers \subseteq Pollers /\ loops \subseteq Loops

ServerOK ==
  /\ wire \in Seq(Replies) /\ listener \in Nat
  /\ xfer \in Transferring /\ remote \in Seq(Chunk)
  /\ faults \in 0 .. MaxFaults /\ hit \in BOOLEAN

TypeOK == CallsOK /\ ContextOK /\ DataOK /\ ServerOK

(* An answer of the server on a connection that stands can only come to the *)
(* task that the operation waits for; after a loss nothing comes any more.  *)
(* (ChainGoesOn fails all the same: an operation may wait without a task.)  *)
AnswersAwaited ==
  /\ client.state = "open" /\ task # NoTask => awaited = task.id
  /\ client.state = "dead" => wire = <<>> /\ xfer = NoTransfer

Ok(i, kinds) == ops[i].kind \in kinds /\ ops[i].told = "ok"

(* A read that is reported as done has added to the local file what the     *)
(* server had, all of it and in order, unless the file grew after SIZE: no  *)
(* chunk of another transfer, none lost to another poller.                  *)
ReadComplete ==
  \A i \in DOMAIN ops : Ok(i, {"read", "load"}) =>
    \/ ops[i].local = ops[i].before \o ops[i].want
    \/ Len(ops[i].want) > ops[i].size

(* An upload that is reported as done was confirmed by the server, which    *)
(* saw the end of the whole file.                                           *)
WriteConfirmed ==
  \A i \in DOMAIN ops : Ok(i, {"write", "save"}) => ops[i].stored

(* getInfoOrNull() says that a file that is there does not exist only when  *)
(* the listing was late.                                                    *)
MissingIsLate ==
  \A i \in DOMAIN ops : ops[i].told = "missing" => hit

(* An operation ends, one way or the other, unless a fault hit a transfer:  *)
(* refusals, failed logins and connections lost between two transfers do    *)
(* not block the queue.                                                     *)
Settles ==
  \A i \in 1 .. MaxOps :
    (cur = i) ~> (cur # i \/ hit)

(* The storage implements the queue of StorageQueue: whatever the pollers,  *)
(* loops and closings of earlier operations still do, the operations are    *)
(* run and answered one at a time, each once.                               *)
Queue == INSTANCE StorageQueue WITH
  calls <- [i \in DOMAIN ops |-> [kind |-> ops[i].kind, told |-> ops[i].told]],
  running <- cur

ImplementsQueue == Queue!Spec

(* FTPStorage.ets:186: one failing operation does not break the chain, so   *)
(* every operation comes to its end.                                        *)
ChainGoesOn == \A i \in 1 .. MaxOps : (cur = i) ~> (cur # i)

(* Client.ts:670: the file is downloaded to the position startAt, which is  *)
(* 0: afterwards the local file is the remote one.                          *)
LocalIsRemote ==
  \A i \in DOMAIN ops : Ok(i, {"read", "load"}) =>
    ops[i].local = ops[i].want \/ Len(ops[i].want) > ops[i].size

(* FTPStorage.ets:393: null means that the file does certainly not exist.   *)
MissingIsMissing == \A i \in DOMAIN ops : ops[i].told # "missing"
=============================================================================
