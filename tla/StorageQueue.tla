---------------------------- MODULE StorageQueue ----------------------------
(***************************************************************************)
(* What serialize() of the FTP storage (FTPStorage.ets) promises its       *)
(* callers, whatever happens on the connections below it: the calls are    *)
(* executed one at a time, in the order in which they came; a call is      *)
(* answered once, and the answer stands; only getInfoOrNull() is ever      *)
(* told that there is no such file.                                        *)
(***************************************************************************)
EXTENDS Naturals, Sequences

CONSTANT Kinds  \* the kinds of call

VARIABLES
  calls,   \* the calls so far, and what each was told: "" while it waits
  running  \* the one under way, 0 if none

vars == <<calls, running>>

Answers(kind) == {"ok", "failed"} \cup IF kind = "info" THEN {"missing"} ELSE {}

Init == calls = <<>> /\ running = 0

Begin(kind) ==
  /\ running = 0
  /\ calls' = Append(calls, [kind |-> kind, told |-> ""])
  /\ running' = Len(calls) + 1

End(told) ==
  /\ running # 0
  /\ calls[running].told = ""
  /\ told \in Answers(calls[running].kind)
  /\ calls' = [calls EXCEPT ![running].told = told]
  /\ running' = 0

Next ==
  \/ \E kind \in Kinds : Begin(kind)
  \/ \E told \in {"ok", "failed", "missing"} : End(told)

Spec == Init /\ [][Next]_vars
=============================================================================
