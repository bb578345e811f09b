---------------------------- MODULE RpcAbstract ----------------------------
(***************************************************************************)
(* What a generated proxy promises about one operation call: the servant   *)
(* runs it at most once, a caller that gets an answer gets the one that    *)
(* very run produced, and every caller stops waiting. A caller that gave   *)
(* up knows nothing: the run may have happened, may be under way, or may   *)
(* still start later.                                                      *)
(***************************************************************************)
CONSTANT Calls

VARIABLES
  progress, (* "no", "started", or how the servant finished                  *)
  seen      (* "idle", "waiting", or what the caller got                     *)

vars == <<progress, seen>>

Answers == {"value", "declared"}

Init ==
  /\ progress = [c \in Calls |-> "no"]
  /\ seen = [c \in Calls |-> "idle"]

Call(c) ==
  /\ seen[c] = "idle"
  /\ seen' = [seen EXCEPT ![c] = "waiting"]
  /\ UNCHANGED progress

(* The call cannot even be sent.                                           *)
Refuse(c) ==
  /\ seen[c] = "idle"
  /\ progress[c] = "no"
  /\ seen' = [seen EXCEPT ![c] = "failed"]
  /\ UNCHANGED progress

Start(c) ==
  /\ seen[c] # "idle"
  /\ progress[c] = "no"
  /\ progress' = [progress EXCEPT ![c] = "started"]
  /\ UNCHANGED seen

Finish(c) ==
  /\ progress[c] = "started"
  /\ \E r \in Answers \cup {"undeclared", "unsent"} : progress' = [progress EXCEPT ![c] = r]
  /\ UNCHANGED seen

Answer(c) ==
  /\ seen[c] = "waiting"
  /\ progress[c] \in Answers
  /\ seen' = [seen EXCEPT ![c] = progress[c]]
  /\ UNCHANGED progress

GiveUp(c) ==
  /\ seen[c] = "waiting"
  /\ seen' = [seen EXCEPT ![c] = "failed"]
  /\ UNCHANGED progress

Next ==
  \E c \in Calls : Call(c) \/ Refuse(c) \/ Start(c) \/ Finish(c) \/ Answer(c) \/ GiveUp(c)

Spec == Init /\ [][Next]_vars /\ \A c \in Calls : WF_vars(Answer(c) \/ GiveUp(c))

=============================================================================
