----------------------------- MODULE RpcProofs -----------------------------
(***************************************************************************)
(* Proofs about operation calls, for any processes and any number of calls.*)
(* The inductive invariant is CallsRight; AnswerIsOwn and ServedInOrder    *)
(* follow from it. WaitingAccounted and DeathHasCause are inductive beside *)
(* it. The last part is the refinement of RpcAbstract, without liveness.   *)
(***************************************************************************)
EXTENDS Rpc, TLAPS

(* Before the first call nothing is queued, served or answered.            *)
LEMMA InitCallsRight == Init => CallsRight
<1> USE RpcAssumption DEF Calls, Call
<1> SUFFICES ASSUME Init PROVE CallsRight
  OBVIOUS
<1>1. TypeOK
  BY DEF Init, TypeOK
<1>2. AtMostOnce
  BY DEF Init, AtMostOnce
<1>3. FreshCalls
  BY DEF Init, FreshCalls
<1>4. CallersWait /\ InboxOrdered /\ ServantExact /\ AnswersSourced
  BY DEF Init, CallersWait, InboxOrdered, ServantExact, AnswersSourced
<1> QED
  BY <1>1, <1>2, <1>3, <1>4 DEF CallsRight, Bookkeeping

(* The end of a process keeps the types of what it changes.                *)
LEMMA TerminateTypeOK ==
  ASSUME TypeOK, NEW p \in Peers, Terminate(p)
  PROVE  /\ mode' \in [Peers -> {"main", "named", "run", "dead"}]
         /\ inbox' \in [Peers -> Seq(Calls)]
         /\ serving' \in [Peers -> Calls \cup {NULL}]
         /\ blocked' \in [Peers -> Calls \cup {NULL}]
         /\ reply' \in [Calls -> {"none", "value", "declared", "error"}]
BY DEF TypeOK, Terminate

(* What the three ways in which a proxy fails by itself have in common:    *)
(* the process ends, for a reason, or the caller gets an exception.        *)
FailsAt(p, c) ==
  \/ /\ Terminate(p)
     /\ outcome' = [outcome EXCEPT ![c] = "terminated"]
  \/ /\ \E thrown \in {"logic_error", "exception"} : outcome' = [outcome EXCEPT ![c] = thrown]
     /\ blocked' = [blocked EXCEPT ![p] = NULL]
     /\ UNCHANGED <<mode, inbox, serving, reply>>

GivesUp(p, c) ==
  /\ FailsAt(p, c)
  /\ mode' = mode \/ p \in Strict \/ call[c].raises
  /\ UNCHANGED <<issued, call, runs, result>>

LEMMA GivingUp ==
  ASSUME NEW p, NEW c, RaiseError(p, c) \/ ReceiveMisread(p, c)
  PROVE  GivesUp(p, c)
<1>1. CASE RaiseError(p, c)
  BY <1>1 DEF RaiseError, Fail, GivesUp, FailsAt
<1>2. CASE ReceiveMisread(p, c)
  BY <1>2 DEF ReceiveMisread, Fail, GivesUp, FailsAt
<1> QED
  BY <1>1, <1>2

(* A call that is refused uses the serial issued + 1, and leaves no trace  *)
(* outside its caller unless the caller's process ends.                    *)
LEMMA UnwritableEffect ==
  ASSUME TypeOK, NEW p \in Peers, NEW q \in Peers, NEW raises \in BOOLEAN,
         InvokeUnwritable(p, q, raises)
  PROVE  /\ issued + 1 \in Calls /\ issued' = issued + 1 /\ blocked[p] = NULL
         /\ call' \in [Calls -> Call \cup {NULL}]
         /\ \A d \in Calls : d # issued + 1 => call'[d] = call[d]
         /\ call'[issued + 1] # NULL /\ call'[issued + 1].request = "unwritable"
         /\ call'[issued + 1].from = p
         /\ FailsAt(p, issued + 1)
         /\ mode' = mode \/ p \in Strict \/ call'[issued + 1].raises
         /\ UNCHANGED <<runs, result>>
<1> DEFINE new == [from |-> p, to |-> q, request |-> "unwritable", raises |-> raises]
<1>1. issued + 1 \in Calls /\ issued' = issued + 1 /\ UNCHANGED <<runs, result>>
  BY RpcAssumption DEF InvokeUnwritable, TypeOK, Calls
<1>2. call' = [call EXCEPT ![issued + 1] = new] /\ "unwritable" \in Kinds /\ blocked[p] = NULL
  BY DEF InvokeUnwritable, InUserCode, Kinds
<1>3. new # NULL /\ new \in Call
  BY <1>2, RpcAssumption DEF Call
<1>4. FailsAt(p, issued + 1) /\ (mode' = mode \/ p \in Strict \/ raises)
  BY DEF InvokeUnwritable, Fail, FailsAt
<1>5. call'[issued + 1] = new /\ (raises => call'[issued + 1].raises)
  BY <1>1, <1>2 DEF TypeOK
<1>6. mode' = mode \/ p \in Strict \/ call'[issued + 1].raises
  BY <1>4, <1>5
<1> QED
  BY <1>1, <1>2, <1>3, <1>4, <1>5, <1>6 DEF TypeOK

(* The end of an operation by an exception, or of the process, keeps types.*)
LEMMA FailTypeOK ==
  ASSUME TypeOK, NEW p \in Peers, NEW c \in Calls, FailsAt(p, c)
  PROVE  /\ mode' \in [Peers -> {"main", "named", "run", "dead"}]
         /\ inbox' \in [Peers -> Seq(Calls)]
         /\ serving' \in [Peers -> Calls \cup {NULL}]
         /\ blocked' \in [Peers -> Calls \cup {NULL}]
         /\ reply' \in [Calls -> {"none", "value", "declared", "error"}]
         /\ outcome' \in [Calls -> {"idle", "waiting", "value", "declared",
                                   "logic_error", "exception", "terminated"}]
<1>1. CASE Terminate(p) /\ outcome' = [outcome EXCEPT ![c] = "terminated"]
  BY <1>1, TerminateTypeOK DEF TypeOK
<1>2. CASE /\ \E thrown \in {"logic_error", "exception"} :
                outcome' = [outcome EXCEPT ![c] = thrown]
           /\ blocked' = [blocked EXCEPT ![p] = NULL]
           /\ UNCHANGED <<mode, inbox, serving, reply>>
  BY <1>2 DEF TypeOK
<1> QED
  BY <1>1, <1>2 DEF FailsAt

(* A refused call is a call.                                               *)
LEMMA UnwritableTypeOK ==
  ASSUME TypeOK, NEW p \in Peers, NEW q \in Peers, NEW raises \in BOOLEAN,
         InvokeUnwritable(p, q, raises)
  PROVE  TypeOK'
<1>1. PICK c \in Calls : c = issued + 1
  BY UnwritableEffect
<1>2. /\ FailsAt(p, c) /\ issued' = c
      /\ call' \in [Calls -> Call \cup {NULL}]
      /\ UNCHANGED <<runs, result>>
  BY <1>1, UnwritableEffect
<1>5. issued' \in 0 .. MaxCalls
  BY <1>1, <1>2, RpcAssumption DEF Calls
<1> QED
  BY <1>2, <1>5, FailTypeOK DEF TypeOK

(* Every step of a process or of the bus keeps the types.                  *)
LEMMA NextTypeOK == TypeOK /\ [Next]_vars => TypeOK'
<1> USE RpcAssumption DEF TypeOK, Calls
<1> SUFFICES ASSUME TypeOK, [Next]_vars PROVE TypeOK'
  OBVIOUS
<1>1. ASSUME NEW p \in Peers, request_name(p) \/ run(p) PROVE TypeOK'
  BY <1>1 DEF request_name, run
<1>2. ASSUME NEW p \in Peers, NEW q \in Peers, NEW r \in Kinds, NEW raises \in BOOLEAN,
             Invoke(p, q, r, raises)
      PROVE TypeOK'
  <2>1. issued + 1 \in Calls /\ issued + 1 \in 0 .. MaxCalls
    BY <1>2 DEF Invoke
  <2>2. [from |-> p, to |-> q, request |-> r, raises |-> raises] \in Call
    BY DEF Call
  <2>3. inbox' \in [Peers -> Seq(Calls)] /\ reply' \in [Calls -> {"none", "value", "declared", "error"}]
    <3>1. CASE mode[q] \in {"named", "run"}
      <4>1. inbox' = [inbox EXCEPT ![q] = Append(inbox[q], issued + 1)] /\ UNCHANGED reply
        BY <1>2, <3>1 DEF Invoke
      <4>2. Append(inbox[q], issued + 1) \in Seq(Calls)
        BY <2>1
      <4> QED
        BY <4>1, <4>2
    <3>2. CASE mode[q] \notin {"named", "run"}
      BY <1>2, <2>1, <3>2 DEF Invoke
    <3> QED
      BY <3>1, <3>2
  <2>4. /\ issued' = issued + 1
        /\ call' = [call EXCEPT ![issued + 1] = [from |-> p, to |-> q, request |-> r, raises |-> raises]]
        /\ blocked' = [blocked EXCEPT ![p] = issued + 1]
        /\ outcome' = [outcome EXCEPT ![issued + 1] = "waiting"]
        /\ UNCHANGED <<mode, serving, runs, result>>
    BY <1>2 DEF Invoke
  <2> QED
    BY <2>1, <2>2, <2>3, <2>4
<1>3. ASSUME NEW p \in Peers, NEW c \in Calls, DispatchUnknown(p, c) PROVE TypeOK'
  BY <1>3 DEF DispatchUnknown, TakeCall
<1>4. ASSUME NEW p \in Peers, NEW c \in Calls, DispatchWrong(p, c) PROVE TypeOK'
  BY <1>4 DEF DispatchWrong, TakeCall
<1>5. ASSUME NEW p \in Peers, NEW c \in Calls, DispatchGarbled(p, c) PROVE TypeOK'
  BY <1>5, TerminateTypeOK DEF DispatchGarbled
<1>6. ASSUME NEW p \in Peers, NEW c \in Calls, DispatchCall(p, c) PROVE TypeOK'
  <2>1. /\ inbox' = [inbox EXCEPT ![p] = Tail(@)] /\ inbox[p] # <<>>
        /\ serving' = [serving EXCEPT ![p] = c] /\ runs' = [runs EXCEPT ![c] = @ + 1]
        /\ UNCHANGED <<mode, issued, call, blocked, reply, result, outcome>>
    BY <1>6 DEF DispatchCall, TakeCall
  <2>2. inbox' \in [Peers -> Seq(Calls)]
    <3>1. inbox[p] \in Seq(Calls) /\ Tail(inbox[p]) \in Seq(Calls)
      BY <2>1
    <3> QED
      BY <2>1, <3>1
  <2>3. runs' \in [Calls -> Nat]
    BY <2>1
  <2> QED
    BY <2>1, <2>2, <2>3
<1>7. ASSUME NEW p \in Peers, NEW r \in {"value", "declared"}, Finish(p, r) PROVE TypeOK'
  BY <1>7 DEF Finish
<1>8. ASSUME NEW p \in Peers, FinishUndeclared(p) PROVE TypeOK'
  <2>1. CASE p \in Strict
    BY <1>8, <2>1, TerminateTypeOK DEF FinishUndeclared
  <2>2. CASE p \notin Strict
    BY <1>8, <2>2 DEF FinishUndeclared
  <2> QED
    BY <2>1, <2>2
<1>9. ASSUME NEW p \in Peers, NEW c \in Calls, Receive(p, c) PROVE TypeOK'
  BY <1>9 DEF Receive
<1>10. ASSUME NEW p \in Peers, NEW c \in Calls, GivesUp(p, c) PROVE TypeOK'
  BY <1>10, FailTypeOK DEF GivesUp
<1>11. CASE UNCHANGED vars
  BY <1>11 DEF vars
<1>12. ASSUME NEW p \in Peers, FinishUnsent(p) PROVE TypeOK'
  BY <1>12, TerminateTypeOK DEF FinishUnsent
<1> HIDE DEF TypeOK, Calls
<1> QED
  BY <1>1, <1>2, <1>3, <1>4, <1>5, <1>6, <1>7, <1>8, <1>9, <1>10, <1>11, <1>12, GivingUp, UnwritableTypeOK
  DEF Next, EndsCall, ReceiveError, Timeout

(* What the end of a process does, process by process and call by call: it *)
(* empties its inbox and answers only calls that were made to it.          *)
LEMMA TerminateEffect ==
  ASSUME TypeOK, NEW p \in Peers, Terminate(p)
  PROVE  /\ \A q \in Peers : inbox'[q] = IF q = p THEN <<>> ELSE inbox[q]
         /\ \A q \in Peers : serving'[q] = IF q = p THEN NULL ELSE serving[q]
         /\ \A c \in Calls : reply'[c] # reply[c] =>
              /\ reply[c] = "none" /\ reply'[c] = "error"
              /\ call[c] # NULL /\ call[c].to = p
BY DEF TypeOK, Terminate, Sent

(* What a call does to the state: it uses the serial issued + 1.           *)
LEMMA InvokeEffect ==
  ASSUME TypeOK, NEW p \in Peers, NEW q \in Peers, NEW r \in Kinds,
         NEW raises \in BOOLEAN, Invoke(p, q, r, raises)
  PROVE  /\ issued + 1 \in Calls /\ issued' = issued + 1
         /\ \A c \in Calls : c # issued + 1 =>
              call'[c] = call[c] /\ reply'[c] = reply[c] /\ outcome'[c] = outcome[c]
         /\ call'[issued + 1] # NULL /\ call'[issued + 1].to = q
         /\ call'[issued + 1].request # "unwritable"
         /\ outcome'[issued + 1] = "waiting"
         /\ \A s \in Peers : s # q => inbox'[s] = inbox[s]
         /\ \/ UNCHANGED inbox /\ reply'[issued + 1] = "error"
            \/ inbox'[q] = Append(inbox[q], issued + 1) /\ UNCHANGED reply
         /\ UNCHANGED <<serving, runs, result>>
<1> DEFINE new == [from |-> p, to |-> q, request |-> r, raises |-> raises]
<1>1. issued + 1 \in Calls /\ issued' = issued + 1 /\ UNCHANGED <<serving, runs, result>>
  BY RpcAssumption DEF Invoke, TypeOK, Calls
<1>2. call' = [call EXCEPT ![issued + 1] = new] /\ outcome' = [outcome EXCEPT ![issued + 1] = "waiting"]
  BY DEF Invoke
<1>3. new # NULL /\ new.request # "unwritable"
  BY RpcAssumption DEF Invoke
<1>4. CASE mode[q] \in {"named", "run"}
  <2>1. inbox' = [inbox EXCEPT ![q] = Append(inbox[q], issued + 1)] /\ UNCHANGED reply
    BY <1>4 DEF Invoke
  <2> QED
    BY <1>1, <1>2, <1>3, <2>1 DEF TypeOK
<1>5. CASE mode[q] \notin {"named", "run"}
  <2>1. reply' = [reply EXCEPT ![issued + 1] = "error"] /\ UNCHANGED inbox
    BY <1>5 DEF Invoke
  <2> QED
    BY <1>1, <1>2, <1>3, <2>1 DEF TypeOK
<1> QED
  BY <1>4, <1>5

(* A proxy that gives up touches what Terminate touches, and the outcome   *)
(* of the one call.                                                        *)
LEMMA GivesUpEffect ==
  ASSUME TypeOK, NEW p \in Peers, NEW c \in Calls, FailsAt(p, c)
  PROVE  /\ Terminate(p) \/ UNCHANGED <<inbox, serving, reply>>
         /\ \A d \in Calls : d # c => outcome'[d] = outcome[d]
         /\ outcome'[c] \in {"terminated", "logic_error", "exception"}
         /\ blocked' = [blocked EXCEPT ![p] = NULL]
BY DEF FailsAt, TypeOK, Terminate

(* Taking the head of the inbox leaves the younger calls, in their order.  *)
LEMMA TakeEffect ==
  ASSUME TypeOK, NEW p \in Peers, NEW c \in Calls, TakeCall(p, c),
         inbox' = [inbox EXCEPT ![p] = Tail(@)]
  PROVE  /\ 1 \in DOMAIN inbox[p] /\ inbox[p][1] = c
         /\ \A q \in Peers : q # p => inbox'[q] = inbox[q]
         /\ \A i \in DOMAIN inbox'[p] :
              /\ i \in Nat /\ i + 1 \in DOMAIN inbox[p] /\ 1 < i + 1
              /\ inbox'[p][i] = inbox[p][i + 1]
<1>1. inbox[p] \in Seq(Calls) /\ inbox[p] # <<>> /\ inbox'[p] = Tail(inbox[p])
  BY DEF TypeOK, TakeCall
<1> QED
  BY <1>1 DEF TypeOK, TakeCall

(* A serial leaves its first trace when the call is made.                  *)
LEMMA NextFresh == CallsRight /\ [Next]_vars => FreshCalls'
<1> SUFFICES ASSUME CallsRight, [Next]_vars PROVE FreshCalls'
  OBVIOUS
<1> TypeOK /\ FreshCalls /\ CallersWait /\ InboxOrdered /\ ServantExact
  BY DEF CallsRight, Bookkeeping
<1> MaxCalls \in Nat /\ NULL \notin Nat
  BY RpcAssumption
<1>1. ASSUME NEW p \in Peers, NEW q \in Peers, NEW r \in Kinds, NEW raises \in BOOLEAN,
             Invoke(p, q, r, raises)
      PROVE FreshCalls'
  <2>1. /\ issued + 1 \in Calls /\ issued' = issued + 1 /\ issued \in Nat
        /\ \A c \in Calls : c # issued + 1 =>
             call'[c] = call[c] /\ reply'[c] = reply[c] /\ outcome'[c] = outcome[c]
        /\ call'[issued + 1] # NULL
        /\ UNCHANGED <<runs, result>>
    BY <1>1, InvokeEffect DEF TypeOK
  <2> QED
    BY <2>1 DEF FreshCalls, Calls
<1>2. ASSUME NEW p \in Peers, Terminate(p), UNCHANGED <<issued, call, runs>>,
             \A c \in Calls : c > issued => result'[c] = "none" /\ outcome'[c] = "idle"
      PROVE FreshCalls'
  BY <1>2, TerminateEffect DEF FreshCalls, Calls, TypeOK
<1>3. ASSUME NEW p \in Peers, NEW c \in Calls, TakeCall(p, c) PROVE c <= issued
  <2>1. 1 \in DOMAIN inbox[p] /\ inbox[p][1] = c
    BY <1>3 DEF TakeCall, TypeOK
  <2> QED
    BY <2>1 DEF InboxOrdered
<1>4. ASSUME NEW p \in Peers, NEW c \in Calls,
             DispatchUnknown(p, c) \/ DispatchWrong(p, c) \/ DispatchCall(p, c)
      PROVE FreshCalls'
  BY <1>3, <1>4 DEF DispatchUnknown, DispatchWrong, DispatchCall, FreshCalls, TypeOK, Calls
<1>5. ASSUME NEW p \in Peers, NEW c \in Calls, DispatchGarbled(p, c) PROVE FreshCalls'
  BY <1>2, <1>5 DEF DispatchGarbled, FreshCalls
<1>6. ASSUME NEW p \in Peers, serving[p] # NULL PROVE serving[p] \in Calls /\ serving[p] <= issued
  BY <1>6 DEF ServantExact, TypeOK
<1>7. ASSUME NEW p \in Peers, NEW r \in {"value", "declared"}, Finish(p, r) PROVE FreshCalls'
  BY <1>6, <1>7 DEF Finish, FreshCalls, TypeOK, Calls
<1>8. ASSUME NEW p \in Peers, FinishUndeclared(p) PROVE FreshCalls'
  <2>1. /\ serving[p] \in Calls /\ serving[p] <= issued
        /\ result' = [result EXCEPT ![serving[p]] = "undeclared"]
        /\ UNCHANGED <<issued, call, runs, outcome>>
        /\ Terminate(p) \/ UNCHANGED reply
    BY <1>6, <1>8 DEF FinishUndeclared
  <2>2. \A c \in Calls : c > issued => result'[c] = "none" /\ outcome'[c] = "idle"
    BY <2>1 DEF FreshCalls, TypeOK, Calls
  <2> QED
    BY <1>2, <2>1, <2>2 DEF FreshCalls
<1>9. ASSUME NEW p \in Peers, NEW c \in Calls, c = blocked[p], Receive(p, c) PROVE FreshCalls'
  BY <1>9 DEF Receive, FreshCalls, TypeOK, Calls
<1>10. ASSUME NEW p \in Peers, NEW c \in Calls, c <= issued, GivesUp(p, c) PROVE FreshCalls'
  <2>1. \A d \in Calls : d > issued => result'[d] = "none" /\ outcome'[d] = "idle"
    BY <1>10, GivesUpEffect DEF GivesUp, FreshCalls, Calls, TypeOK
  <2> QED
    BY <1>2, <1>10, <2>1, GivesUpEffect DEF GivesUp, FreshCalls
<1>11. ASSUME NEW p \in Peers, NEW c \in Calls,
              Timeout(p, c) \/ ReceiveError(p, c) \/ ReceiveMisread(p, c)
       PROVE FreshCalls'
  BY <1>10, <1>11, GivingUp DEF Timeout, ReceiveError, ReceiveMisread, CallersWait
<1>12. ASSUME NEW p \in Peers, request_name(p) \/ run(p) PROVE FreshCalls'
  BY <1>12 DEF request_name, run, FreshCalls
<1>13. CASE UNCHANGED vars
  BY <1>13 DEF vars, FreshCalls
<1>14. ASSUME NEW p \in Peers, FinishUnsent(p) PROVE FreshCalls'
  <2>1. /\ serving[p] \in Calls /\ serving[p] <= issued
        /\ result' = [result EXCEPT ![serving[p]] = "unsent"]
        /\ UNCHANGED <<issued, call, runs, outcome>>
        /\ Terminate(p)
    BY <1>6, <1>14 DEF FinishUnsent
  <2>2. \A c \in Calls : c > issued => result'[c] = "none" /\ outcome'[c] = "idle"
    BY <2>1 DEF FreshCalls, TypeOK, Calls
  <2> QED
    BY <1>2, <2>1, <2>2
<1>15. ASSUME NEW p \in Peers, NEW q \in Peers, NEW raises \in BOOLEAN,
              InvokeUnwritable(p, q, raises)
       PROVE FreshCalls'
  <2>1. PICK c \in Calls : c = issued + 1
    BY <1>15, UnwritableEffect
  <2>2. /\ issued' = c /\ issued \in Nat /\ FailsAt(p, c) /\ call'[c] # NULL
        /\ \A d \in Calls : d # c => call'[d] = call[d]
        /\ UNCHANGED <<runs, result>>
    BY <1>15, <2>1, UnwritableEffect DEF TypeOK
  <2>3. \A d \in Calls : d # c => outcome'[d] = outcome[d]
    BY <2>2, GivesUpEffect
  <2>4. \A d \in Calls : d > issued => reply'[d] = reply[d]
    <3>1. \A d \in Calls : d > issued => call[d] = NULL
      BY DEF FreshCalls
    <3> QED
      BY <2>2, <3>1, TerminateEffect, GivesUpEffect
  <2> QED
    BY <2>1, <2>2, <2>3, <2>4 DEF FreshCalls, Calls
<1> QED
  BY <1>1, <1>4, <1>5, <1>7, <1>8, <1>9, <1>11, <1>12, <1>13, <1>14, <1>15
  DEF Next, EndsCall, Receive

(* A process that waits, waits for the last call it made.                  *)
LEMMA NextCallersWait == CallsRight /\ [Next]_vars => CallersWait'
<1> SUFFICES ASSUME CallsRight, [Next]_vars PROVE CallersWait'
  OBVIOUS
<1> TypeOK /\ FreshCalls /\ CallersWait
  BY DEF CallsRight, Bookkeeping
<1> MaxCalls \in Nat /\ NULL \notin Nat
  BY RpcAssumption
<1>1. ASSUME NEW p \in Peers, NEW q \in Peers, NEW r \in Kinds, NEW raises \in BOOLEAN,
             Invoke(p, q, r, raises)
      PROVE CallersWait'
  <2>1. /\ issued + 1 \in Calls /\ issued' = issued + 1 /\ issued \in Nat
        /\ \A c \in Calls : c # issued + 1 => call'[c] = call[c] /\ outcome'[c] = outcome[c]
        /\ outcome'[issued + 1] = "waiting"
    <3>1. issued \in Nat
      BY DEF TypeOK
    <3> QED
      BY <1>1, <3>1, InvokeEffect
  <2>3. call'[issued + 1].request # "unwritable"
    BY <1>1, InvokeEffect
  <2>2. call'[issued + 1].from = p /\ blocked' = [blocked EXCEPT ![p] = issued + 1]
    BY <1>1, <2>1 DEF Invoke, TypeOK
  <2> QED
    BY <2>1, <2>2, <2>3 DEF CallersWait, TypeOK, Calls
<1>2. ASSUME UNCHANGED <<issued, call, outcome>>,
             \A p \in Peers : blocked'[p] \in {blocked[p], NULL}
      PROVE CallersWait'
  BY <1>2 DEF CallersWait
<1>3. ASSUME NEW p \in Peers, Terminate(p), UNCHANGED <<issued, call, outcome>>
      PROVE CallersWait'
  BY <1>2, <1>3 DEF Terminate, TypeOK
<1>4. ASSUME NEW p \in Peers, FinishUndeclared(p) PROVE CallersWait'
  BY <1>2, <1>3, <1>4 DEF FinishUndeclared
<1>5. ASSUME NEW p \in Peers, NEW c \in Calls, c = blocked[p], c # NULL,
             UNCHANGED <<issued, call>>,
             \A d \in Calls : d # c => outcome'[d] = outcome[d],
             blocked' = [blocked EXCEPT ![p] = NULL]
      PROVE CallersWait'
  <2>1. \A q \in Peers : q # p /\ blocked[q] # NULL => blocked[q] # c
    BY <1>5 DEF CallersWait
  <2> QED
    BY <1>5, <2>1 DEF CallersWait, TypeOK
<1>6. ASSUME NEW p \in Peers, NEW c \in Calls, Receive(p, c) PROVE CallersWait'
  BY <1>5, <1>6 DEF Receive, TypeOK
<1>7. ASSUME NEW p \in Peers, NEW c \in Calls, c = blocked[p], c # NULL, GivesUp(p, c)
      PROVE CallersWait'
  BY <1>5, <1>7, GivesUpEffect DEF GivesUp
<1>8. ASSUME NEW p \in Peers, NEW c \in Calls,
             Timeout(p, c) \/ ReceiveError(p, c) \/ ReceiveMisread(p, c)
      PROVE CallersWait'
  BY <1>7, <1>8, GivingUp DEF Timeout, ReceiveError, ReceiveMisread
<1>9. ASSUME NEW p \in Peers, NEW c \in Calls,
             DispatchUnknown(p, c) \/ DispatchWrong(p, c) \/ DispatchCall(p, c)
      PROVE CallersWait'
  BY <1>2, <1>9 DEF DispatchUnknown, DispatchWrong, DispatchCall
<1>10. ASSUME NEW p \in Peers, NEW c \in Calls, DispatchGarbled(p, c) PROVE CallersWait'
  BY <1>3, <1>10 DEF DispatchGarbled
<1>11. ASSUME NEW p \in Peers, NEW r \in {"value", "declared"}, Finish(p, r) PROVE CallersWait'
  BY <1>2, <1>11 DEF Finish
<1>12. ASSUME NEW p \in Peers, request_name(p) \/ run(p) PROVE CallersWait'
  BY <1>2, <1>12 DEF request_name, run
<1>13. CASE UNCHANGED vars
  BY <1>2, <1>13 DEF vars
<1>14. ASSUME NEW p \in Peers, FinishUnsent(p) PROVE CallersWait'
  BY <1>3, <1>14 DEF FinishUnsent
<1>15. ASSUME NEW p \in Peers, NEW q \in Peers, NEW raises \in BOOLEAN,
              InvokeUnwritable(p, q, raises)
       PROVE CallersWait'
  <2>1. PICK c \in Calls : c = issued + 1
    BY <1>15, UnwritableEffect
  <2>0. issued \in Nat
    BY DEF TypeOK
  <2>2. /\ issued' = c /\ issued \in Nat /\ FailsAt(p, c)
        /\ \A d \in Calls : d # c => call'[d] = call[d]
    BY <1>15, <2>0, <2>1, UnwritableEffect
  <2>3. /\ \A d \in Calls : d # c => outcome'[d] = outcome[d]
        /\ blocked' = [blocked EXCEPT ![p] = NULL]
    BY <2>2, GivesUpEffect
  <2>4. \A s \in Peers : blocked[s] # NULL => blocked[s] \in Calls /\ blocked[s] # c
    BY <2>1, <2>2 DEF CallersWait, TypeOK, Calls
  <2> QED
    BY <2>1, <2>2, <2>3, <2>4 DEF CallersWait, TypeOK, Calls
<1> QED
  BY <1>1, <1>4, <1>6, <1>8, <1>9, <1>10, <1>11, <1>12, <1>13, <1>14, <1>15 DEF Next, EndsCall

(* What a serving process executes is known to nobody's inbox.             *)
LEMMA ServedNotQueued ==
  ASSUME CallsRight, NEW p \in Peers, serving[p] # NULL
  PROVE  /\ serving[p] \in Calls /\ runs[serving[p]] = 1 /\ call[serving[p]].to = p
         /\ \A q \in Peers : \A i \in DOMAIN inbox[q] : inbox[q][i] # serving[p]
         /\ \A q \in Peers : q # p => serving[q] # serving[p]
<1>1. serving[p] \in Calls /\ runs[serving[p]] = 1 /\ call[serving[p]].to = p
  BY DEF CallsRight, Bookkeeping, ServantExact, TypeOK
<1>2. \A q \in Peers : \A i \in DOMAIN inbox[q] : runs[inbox[q][i]] = 0
  BY DEF CallsRight, Bookkeeping, InboxOrdered
<1>3. \A q \in Peers : serving[q] # NULL => call[serving[q]].to = q
  BY DEF CallsRight, Bookkeeping, ServantExact
<1> QED
  BY <1>1, <1>2, <1>3

(* The call at the head of an inbox has left no trace at the callee.       *)
LEMMA HeadIsNew ==
  ASSUME CallsRight, NEW p \in Peers, NEW c \in Calls, TakeCall(p, c)
  PROVE  /\ c <= issued /\ call[c].to = p
         /\ runs[c] = 0 /\ reply[c] = "none" /\ result[c] = "none"
         /\ \A q \in Peers : q # p => \A i \in DOMAIN inbox[q] : inbox[q][i] # c
         /\ \A i \in DOMAIN inbox[p] : 1 < i => c < inbox[p][i]
         /\ \A q \in Peers : serving[q] # c
<1>1. 1 \in DOMAIN inbox[p] /\ inbox[p][1] = c
  BY DEF CallsRight, TakeCall, TypeOK
<1>2. /\ c <= issued /\ call[c].to = p /\ runs[c] = 0 /\ reply[c] = "none"
      /\ \A i \in DOMAIN inbox[p] : 1 < i => c < inbox[p][i]
  BY <1>1 DEF CallsRight, Bookkeeping, InboxOrdered
<1>3. result[c] = "none"
  BY <1>2 DEF CallsRight, Bookkeeping, AnswersSourced
<1>4. \A q \in Peers : q # p => \A i \in DOMAIN inbox[q] : inbox[q][i] # c
  BY <1>2 DEF CallsRight, Bookkeeping, InboxOrdered
<1>5. \A q \in Peers : serving[q] # c
  BY <1>2, RpcAssumption DEF CallsRight, Bookkeeping, ServantExact, Calls
<1> QED
  BY <1>2, <1>3, <1>4, <1>5

(* Queues stay in the order of the serials, and ahead of what was run.     *)
LEMMA NextInbox == CallsRight /\ [Next]_vars => InboxOrdered'
<1> SUFFICES ASSUME CallsRight, [Next]_vars PROVE InboxOrdered'
  OBVIOUS
<1> TypeOK /\ FreshCalls /\ CallersWait /\ InboxOrdered
  BY DEF CallsRight, Bookkeeping
<1> MaxCalls \in Nat /\ NULL \notin Nat
  BY RpcAssumption
<1>1. ASSUME NEW p \in Peers, NEW q \in Peers, NEW r \in Kinds, NEW raises \in BOOLEAN,
             Invoke(p, q, r, raises)
      PROVE InboxOrdered'
  <2> DEFINE c == issued + 1
  <2>1. /\ c \in Calls /\ issued' = c /\ issued \in Nat
        /\ \A d \in Calls : d # c => call'[d] = call[d] /\ reply'[d] = reply[d]
        /\ call'[c].to = q /\ runs[c] = 0 /\ reply[c] = "none"
        /\ \A s \in Peers : s # q => inbox'[s] = inbox[s]
        /\ UNCHANGED runs
    BY <1>1, InvokeEffect DEF TypeOK, FreshCalls, Calls
  <2>2. \A d \in Calls : runs[d] > 0 => d < c
    <3>1. \A d \in Calls : d > issued => runs[d] = 0
      BY DEF FreshCalls
    <3>2. \A d \in Calls : d \in Nat /\ runs[d] \in Nat
      BY DEF TypeOK, Calls
    <3>3. issued \in Nat
      BY <2>1
    <3> QED
      BY ONLY <3>1, <3>2, <3>3
  <2>3. \A s \in Peers : \A i \in DOMAIN inbox[s] : inbox[s][i] \in Calls /\ inbox[s][i] < c
    <3>1. \A s \in Peers : \A i \in DOMAIN inbox[s] : inbox[s][i] \in Calls /\ inbox[s][i] <= issued
      BY DEF InboxOrdered, TypeOK
    <3> QED
      BY <2>1, <3>1 DEF Calls
  <2>4. CASE UNCHANGED inbox
    <3> HIDE DEF c
    <3> SUFFICES ASSUME NEW s \in Peers, NEW i \in DOMAIN inbox[s]
                 PROVE /\ inbox[s][i] <= issued'
                       /\ call'[inbox[s][i]].to = s
                       /\ runs'[inbox[s][i]] = 0 /\ reply'[inbox[s][i]] = "none"
                       /\ \A j \in DOMAIN inbox[s] : i < j => inbox[s][i] < inbox[s][j]
                       /\ \A d \in Calls : runs'[d] > 0 /\ call'[d].to = s => d < inbox[s][i]
      BY <2>4 DEF InboxOrdered
    <3>1. inbox[s][i] \in Calls /\ inbox[s][i] # c /\ inbox[s][i] <= issued'
      BY <2>1, <2>3 DEF Calls
    <3>2. \A d \in Calls : runs[d] > 0 => d # c
      BY <2>1, <2>2 DEF Calls
    <3> QED
      BY <2>1, <3>1, <3>2 DEF InboxOrdered
  <2>5. CASE inbox'[q] = Append(inbox[q], c) /\ UNCHANGED reply
    <3>1. inbox[q] \in Seq(Calls) /\ DOMAIN inbox[q] = 1 .. Len(inbox[q]) /\ Len(inbox[q]) \in Nat
      BY DEF TypeOK
    <3>2. /\ DOMAIN inbox'[q] = 1 .. (Len(inbox[q]) + 1)
          /\ inbox'[q][Len(inbox[q]) + 1] = c
          /\ \A i \in DOMAIN inbox[q] : inbox'[q][i] = inbox[q][i]
      BY <2>1, <2>5, <3>1
    <3> HIDE DEF c
    <3>3. ASSUME NEW s \in Peers, NEW i \in DOMAIN inbox[s]
          PROVE /\ inbox[s][i] <= issued'
                /\ call'[inbox[s][i]].to = s
                /\ runs'[inbox[s][i]] = 0 /\ reply'[inbox[s][i]] = "none"
                /\ \A d \in Calls : runs'[d] > 0 /\ call'[d].to = s => d < inbox[s][i]
      <4>1. inbox[s][i] \in Calls /\ inbox[s][i] # c /\ inbox[s][i] <= issued'
        BY <2>1, <2>3 DEF Calls
      <4>2. \A d \in Calls : runs[d] > 0 => d # c
        BY <2>1, <2>2 DEF Calls
      <4> QED
        BY <2>1, <4>1, <4>2 DEF InboxOrdered
    <3> SUFFICES ASSUME NEW s \in Peers, NEW i \in DOMAIN inbox'[s]
                 PROVE /\ inbox'[s][i] <= issued'
                       /\ call'[inbox'[s][i]].to = s
                       /\ runs'[inbox'[s][i]] = 0 /\ reply'[inbox'[s][i]] = "none"
                       /\ \A j \in DOMAIN inbox'[s] : i < j => inbox'[s][i] < inbox'[s][j]
                       /\ \A d \in Calls : runs'[d] > 0 /\ call'[d].to = s => d < inbox'[s][i]
      BY DEF InboxOrdered
    <3>4. CASE s # q
      BY <2>1, <3>3, <3>4 DEF InboxOrdered
    <3>5. CASE s = q /\ i \in DOMAIN inbox[q]
      <4>1. ASSUME NEW j \in DOMAIN inbox'[q], i < j PROVE inbox'[q][i] < inbox'[q][j]
        <5>1. CASE j \in DOMAIN inbox[q]
          BY <3>2, <3>5, <4>1, <5>1 DEF InboxOrdered
        <5>2. CASE j = Len(inbox[q]) + 1
          BY <2>3, <3>2, <3>5, <5>2
        <5> QED
          BY <3>1, <3>2, <5>1, <5>2
      <4> QED
        BY <3>2, <3>3, <3>5, <4>1
    <3>6. CASE s = q /\ i = Len(inbox[q]) + 1
      <4>1. inbox'[q][i] = c /\ ~ \E j \in DOMAIN inbox'[q] : i < j
        BY <3>1, <3>2, <3>6
      <4>2. c <= issued' /\ call'[c].to = q /\ runs'[c] = 0 /\ reply'[c] = "none"
        BY <2>1, <2>5 DEF Calls
      <4> QED
        BY <2>1, <2>2, <3>6, <4>1, <4>2
    <3> QED
      BY <3>1, <3>2, <3>4, <3>5, <3>6
  <2> QED
    BY <1>1, <2>4, <2>5, InvokeEffect
<1>2. ASSUME NEW p \in Peers, NEW c \in Calls, TakeCall(p, c),
             inbox' = [inbox EXCEPT ![p] = Tail(@)],
             \A d \in Calls : d # c => reply'[d] = reply[d] /\ runs'[d] = runs[d],
             UNCHANGED <<issued, call>>
      PROVE InboxOrdered'
  <2>1. /\ 1 \in DOMAIN inbox[p] /\ inbox[p][1] = c
        /\ \A q \in Peers : q # p => inbox'[q] = inbox[q]
        /\ \A i \in DOMAIN inbox'[p] :
             /\ i \in Nat /\ i + 1 \in DOMAIN inbox[p] /\ 1 < i + 1
             /\ inbox'[p][i] = inbox[p][i + 1]
    BY <1>2, TakeEffect
  <2>2. /\ call[c].to = p
        /\ \A q \in Peers : q # p => \A i \in DOMAIN inbox[q] : inbox[q][i] # c
        /\ \A i \in DOMAIN inbox[p] : 1 < i => c < inbox[p][i]
    BY <1>2, HeadIsNew
  <2>3. \A q \in Peers : \A i \in DOMAIN inbox[q] : inbox[q][i] \in Calls
    BY DEF TypeOK
  <2> SUFFICES ASSUME NEW q \in Peers, NEW i \in DOMAIN inbox'[q]
               PROVE /\ inbox'[q][i] <= issued
                     /\ call[inbox'[q][i]].to = q
                     /\ runs'[inbox'[q][i]] = 0 /\ reply'[inbox'[q][i]] = "none"
                     /\ \A j \in DOMAIN inbox'[q] : i < j => inbox'[q][i] < inbox'[q][j]
                     /\ \A d \in Calls : runs'[d] > 0 /\ call[d].to = q => d < inbox'[q][i]
    BY <1>2 DEF InboxOrdered
  <2>4. CASE q = p
    <3>1. i + 1 \in DOMAIN inbox[p] /\ inbox'[p][i] = inbox[p][i + 1] /\ c < inbox[p][i + 1]
      BY <2>1, <2>2, <2>4
    <3>2. inbox[p][i + 1] \in Calls /\ inbox[p][i + 1] # c
      BY <2>3, <3>1 DEF Calls
    <3>3. \A j \in DOMAIN inbox'[p] : i < j => inbox'[p][i] < inbox'[p][j]
      <4> SUFFICES ASSUME NEW j \in DOMAIN inbox'[p], i < j PROVE inbox'[p][i] < inbox'[p][j]
        OBVIOUS
      <4>1. /\ j + 1 \in DOMAIN inbox[p] /\ inbox'[p][j] = inbox[p][j + 1]
            /\ i \in Nat /\ j \in Nat
        BY <2>1, <2>4
      <4> QED
        BY <3>1, <4>1 DEF InboxOrdered
    <3>4. \A d \in Calls : runs'[d] > 0 /\ call[d].to = p => d < inbox[p][i + 1]
      BY <1>2, <3>1 DEF InboxOrdered
    <3> QED
      BY <1>2, <2>4, <3>1, <3>2, <3>3, <3>4 DEF InboxOrdered
  <2>5. CASE q # p
    <3>1. inbox'[q] = inbox[q] /\ inbox[q][i] # c /\ inbox[q][i] \in Calls
      BY <2>1, <2>2, <2>3, <2>5
    <3>2. \A d \in Calls : runs'[d] > 0 /\ call[d].to = q => d < inbox[q][i]
      BY <1>2, <2>2, <2>5, <3>1 DEF InboxOrdered
    <3>3. /\ inbox[q][i] <= issued /\ call[inbox[q][i]].to = q
          /\ runs[inbox[q][i]] = 0 /\ reply[inbox[q][i]] = "none"
          /\ \A j \in DOMAIN inbox[q] : i < j => inbox[q][i] < inbox[q][j]
      BY <3>1 DEF InboxOrdered
    <3>4. reply'[inbox[q][i]] = reply[inbox[q][i]] /\ runs'[inbox[q][i]] = runs[inbox[q][i]]
      BY <1>2, <3>1
    <3> QED
      BY <3>1, <3>2, <3>3, <3>4
  <2> QED
    BY <2>4, <2>5
<1>3. ASSUME NEW p \in Peers, NEW c \in Calls,
             DispatchUnknown(p, c) \/ DispatchWrong(p, c) \/ DispatchCall(p, c)
      PROVE InboxOrdered'
  BY <1>2, <1>3 DEF DispatchUnknown, DispatchWrong, DispatchCall, TypeOK
<1>4. ASSUME NEW p \in Peers, Terminate(p), UNCHANGED <<issued, call, runs>>
      PROVE InboxOrdered'
  <2>1. \A q \in Peers : inbox'[q] = IF q = p THEN <<>> ELSE inbox[q]
    BY <1>4, TerminateEffect
  <2>2. \A q \in Peers : q # p => \A i \in DOMAIN inbox[q] :
          inbox[q][i] \in Calls /\ call[inbox[q][i]].to # p
    BY DEF TypeOK, InboxOrdered
  <2>3. \A q \in Peers : q # p => \A i \in DOMAIN inbox[q] : reply'[inbox[q][i]] = reply[inbox[q][i]]
    BY <1>4, <2>2, TerminateEffect
  <2>4. DOMAIN <<>> = {}
    OBVIOUS
  <2> QED
    BY <1>4, <2>1, <2>3, <2>4 DEF InboxOrdered
<1>5. ASSUME UNCHANGED <<issued, call, inbox, runs>>,
             \A q \in Peers : \A i \in DOMAIN inbox[q] : reply'[inbox[q][i]] = reply[inbox[q][i]]
      PROVE InboxOrdered'
  BY <1>5 DEF InboxOrdered
<1>6. ASSUME NEW p \in Peers, NEW r \in {"value", "declared"}, Finish(p, r) PROVE InboxOrdered'
  <2>1. \A q \in Peers : \A i \in DOMAIN inbox[q] :
          inbox[q][i] \in Calls /\ inbox[q][i] # serving[p]
    BY <1>6, ServedNotQueued DEF Finish, TypeOK
  <2>2. \A q \in Peers : \A i \in DOMAIN inbox[q] : reply'[inbox[q][i]] = reply[inbox[q][i]]
    BY <1>6, <2>1 DEF Finish, TypeOK
  <2> QED
    BY <1>5, <1>6, <2>2 DEF Finish
<1>7. ASSUME NEW p \in Peers, FinishUndeclared(p) PROVE InboxOrdered'
  BY <1>4, <1>5, <1>7 DEF FinishUndeclared
<1>8. ASSUME NEW p \in Peers, NEW c \in Calls, DispatchGarbled(p, c) PROVE InboxOrdered'
  BY <1>4, <1>8 DEF DispatchGarbled
<1>9. ASSUME NEW p \in Peers, NEW c \in Calls,
             Receive(p, c) \/ GivesUp(p, c)
      PROVE InboxOrdered'
  BY <1>4, <1>5, <1>9 DEF Receive, GivesUp, FailsAt
<1>10. ASSUME NEW p \in Peers, request_name(p) \/ run(p) PROVE InboxOrdered'
  BY <1>5, <1>10 DEF request_name, run
<1>11. CASE UNCHANGED vars
  BY <1>5, <1>11 DEF vars
<1>12. ASSUME NEW p \in Peers, FinishUnsent(p) PROVE InboxOrdered'
  BY <1>4, <1>12 DEF FinishUnsent
<1>13. ASSUME NEW p \in Peers, NEW q \in Peers, NEW raises \in BOOLEAN,
              InvokeUnwritable(p, q, raises)
       PROVE InboxOrdered'
  <2>1. PICK c \in Calls : c = issued + 1
    BY <1>13, UnwritableEffect
  <2>0. issued \in Nat
    BY DEF TypeOK
  <2>a. c > issued /\ runs[c] = 0
    BY <2>0, <2>1 DEF FreshCalls
  <2>2. /\ issued' = c /\ issued \in Nat /\ FailsAt(p, c) /\ runs[c] = 0
        /\ \A d \in Calls : d # c => call'[d] = call[d]
        /\ UNCHANGED runs
    BY <1>13, <2>0, <2>1, <2>a, UnwritableEffect
  <2>3. Terminate(p) \/ UNCHANGED <<inbox, reply>>
    BY <2>2, GivesUpEffect
  <2>4. ASSUME NEW s \in Peers, NEW i \in DOMAIN inbox[s]
        PROVE  /\ inbox[s][i] \in Calls /\ inbox[s][i] # c
               /\ inbox[s][i] <= issued /\ inbox[s][i] <= issued'
               /\ call[inbox[s][i]].to = s
    <3>1. inbox[s][i] \in Calls /\ inbox[s][i] <= issued /\ call[inbox[s][i]].to = s
      BY DEF InboxOrdered, TypeOK
    <3>2. inbox[s][i] \in Nat
      BY <3>1 DEF Calls
    <3> QED
      BY <2>0, <2>1, <2>2, <3>1, <3>2
  <2>5. ASSUME NEW s \in Peers, inbox'[s] # <<>>
        PROVE  /\ inbox'[s] = inbox[s]
               /\ \A i \in DOMAIN inbox[s] : reply'[inbox[s][i]] = reply[inbox[s][i]]
    BY <2>3, <2>4, <2>5, TerminateEffect
  <2> SUFFICES ASSUME NEW s \in Peers, NEW i \in DOMAIN inbox'[s]
               PROVE /\ inbox'[s][i] <= issued'
                     /\ call'[inbox'[s][i]].to = s
                     /\ runs'[inbox'[s][i]] = 0 /\ reply'[inbox'[s][i]] = "none"
                     /\ \A j \in DOMAIN inbox'[s] : i < j => inbox'[s][i] < inbox'[s][j]
                     /\ \A d \in Calls : runs'[d] > 0 /\ call'[d].to = s => d < inbox'[s][i]
    BY DEF InboxOrdered
  <2>6. inbox'[s] = inbox[s] /\ reply'[inbox[s][i]] = reply[inbox[s][i]]
    <3>1. DOMAIN <<>> = {}
      OBVIOUS
    <3> QED
      BY <2>5, <3>1
  <2>7. \A d \in Calls : runs[d] > 0 => d # c
    BY <2>2
  <2> QED
    BY <2>2, <2>4, <2>6, <2>7 DEF InboxOrdered
<1> QED
  BY <1>1, <1>3, <1>6, <1>7, <1>8, <1>9, <1>10, <1>11, <1>12, <1>13, GivingUp
  DEF Next, EndsCall, ReceiveError, Timeout

(* A servant's call stays the one call it was entered for.                 *)
LEMMA NextServant == CallsRight /\ [Next]_vars => ServantExact'
<1> SUFFICES ASSUME CallsRight, [Next]_vars PROVE ServantExact'
  OBVIOUS
<1> TypeOK /\ ServantExact
  BY DEF CallsRight, Bookkeeping
<1> MaxCalls \in Nat /\ NULL \notin Nat
  BY RpcAssumption
<1>0. \A q \in Peers : serving[q] # NULL => serving[q] \in Calls
  BY DEF TypeOK
<1>1. ASSUME NEW p \in Peers, NEW q \in Peers, NEW r \in Kinds, NEW raises \in BOOLEAN,
             Invoke(p, q, r, raises)
      PROVE ServantExact'
  <2>1. /\ issued \in Nat /\ issued' = issued + 1
        /\ \A c \in Calls : c # issued + 1 => call'[c] = call[c] /\ reply'[c] = reply[c]
        /\ UNCHANGED <<serving, runs, result>>
    BY <1>1, InvokeEffect DEF TypeOK
  <2>2. \A s \in Peers : serving[s] # NULL => serving[s] <= issued /\ serving[s] # issued + 1
    BY <1>0, <2>1 DEF ServantExact, Calls
  <2>3. \A s \in Peers : serving[s] # NULL => serving[s] <= issued + 1
    BY <1>0, <2>1, <2>2 DEF Calls
  <2> QED
    BY <1>0, <2>1, <2>2, <2>3 DEF ServantExact
<1>2. ASSUME NEW p \in Peers, Terminate(p), UNCHANGED <<issued, call, runs>>,
             \A q \in Peers : q # p /\ serving[q] # NULL => result'[serving[q]] = result[serving[q]]
      PROVE ServantExact'
  <2>1. \A q \in Peers : serving'[q] = IF q = p THEN NULL ELSE serving[q]
    BY <1>2, TerminateEffect
  <2>2. \A q \in Peers : q # p /\ serving[q] # NULL => reply'[serving[q]] = reply[serving[q]]
    BY <1>0, <1>2, TerminateEffect DEF ServantExact
  <2> QED
    BY <1>2, <2>1, <2>2 DEF ServantExact
<1>3. ASSUME UNCHANGED <<issued, call>>, NEW p \in Peers, serving'[p] = NULL,
             \A q \in Peers : q # p => serving'[q] = serving[q],
             \A q \in Peers : q # p /\ serving[q] # NULL =>
               /\ result'[serving[q]] = result[serving[q]]
               /\ reply'[serving[q]] = reply[serving[q]]
               /\ runs'[serving[q]] = runs[serving[q]]
      PROVE ServantExact'
  BY <1>3 DEF ServantExact
<1>4. ASSUME NEW p \in Peers, NEW c \in Calls, DispatchUnknown(p, c) \/ DispatchWrong(p, c)
      PROVE ServantExact'
  <2>1. c # NULL /\ \A q \in Peers : serving[q] # c
    BY <1>4, HeadIsNew DEF DispatchUnknown, DispatchWrong, Calls
  <2> QED
    BY <1>0, <1>4, <2>1 DEF DispatchUnknown, DispatchWrong, ServantExact, TypeOK
<1>5. ASSUME NEW p \in Peers, NEW c \in Calls, DispatchCall(p, c) PROVE ServantExact'
  <2>1. /\ c <= issued /\ call[c].to = p /\ runs[c] = 0
        /\ reply[c] = "none" /\ result[c] = "none"
        /\ \A q \in Peers : serving[q] # c
    BY <1>5, HeadIsNew DEF DispatchCall
  <2>2. /\ serving' = [serving EXCEPT ![p] = c] /\ runs' = [runs EXCEPT ![c] = @ + 1]
        /\ UNCHANGED <<issued, call, reply, result>>
    BY <1>5 DEF DispatchCall
  <2>3. /\ serving'[p] = c /\ runs'[c] = 1
        /\ \A q \in Peers : q # p => serving'[q] = serving[q]
        /\ \A d \in Calls : d # c => runs'[d] = runs[d]
    BY <2>1, <2>2 DEF TypeOK
  <2> QED
    BY <1>0, <2>1, <2>2, <2>3 DEF ServantExact
<1>6. ASSUME NEW p \in Peers, NEW r \in {"value", "declared"}, Finish(p, r) PROVE ServantExact'
  <2>1. /\ serving[p] # NULL /\ UNCHANGED <<issued, call, runs>>
        /\ result' = [result EXCEPT ![serving[p]] = r]
        /\ reply' = [reply EXCEPT ![serving[p]] = r]
        /\ serving' = [serving EXCEPT ![p] = NULL]
    BY <1>6 DEF Finish
  <2>2. \A q \in Peers : q # p /\ serving[q] # NULL =>
          /\ result'[serving[q]] = result[serving[q]]
          /\ reply'[serving[q]] = reply[serving[q]]
    BY <1>0, <2>1, ServedNotQueued DEF TypeOK
  <2>3. serving'[p] = NULL /\ \A q \in Peers : q # p => serving'[q] = serving[q]
    BY <2>1 DEF TypeOK
  <2> QED
    BY <1>3, <2>1, <2>2, <2>3
<1>7. ASSUME NEW p \in Peers, FinishUndeclared(p) PROVE ServantExact'
  <2>1. \A q \in Peers : q # p /\ serving[q] # NULL => result'[serving[q]] = result[serving[q]]
    BY <1>0, <1>7, ServedNotQueued DEF FinishUndeclared, TypeOK
  <2>2. CASE p \in Strict
    BY <1>2, <1>7, <2>1, <2>2 DEF FinishUndeclared
  <2>3. CASE p \notin Strict
    <3>1. serving' = [serving EXCEPT ![p] = NULL] /\ UNCHANGED <<issued, call, runs, reply>>
      BY <1>7, <2>3 DEF FinishUndeclared
    <3>2. serving'[p] = NULL /\ \A q \in Peers : q # p => serving'[q] = serving[q]
      BY <3>1 DEF TypeOK
    <3> QED
      BY <1>3, <2>1, <3>1, <3>2
  <2> QED
    BY <2>2, <2>3
<1>8. ASSUME NEW p \in Peers, NEW c \in Calls, DispatchGarbled(p, c) PROVE ServantExact'
  BY <1>2, <1>8 DEF DispatchGarbled
<1>9. ASSUME NEW p \in Peers, NEW c \in Calls,
             Receive(p, c) \/ GivesUp(p, c)
      PROVE ServantExact'
  BY <1>2, <1>9 DEF Receive, GivesUp, FailsAt, ServantExact
<1>10. ASSUME NEW p \in Peers, request_name(p) \/ run(p) PROVE ServantExact'
  BY <1>10 DEF request_name, run, ServantExact
<1>11. CASE UNCHANGED vars
  BY <1>11 DEF vars, ServantExact
<1>12. ASSUME NEW p \in Peers, FinishUnsent(p) PROVE ServantExact'
  <2>1. \A q \in Peers : q # p /\ serving[q] # NULL => result'[serving[q]] = result[serving[q]]
    BY <1>0, <1>12, ServedNotQueued DEF FinishUnsent, TypeOK
  <2> QED
    BY <1>2, <1>12, <2>1 DEF FinishUnsent
<1>13. ASSUME NEW p \in Peers, NEW q \in Peers, NEW raises \in BOOLEAN,
              InvokeUnwritable(p, q, raises)
       PROVE ServantExact'
  <2>1. PICK c \in Calls : c = issued + 1
    BY <1>13, UnwritableEffect
  <2>2. /\ issued' = c /\ issued \in Nat /\ FailsAt(p, c)
        /\ \A d \in Calls : d # c => call'[d] = call[d]
        /\ UNCHANGED <<runs, result>>
    BY <1>13, <2>1, UnwritableEffect DEF TypeOK
  <2>3. Terminate(p) \/ UNCHANGED <<serving, reply>>
    BY <2>2, GivesUpEffect
  <2>4. \A s \in Peers : serving[s] # NULL =>
          serving[s] # c /\ serving[s] <= issued' /\ call[serving[s]].to = s
    BY <1>0, <2>1, <2>2 DEF ServantExact, Calls
  <2>5. \A s \in Peers : serving'[s] # NULL =>
          serving'[s] = serving[s] /\ reply'[serving[s]] = reply[serving[s]]
    BY <1>0, <2>3, <2>4, TerminateEffect
  <2> QED
    BY <1>0, <2>2, <2>4, <2>5 DEF ServantExact
<1> QED
  BY <1>1, <1>4, <1>5, <1>6, <1>7, <1>8, <1>9, <1>10, <1>11, <1>12, <1>13, GivingUp
  DEF Next, EndsCall, ReceiveError, Timeout

(* Answers come from runs, and a run's result never changes.               *)
LEMMA NextAnswers == CallsRight /\ [Next]_vars => AnswersSourced' /\ AtMostOnce'
<1> SUFFICES ASSUME CallsRight, [Next]_vars PROVE AnswersSourced' /\ AtMostOnce'
  OBVIOUS
<1> TypeOK /\ FreshCalls /\ AnswersSourced /\ AtMostOnce
  BY DEF CallsRight, Bookkeeping
<1> MaxCalls \in Nat /\ NULL \notin Nat
  BY RpcAssumption
<1> DEFINE Goal == AnswersSourced' /\ AtMostOnce'
<1>1. ASSUME NEW p \in Peers, NEW q \in Peers, NEW r \in Kinds, NEW raises \in BOOLEAN,
             Invoke(p, q, r, raises)
      PROVE Goal
  <2>1. /\ \A c \in Calls : c # issued + 1 => reply'[c] = reply[c] /\ outcome'[c] = outcome[c]
        /\ outcome'[issued + 1] = "waiting"
        /\ reply'[issued + 1] = "error" \/ UNCHANGED reply
        /\ UNCHANGED <<runs, result>>
    BY <1>1, InvokeEffect
  <2> QED
    BY <2>1 DEF AnswersSourced, AtMostOnce
<1>2. ASSUME NEW p \in Peers, Terminate(p) \/ UNCHANGED <<inbox, serving, reply>>,
             UNCHANGED <<runs, result>>,
             \A c \in Calls : outcome'[c] # outcome[c] => 
               outcome'[c] \in {"terminated", "logic_error", "exception"}
      PROVE Goal
  <2>1. \A c \in Calls : reply'[c] # reply[c] => reply'[c] = "error"
    BY <1>2, TerminateEffect
  <2> QED
    BY <1>2, <2>1 DEF AnswersSourced, AtMostOnce
<1>3. ASSUME NEW p \in Peers, NEW c \in Calls, DispatchUnknown(p, c) \/ DispatchWrong(p, c)
      PROVE Goal
  BY <1>3 DEF DispatchUnknown, DispatchWrong, AnswersSourced, AtMostOnce, TypeOK
<1>4. ASSUME NEW p \in Peers, NEW c \in Calls, DispatchCall(p, c) PROVE Goal
  <2>1. runs[c] = 0 /\ result[c] = "none" /\ UNCHANGED <<reply, result, outcome>>
    BY <1>4, HeadIsNew DEF DispatchCall
  <2>2. runs'[c] = 1 /\ \A d \in Calls : d # c => runs'[d] = runs[d]
    BY <1>4, <2>1 DEF DispatchCall, TypeOK
  <2> QED
    BY <2>1, <2>2 DEF AnswersSourced, AtMostOnce
<1>5. ASSUME NEW p \in Peers, serving[p] # NULL
      PROVE /\ serving[p] \in Calls /\ runs[serving[p]] = 1
            /\ result[serving[p]] = "none" /\ reply[serving[p]] = "none"
            /\ outcome[serving[p]] \notin {"value", "declared"}
  BY <1>5 DEF CallsRight, Bookkeeping, ServantExact, AnswersSourced, TypeOK
<1>6. ASSUME NEW p \in Peers, NEW r \in {"value", "declared"}, Finish(p, r) PROVE Goal
  BY <1>5, <1>6 DEF Finish, AnswersSourced, AtMostOnce, TypeOK
<1>7. ASSUME NEW p \in Peers, FinishUndeclared(p) PROVE Goal
  <2>1. \A c \in Calls : reply'[c] # reply[c] => reply'[c] = "error"
    BY <1>7, TerminateEffect DEF FinishUndeclared
  <2>2. /\ serving[p] \in Calls /\ runs[serving[p]] = 1 /\ reply[serving[p]] = "none"
        /\ outcome[serving[p]] \notin {"value", "declared"}
        /\ result' = [result EXCEPT ![serving[p]] = "undeclared"]
        /\ UNCHANGED <<runs, outcome>>
    BY <1>5, <1>7 DEF FinishUndeclared
  <2> QED
    BY <2>1, <2>2 DEF AnswersSourced, AtMostOnce, TypeOK
<1>8. ASSUME NEW p \in Peers, NEW c \in Calls, DispatchGarbled(p, c) PROVE Goal
  BY <1>2, <1>8 DEF DispatchGarbled
<1>9. ASSUME NEW p \in Peers, NEW c \in Calls, Receive(p, c) PROVE Goal
  BY <1>9 DEF Receive, AnswersSourced, AtMostOnce, TypeOK
<1>10. ASSUME NEW p \in Peers, NEW c \in Calls, FailsAt(p, c), UNCHANGED <<runs, result>>
       PROVE Goal
  BY <1>2, <1>10, GivesUpEffect
<1>11. ASSUME NEW p \in Peers, request_name(p) \/ run(p) PROVE Goal
  BY <1>11 DEF request_name, run, AnswersSourced, AtMostOnce
<1>12. CASE UNCHANGED vars
  BY <1>12 DEF vars, AnswersSourced, AtMostOnce
<1>13. ASSUME NEW p \in Peers, FinishUnsent(p) PROVE Goal
  <2>1. \A c \in Calls : reply'[c] # reply[c] => reply'[c] = "error"
    BY <1>13, TerminateEffect DEF FinishUnsent
  <2>2. /\ serving[p] \in Calls /\ runs[serving[p]] = 1 /\ reply[serving[p]] = "none"
        /\ outcome[serving[p]] \notin {"value", "declared"}
        /\ result' = [result EXCEPT ![serving[p]] = "unsent"]
        /\ UNCHANGED <<runs, outcome>>
    BY <1>5, <1>13 DEF FinishUnsent
  <2> QED
    BY <2>1, <2>2 DEF AnswersSourced, AtMostOnce, TypeOK
<1>14. ASSUME NEW p \in Peers, NEW c \in Calls, GivesUp(p, c) PROVE Goal
  BY <1>10, <1>14 DEF GivesUp
<1>15. ASSUME NEW p \in Peers, NEW q \in Peers, NEW raises \in BOOLEAN,
              InvokeUnwritable(p, q, raises)
       PROVE Goal
  BY <1>10, <1>15, UnwritableEffect
<1> QED
  BY <1>1, <1>3, <1>4, <1>6, <1>7, <1>8, <1>9, <1>11, <1>12, <1>13, <1>14, <1>15, GivingUp
  DEF Next, EndsCall, ReceiveError, Timeout

(* Types, at most one run per call and the bookkeeping of serials,         *)
(* inboxes, servants and answers hold for any number of calls.             *)
THEOREM CallsAreRight == Spec => []CallsRight
<1>1. CallsRight /\ [Next]_vars => CallsRight'
  BY NextTypeOK, NextFresh, NextCallersWait, NextInbox, NextServant, NextAnswers
  DEF CallsRight, Bookkeeping
<1> QED
  BY InitCallsRight, <1>1, PTL DEF Spec

(* No servant is entered twice for one call, whatever times out, dies or   *)
(* arrives late.                                                           *)
THEOREM ServantsRunAtMostOnce == Spec => []AtMostOnce
BY CallsAreRight, PTL DEF CallsRight

(* A proxy hands its caller only what the servant did for this very call.  *)
THEOREM AnswersAreOwn == Spec => []AnswerIsOwn
<1>1. CallsRight => AnswerIsOwn
  BY DEF CallsRight, Bookkeeping, AnswersSourced, AnswerIsOwn
<1> QED
  BY CallsAreRight, <1>1, PTL

(* A callee serves a caller's calls in the order they were made.           *)
THEOREM CallsServedInOrder == Spec => []ServedInOrder
<1>1. CallsRight => ServedInOrder
  <2> SUFFICES ASSUME CallsRight, NEW c \in Calls, NEW d \in Calls, c < d, runs[d] > 0,
                      NEW i \in DOMAIN inbox[call[d].to]
               PROVE inbox[call[d].to][i] # c
    BY DEF ServedInOrder
  <2>1. call[d] # NULL
    BY DEF CallsRight, TypeOK, Bookkeeping, FreshCalls, Calls
  <2>2. call[d].to \in Peers
    BY <2>1 DEF CallsRight, TypeOK, Call
  <2>3. d < inbox[call[d].to][i]
    BY <2>2 DEF CallsRight, Bookkeeping, InboxOrdered
  <2> QED
    BY <2>3, RpcAssumption DEF Calls
<1> QED
  BY CallsAreRight, <1>1, PTL

-----------------------------------------------------------------------------
(* Where a call without a reply is, whether or not its caller still waits. *)
Accounted(c) ==
  Sent(c) /\ reply[c] = "none" =>
    \/ \E i \in DOMAIN inbox[call[c].to] : inbox[call[c].to][i] = c
    \/ serving[call[c].to] = c
    \/ call[c].request = "wrong"
    \/ result[c] = "undeclared"

AllAccounted == \A c \in Calls : Accounted(c)

(* A call that one step takes from the head of an inbox leaves the others  *)
(* where they are.                                                         *)
LEMMA OthersStayQueued ==
  ASSUME TypeOK, NEW p \in Peers, NEW c \in Calls, TakeCall(p, c),
         inbox' = [inbox EXCEPT ![p] = Tail(@)]
  PROVE  \A q \in Peers : \A i \in DOMAIN inbox[q] :
           inbox[q][i] # c => \E j \in DOMAIN inbox'[q] : inbox'[q][j] = inbox[q][i]
<1> SUFFICES ASSUME NEW q \in Peers, NEW i \in DOMAIN inbox[q], inbox[q][i] # c
             PROVE  \E j \in DOMAIN inbox'[q] : inbox'[q][j] = inbox[q][i]
  OBVIOUS
<1>1. inbox[p] \in Seq(Calls) /\ inbox[p] # <<>> /\ inbox[p][1] = c
  BY DEF TypeOK, TakeCall
<1>2. CASE q = p
  <2>1. inbox'[p] = Tail(inbox[p]) /\ i # 1
    BY <1>1, <1>2 DEF TypeOK
  <2>2. i - 1 \in DOMAIN Tail(inbox[p]) /\ Tail(inbox[p])[i - 1] = inbox[p][i]
    BY <1>1, <1>2, <2>1
  <2> QED
    BY <1>2, <2>1, <2>2
<1>3. CASE q # p
  BY <1>3 DEF TypeOK
<1> QED
  BY <1>2, <1>3

(* No step loses a call: what leaves the inbox is served, answered, or of  *)
(* the wrong name, and what leaves a servant is answered or undeclared.    *)
LEMMA NextAccounted == CallsRight /\ AllAccounted /\ [Next]_vars => AllAccounted'
<1> SUFFICES ASSUME CallsRight, AllAccounted, [Next]_vars, NEW d \in Calls,
                    Sent(d)', reply'[d] = "none"
             PROVE  \/ \E i \in DOMAIN inbox'[call'[d].to] : inbox'[call'[d].to][i] = d
                    \/ serving'[call'[d].to] = d
                    \/ call'[d].request = "wrong"
                    \/ result'[d] = "undeclared"
  BY DEF AllAccounted, Accounted
<1> TypeOK /\ FreshCalls /\ InboxOrdered /\ ServantExact /\ Accounted(d)
  BY DEF CallsRight, Bookkeeping, AllAccounted
<1> MaxCalls \in Nat /\ NULL \notin Nat
  BY RpcAssumption
<1> DEFINE Goal ==
             \/ \E i \in DOMAIN inbox'[call'[d].to] : inbox'[call'[d].to][i] = d
             \/ serving'[call'[d].to] = d
             \/ call'[d].request = "wrong"
             \/ result'[d] = "undeclared"
<1>0. Sent(d) => call[d].to \in Peers
  BY DEF TypeOK, Call, Sent
<1>9. call'[d] = call[d] => Sent(d)
  BY DEF Sent
<1>1. ASSUME NEW p \in Peers, NEW q \in Peers, NEW r \in Kinds, NEW raises \in BOOLEAN,
             Invoke(p, q, r, raises)
      PROVE Goal
  <2>1. /\ issued + 1 \in Calls
        /\ d # issued + 1 => call'[d] = call[d] /\ reply'[d] = reply[d]
        /\ call'[issued + 1].to = q
        /\ \A s \in Peers : s # q => inbox'[s] = inbox[s]
        /\ \/ UNCHANGED inbox /\ reply'[issued + 1] = "error"
           \/ inbox'[q] = Append(inbox[q], issued + 1) /\ UNCHANGED reply
        /\ UNCHANGED <<serving, runs, result>>
    BY <1>1, InvokeEffect
  <2>2. inbox[q] \in Seq(Calls) /\ issued \in Nat
    BY DEF TypeOK
  <2>3. CASE d = issued + 1
    <3>1. inbox'[q] = Append(inbox[q], d)
      BY <2>1, <2>3
    <3>2. Len(inbox[q]) + 1 \in DOMAIN inbox'[q] /\ inbox'[q][Len(inbox[q]) + 1] = d
      BY <2>2, <3>1
    <3> QED
      BY <2>1, <2>3, <3>2
  <2>4. CASE d # issued + 1
    <3>1. ASSUME NEW s \in Peers, NEW i \in DOMAIN inbox[s], inbox[s][i] = d
          PROVE i \in DOMAIN inbox'[s] /\ inbox'[s][i] = d
      <4>1. inbox'[s] = inbox[s] \/ (s = q /\ inbox'[s] = Append(inbox[s], issued + 1))
        BY <2>1
      <4>2. ASSUME NEW t \in Seq(Calls), i \in DOMAIN t, NEW e
            PROVE  i \in DOMAIN Append(t, e) /\ Append(t, e)[i] = t[i]
        BY ONLY <4>2
      <4> QED
        BY <2>2, <3>1, <4>1, <4>2
    <3> QED
      BY <1>0, <1>9, <2>1, <2>4, <3>1 DEF Accounted
  <2> QED
    BY <2>3, <2>4
<1>2. ASSUME NEW p \in Peers, Terminate(p), UNCHANGED call,
             result'[d] = result[d] \/ result'[d] = "undeclared"
      PROVE Goal
  <2>1. /\ reply[d] = "none" /\ call[d].to # p
    <3>1. /\ reply'[d] # reply[d] => reply'[d] = "error"
          /\ reply' = [c \in Calls |->
                IF Sent(c) /\ call[c].to = p /\ reply[c] = "none"
                THEN "error" ELSE reply[c]]
      BY <1>2, TerminateEffect DEF Terminate
    <3> QED
      BY <1>2, <1>9, <3>1
  <2> QED
    BY <1>0, <1>2, <1>9, <2>1, TerminateEffect DEF Accounted, Sent
<1>3. ASSUME NEW p \in Peers, NEW c \in Calls,
             DispatchUnknown(p, c) \/ DispatchWrong(p, c) \/ DispatchCall(p, c)
      PROVE Goal
  <2>1. /\ TakeCall(p, c) /\ inbox' = [inbox EXCEPT ![p] = Tail(@)]
        /\ UNCHANGED <<call, result>>
        /\ serving' = serving \/ (serving' = [serving EXCEPT ![p] = c] /\ serving[p] = NULL)
        /\ reply' = reply \/ reply' = [reply EXCEPT ![c] = "error"]
    BY <1>3 DEF DispatchUnknown, DispatchWrong, DispatchCall, TakeCall, Idle
  <2>2. /\ reply[d] = "none"
        /\ \A q \in Peers : serving[q] = d => serving'[q] = d
    <3>1. reply[d] = "none"
      BY <2>1 DEF TypeOK
    <3>2. d # NULL /\ DOMAIN serving = Peers
      BY DEF TypeOK, Calls
    <3>3. ASSUME NEW q \in Peers, serving[q] = d PROVE serving'[q] = d
      BY <2>1, <3>2, <3>3
    <3> QED
      BY <3>1, <3>3
  <2>3. CASE d = c
    <3>1. call[d].to = p
      BY <2>1, <2>3, HeadIsNew
    <3> QED
      BY <1>3, <2>3, <3>1 DEF DispatchUnknown, DispatchWrong, DispatchCall, TypeOK
  <2>4. CASE d # c
    <3>1. ASSUME NEW q \in Peers, NEW i \in DOMAIN inbox[q], inbox[q][i] = d
          PROVE \E j \in DOMAIN inbox'[q] : inbox'[q][j] = d
      <4>1. TakeCall(p, c) /\ inbox' = [inbox EXCEPT ![p] = Tail(@)]
        BY <2>1
      <4>2. inbox[q][i] # c
        BY <2>4, <3>1
      <4>3. \A s \in Peers : \A j \in DOMAIN inbox[s] :
              inbox[s][j] # c => \E k \in DOMAIN inbox'[s] : inbox'[s][k] = inbox[s][j]
        BY ONLY TypeOK, <4>1, OthersStayQueued, p \in Peers, c \in Calls
      <4> QED
        BY <3>1, <4>2, <4>3
    <3> QED
      BY <1>0, <1>9, <2>1, <2>2, <3>1 DEF Accounted
  <2> QED
    BY <2>3, <2>4
<1>4. ASSUME NEW p \in Peers, NEW r \in {"value", "declared"}, Finish(p, r) PROVE Goal
  <2>1. /\ serving[p] \in Calls /\ UNCHANGED <<call, inbox>>
        /\ reply' = [reply EXCEPT ![serving[p]] = r]
        /\ result' = [result EXCEPT ![serving[p]] = r]
        /\ serving' = [serving EXCEPT ![p] = NULL]
    BY <1>4 DEF Finish, TypeOK
  <2>2. serving[p] # d
    BY <2>1 DEF TypeOK
  <2>3. reply[d] = "none" /\ result'[d] = result[d]
        /\ \A q \in Peers : serving[q] = d => serving'[q] = d
    BY <2>1, <2>2 DEF TypeOK
  <2> QED
    BY <1>0, <1>9, <2>1, <2>3 DEF Accounted
<1>10. ASSUME NEW p \in Peers, FinishUnsent(p) PROVE Goal
  <2>1. serving[p] \in Calls /\ call[serving[p]].to = p
    BY <1>10 DEF FinishUnsent, TypeOK, ServantExact
  <2>2. reply'[d] # "none" \/ d # serving[p]
    <3>1. Sent(serving[p]) /\ d = serving[p] => reply'[d] # "none"
      BY <1>10, <2>1 DEF FinishUnsent, Terminate, TypeOK
    <3> QED
      BY <1>9, <1>10, <3>1 DEF FinishUnsent
  <2>3. result'[d] = result[d]
    BY <1>10, <2>1, <2>2 DEF FinishUnsent, TypeOK
  <2> QED
    BY <1>2, <1>10, <2>3 DEF FinishUnsent
<1>11. ASSUME NEW p \in Peers, NEW q \in Peers, NEW raises \in BOOLEAN,
              InvokeUnwritable(p, q, raises)
       PROVE Goal
  <2>1. PICK c \in Calls : c = issued + 1
    BY <1>11, UnwritableEffect
  <2>2. /\ FailsAt(p, c) /\ call'[c].request = "unwritable" /\ UNCHANGED result
        /\ \A e \in Calls : e # c => call'[e] = call[e]
    BY <1>11, <2>1, UnwritableEffect
  <2>3. d # c /\ call'[d] = call[d] /\ Sent(d) /\ call[d].to \in Peers
    BY <1>0, <1>9, <2>2 DEF Sent
  <2>4. CASE Terminate(p)
    <3>1. reply[d] = "none" /\ call[d].to # p
      BY <2>3, <2>4 DEF Terminate, TypeOK
    <3> QED
      BY <2>2, <2>3, <2>4, <3>1, TerminateEffect DEF Accounted
  <2>5. CASE UNCHANGED <<inbox, serving, reply>>
    BY <2>2, <2>3, <2>5 DEF Accounted
  <2> QED
    BY <2>2, <2>4, <2>5, GivesUpEffect
<1>5. ASSUME NEW p \in Peers, FinishUndeclared(p) PROVE Goal
  <2>1. /\ serving[p] \in Calls /\ UNCHANGED call
        /\ result' = [result EXCEPT ![serving[p]] = "undeclared"]
    BY <1>5 DEF FinishUndeclared, TypeOK
  <2>2. result'[d] = result[d] \/ result'[d] = "undeclared"
    BY <2>1 DEF TypeOK
  <2>3. CASE p \in Strict
    BY <1>2, <1>5, <2>1, <2>2, <2>3 DEF FinishUndeclared
  <2>4. CASE p \notin Strict
    <3>1. serving' = [serving EXCEPT ![p] = NULL] /\ UNCHANGED <<inbox, reply>>
      BY <1>5, <2>4 DEF FinishUndeclared
    <3>2. serving[p] = d => result'[d] = "undeclared"
      BY <2>1 DEF TypeOK
    <3>3. \A q \in Peers : q # p => serving'[q] = serving[q]
      BY <3>1 DEF TypeOK
    <3> QED
      BY <1>0, <1>9, <2>1, <2>2, <3>1, <3>2, <3>3 DEF Accounted
  <2> QED
    BY <2>3, <2>4
<1>6. ASSUME NEW p \in Peers, NEW c \in Calls, DispatchGarbled(p, c) PROVE Goal
  BY <1>2, <1>6 DEF DispatchGarbled
<1>7. ASSUME UNCHANGED <<call, inbox, serving, reply, result>> PROVE Goal
  BY <1>7, <1>9 DEF Accounted
<1>8. ASSUME NEW p \in Peers, NEW c \in Calls, GivesUp(p, c) PROVE Goal
  BY <1>2, <1>7, <1>8 DEF GivesUp, FailsAt
<1> QED
  BY <1>1, <1>3, <1>4, <1>5, <1>6, <1>7, <1>8, <1>10, <1>11, GivingUp
  DEF Next, EndsCall, ReceiveError, Timeout, Receive, request_name, run, vars

(* A caller waits in vain only for one of the two kinds of call that the   *)
(* callee swallows.                                                        *)
THEOREM WaitsAreAccounted == Spec => []WaitingAccounted
<1>1. Init => AllAccounted
  BY DEF Init, AllAccounted, Accounted, Sent
<1>2. CallsRight /\ AllAccounted => WaitingAccounted
  <2> SUFFICES ASSUME CallsRight, AllAccounted, NEW p \in Peers,
                      blocked[p] # NULL, reply[blocked[p]] = "none"
               PROVE \/ \E i \in DOMAIN inbox[call[blocked[p]].to] :
                          inbox[call[blocked[p]].to][i] = blocked[p]
                     \/ serving[call[blocked[p]].to] = blocked[p]
                     \/ call[blocked[p]].request = "wrong"
                     \/ result[blocked[p]] = "undeclared"
    BY DEF WaitingAccounted
  <2>1. blocked[p] \in Calls /\ Sent(blocked[p])
    BY DEF CallsRight, TypeOK, Bookkeeping, CallersWait, FreshCalls, Sent
  <2> QED
    BY <2>1 DEF AllAccounted, Accounted
<1> QED
  BY <1>1, <1>2, NextAccounted, CallsAreRight, PTL DEF Spec

(* Causes of death last: calls are not changed, and what a servant or a    *)
(* proxy has come to is final.                                             *)
LEMMA NextDeath == CallsRight /\ DeathHasCause /\ [Next]_vars => DeathHasCause'
<1> SUFFICES ASSUME CallsRight, DeathHasCause, [Next]_vars PROVE DeathHasCause'
  OBVIOUS
<1> TypeOK /\ FreshCalls /\ CallersWait /\ InboxOrdered /\ ServantExact
  BY DEF CallsRight, Bookkeeping
<1> MaxCalls \in Nat /\ NULL \notin Nat
  BY RpcAssumption
<1> DEFINE Cause(p, c) ==
             /\ call[c] # NULL
             /\ \/ call[c].to = p /\ call[c].request = "garbled"
                \/ call[c].to = p /\ result[c] = "unsent"
                \/ call[c].to = p /\ result[c] = "undeclared" /\ p \in Strict
                \/ call[c].from = p /\ outcome[c] = "terminated"
                   /\ (p \in Strict \/ call[c].raises)
<1>1. ASSUME \A c \in Calls : call[c] # NULL => call'[c] = call[c],
             \A c \in Calls : call[c] # NULL /\ result[c] \in {"undeclared", "unsent"} =>
               result'[c] = result[c],
             \A c \in Calls : call[c] # NULL /\ outcome[c] = "terminated" => outcome'[c] = outcome[c],
             \A p \in Peers : mode'[p] = "dead" => mode[p] = "dead" \/ \E c \in Calls : Cause(p, c)'
      PROVE DeathHasCause'
  <2>1. \A p \in Peers, c \in Calls : Cause(p, c) => Cause(p, c)'
    BY <1>1
  <2>2. \A p \in Peers : mode[p] = "dead" => \E c \in Calls : Cause(p, c)
    BY DEF DeathHasCause
  <2>3. \A p \in Peers : mode'[p] = "dead" => \E c \in Calls : Cause(p, c)'
    BY ONLY <1>1, <2>1, <2>2
  <2> QED
    BY <2>3 DEF DeathHasCause
<1>2. ASSUME NEW p \in Peers, NEW q \in Peers, NEW r \in Kinds, NEW raises \in BOOLEAN,
             Invoke(p, q, r, raises)
      PROVE DeathHasCause'
  <2>1. /\ issued + 1 \in Calls /\ issued \in Nat
        /\ \A c \in Calls : c # issued + 1 => call'[c] = call[c] /\ outcome'[c] = outcome[c]
        /\ UNCHANGED result
    BY <1>2, InvokeEffect DEF TypeOK
  <2>2. call[issued + 1] = NULL /\ UNCHANGED mode
    BY <1>2, <2>1 DEF Invoke, FreshCalls, Calls
  <2> QED
    BY <1>1, <2>1, <2>2
<1>3. ASSUME NEW p \in Peers, NEW c \in Calls,
             DispatchUnknown(p, c) \/ DispatchWrong(p, c) \/ DispatchCall(p, c)
      PROVE DeathHasCause'
  BY <1>1, <1>3 DEF DispatchUnknown, DispatchWrong, DispatchCall
<1>4. ASSUME NEW p \in Peers, NEW c \in Calls, DispatchGarbled(p, c) PROVE DeathHasCause'
  <2>1. call[c] # NULL /\ call[c].to = p /\ call[c].request = "garbled"
    <3>1. c <= issued /\ call[c].to = p
      BY <1>4, HeadIsNew DEF DispatchGarbled
    <3> QED
      BY <1>4, <3>1 DEF DispatchGarbled, FreshCalls
  <2>2. mode' = [mode EXCEPT ![p] = "dead"] /\ UNCHANGED <<call, result, outcome>>
    BY <1>4 DEF DispatchGarbled, Terminate
  <2> QED
    BY <1>1, <2>1, <2>2 DEF TypeOK
<1>5. ASSUME NEW p \in Peers, serving[p] # NULL
      PROVE /\ serving[p] \in Calls /\ call[serving[p]] # NULL /\ call[serving[p]].to = p
            /\ result[serving[p]] = "none"
  BY <1>5 DEF ServantExact, TypeOK, FreshCalls
<1>6. ASSUME NEW p \in Peers, NEW r \in {"value", "declared"}, Finish(p, r) PROVE DeathHasCause'
  <2>1. \A c \in Calls : result[c] \in {"undeclared", "unsent"} => result'[c] = result[c]
    BY <1>5, <1>6 DEF Finish, TypeOK
  <2> QED
    BY <1>1, <1>6, <2>1 DEF Finish
<1>7. ASSUME NEW p \in Peers, FinishUndeclared(p) PROVE DeathHasCause'
  <2>0. PICK c \in Calls : c = serving[p]
    BY <1>5, <1>7 DEF FinishUndeclared
  <2>1. /\ serving[p] # NULL /\ result' = [result EXCEPT ![c] = "undeclared"]
        /\ UNCHANGED <<call, outcome>>
        /\ \/ p \in Strict /\ mode' = [mode EXCEPT ![p] = "dead"]
           \/ UNCHANGED mode
    BY <1>7, <2>0 DEF FinishUndeclared, Terminate
  <2>2. \A e \in Calls : result[e] \in {"undeclared", "unsent"} => result'[e] = result[e]
    BY <1>5, <2>0, <2>1 DEF TypeOK
  <2>3. result'[c] = "undeclared"
    BY <2>1 DEF TypeOK
  <2>4. ASSUME NEW q \in Peers, mode'[q] = "dead", mode[q] # "dead"
        PROVE Cause(q, c)'
    <3>1. q = p /\ p \in Strict
      BY <2>1, <2>4 DEF TypeOK
    <3> QED
      BY <1>5, <2>0, <2>1, <2>3, <3>1
  <2> QED
    BY <1>1, <2>1, <2>2, <2>4
<1>8. ASSUME NEW p \in Peers, NEW c \in Calls, c = blocked[p], Receive(p, c)
      PROVE DeathHasCause'
  <2>1. outcome[c] = "waiting"
    BY <1>8 DEF Receive, CallersWait
  <2> QED
    BY <1>1, <1>8, <2>1 DEF Receive, TypeOK
<1>9. ASSUME NEW p \in Peers, NEW c \in Calls, c = blocked[p], c # NULL, GivesUp(p, c)
      PROVE DeathHasCause'
  <2>1. outcome[c] = "waiting" /\ call[c] # NULL /\ call[c].from = p
    BY <1>9 DEF CallersWait, FreshCalls
  <2>2. \A d \in Calls : outcome[d] = "terminated" => outcome'[d] = outcome[d]
    BY <1>9, <2>1, GivesUpEffect DEF GivesUp
  <2>3. /\ UNCHANGED <<call, result>>
        /\ \/ mode' = mode
           \/ /\ mode' = [mode EXCEPT ![p] = "dead"]
              /\ outcome' = [outcome EXCEPT ![c] = "terminated"]
              /\ p \in Strict \/ call[c].raises
    BY <1>9 DEF GivesUp, FailsAt, Terminate
  <2>4. ASSUME NEW q \in Peers, mode'[q] = "dead", mode[q] # "dead" PROVE Cause(q, c)'
    <3>1. q = p /\ outcome'[c] = "terminated" /\ (p \in Strict \/ call[c].raises)
      BY <2>3, <2>4 DEF TypeOK
    <3> QED
      BY <2>1, <2>3, <3>1
  <2> QED
    BY <1>1, <2>2, <2>3, <2>4
<1>10. ASSUME NEW p \in Peers, request_name(p) \/ run(p) PROVE DeathHasCause'
  BY <1>1, <1>10 DEF request_name, run, TypeOK
<1>11. CASE UNCHANGED vars
  BY <1>1, <1>11 DEF vars
<1>12. ASSUME NEW p \in Peers, FinishUnsent(p) PROVE DeathHasCause'
  <2>0. PICK c \in Calls : c = serving[p]
    BY <1>5, <1>12 DEF FinishUnsent
  <2>1. /\ serving[p] # NULL /\ result' = [result EXCEPT ![c] = "unsent"]
        /\ UNCHANGED <<call, outcome>>
        /\ mode' = [mode EXCEPT ![p] = "dead"]
    BY <1>12, <2>0 DEF FinishUnsent, Terminate
  <2>2. \A e \in Calls : result[e] \in {"undeclared", "unsent"} => result'[e] = result[e]
    BY <1>5, <2>0, <2>1 DEF TypeOK
  <2>3. result'[c] = "unsent"
    BY <2>1 DEF TypeOK
  <2>4. ASSUME NEW q \in Peers, mode'[q] = "dead", mode[q] # "dead"
        PROVE Cause(q, c)'
    <3>1. q = p
      BY <2>1, <2>4 DEF TypeOK
    <3> QED
      BY <1>5, <2>0, <2>1, <2>3, <3>1
  <2> QED
    BY <1>1, <2>1, <2>2, <2>4
<1>13. ASSUME NEW p \in Peers, NEW q \in Peers, NEW raises \in BOOLEAN,
              InvokeUnwritable(p, q, raises)
       PROVE DeathHasCause'
  <2>1. PICK c \in Calls : c = issued + 1
    BY <1>13, UnwritableEffect
  <2>2. /\ FailsAt(p, c) /\ call'[c] # NULL /\ call'[c].from = p
        /\ mode' = mode \/ p \in Strict \/ call'[c].raises
        /\ \A e \in Calls : e # c => call'[e] = call[e]
        /\ UNCHANGED result
    BY <1>13, <2>1, UnwritableEffect DEF TypeOK
  <2>3. \A e \in Calls : e # c => outcome'[e] = outcome[e]
    BY <2>2, GivesUpEffect
  <2>4. call[c] = NULL
    BY <2>1 DEF FreshCalls, TypeOK, Calls
  <2>5. ASSUME NEW s \in Peers, mode'[s] = "dead", mode[s] # "dead"
        PROVE Cause(s, c)'
    <3>1. Terminate(p) /\ outcome' = [outcome EXCEPT ![c] = "terminated"]
      BY <2>2, <2>5 DEF FailsAt
    <3>2. s = p /\ outcome'[c] = "terminated" /\ (p \in Strict \/ call'[c].raises)
      BY <2>2, <2>5, <3>1 DEF Terminate, TypeOK
    <3> QED
      BY <2>2, <3>2
  <2> QED
    BY <1>1, <2>2, <2>3, <2>4, <2>5
<1> QED
  BY <1>2, <1>3, <1>4, <1>6, <1>7, <1>8, <1>9, <1>10, <1>11, <1>12, <1>13, GivingUp
  DEF Next, EndsCall, ReceiveError, ReceiveMisread, Timeout, Receive

(* No process dies of a peer's ordinary answer or exception.               *)
THEOREM DeathsHaveCauses == Spec => []DeathHasCause
<1>1. Init => DeathHasCause
  BY DEF Init, DeathHasCause
<1> QED
  BY <1>1, NextDeath, CallsAreRight, PTL DEF Spec

-----------------------------------------------------------------------------
(* The refinement. A call that was made is not idle any more.              *)
MadeCallsSeen == \A c \in Calls : call[c] # NULL => outcome[c] # "idle"

LEMMA NextSeen == CallsRight /\ MadeCallsSeen /\ [Next]_vars => MadeCallsSeen'
<1> SUFFICES ASSUME CallsRight, MadeCallsSeen, [Next]_vars PROVE MadeCallsSeen'
  OBVIOUS
<1> TypeOK
  BY DEF CallsRight
<1>1. ASSUME NEW p \in Peers, NEW q \in Peers, NEW r \in Kinds, NEW raises \in BOOLEAN,
             Invoke(p, q, r, raises)
      PROVE MadeCallsSeen'
  <2>1. /\ issued + 1 \in Calls
        /\ \A c \in Calls : c # issued + 1 => call'[c] = call[c] /\ outcome'[c] = outcome[c]
        /\ outcome'[issued + 1] = "waiting"
    BY <1>1, InvokeEffect
  <2> QED
    BY <2>1 DEF MadeCallsSeen
<1>2. ASSUME UNCHANGED call, \A c \in Calls : outcome'[c] # outcome[c] => outcome'[c] # "idle"
      PROVE MadeCallsSeen'
  BY <1>2 DEF MadeCallsSeen
<1>3. ASSUME NEW p \in Peers, NEW c \in Calls, GivesUp(p, c)
      PROVE MadeCallsSeen'
  <2>1. \A d \in Calls : outcome'[d] # outcome[d] => outcome'[d] # "idle"
    BY <1>3, GivesUpEffect DEF GivesUp
  <2> QED
    BY <1>2, <1>3, <2>1 DEF GivesUp
<1>4. ASSUME NEW p \in Peers, NEW c \in Calls, Receive(p, c) PROVE MadeCallsSeen'
  BY <1>2, <1>4 DEF Receive, TypeOK
<1>5. ASSUME NEW p \in Peers, NEW q \in Peers, NEW raises \in BOOLEAN,
              InvokeUnwritable(p, q, raises)
      PROVE MadeCallsSeen'
  <2>1. PICK c \in Calls : c = issued + 1
    BY <1>5, UnwritableEffect
  <2>2. FailsAt(p, c) /\ \A e \in Calls : e # c => call'[e] = call[e]
    BY <1>5, <2>1, UnwritableEffect
  <2>3. outcome'[c] # "idle" /\ \A e \in Calls : e # c => outcome'[e] = outcome[e]
    BY <2>2, GivesUpEffect
  <2> QED
    BY <2>2, <2>3 DEF MadeCallsSeen
<1> QED
  BY <1>1, <1>2, <1>3, <1>4, <1>5, GivingUp
  DEF Next, EndsCall, ReceiveError, Timeout, request_name, run, DispatchUnknown,
      DispatchWrong, DispatchGarbled, DispatchCall, Finish, FinishUndeclared, FinishUnsent, vars

(* The mapped state. At most one call's progress or view changes at a      *)
(* time, so a step is described by what it makes of that call.             *)
progressBar == [c \in Calls |-> Progress(c)]
seenBar == [c \in Calls |-> Seen(c)]

(* A step that leaves the results, runs and outcomes alone is a stutter.   *)
LEMMA NothingSeen ==
  ASSUME UNCHANGED <<runs, result, outcome>>
  PROVE  UNCHANGED <<progressBar, seenBar>>
BY DEF progressBar, seenBar, Progress, Seen

(* A step that changes the progress of one call, and one that changes what *)
(* one caller has seen.                                                    *)
LEMMA OneProgress ==
  ASSUME NEW c \in Calls, UNCHANGED outcome,
         \A d \in Calls : d # c => result'[d] = result[d] /\ runs'[d] = runs[d]
  PROVE  /\ progressBar' = [progressBar EXCEPT ![c] = Progress(c)']
         /\ UNCHANGED seenBar
BY DEF progressBar, seenBar, Progress, Seen

LEMMA OneSeen ==
  ASSUME NEW c \in Calls, UNCHANGED <<runs, result>>,
         \A d \in Calls : d # c => outcome'[d] = outcome[d]
  PROVE  /\ seenBar' = [seenBar EXCEPT ![c] = Seen(c)']
         /\ UNCHANGED progressBar
BY DEF progressBar, seenBar, Progress, Seen

(* Every step of processes and bus is a step of the promise, or none.      *)
LEMMA StepSimulation ==
  CallsRight /\ MadeCallsSeen /\ [Next]_vars => [Abstract!Next]_(Abstract!vars)
<1> SUFFICES ASSUME CallsRight, MadeCallsSeen, [Next]_vars
             PROVE  Abstract!Next \/ UNCHANGED <<progressBar, seenBar>>
  BY DEF Abstract!vars, progressBar, seenBar
<1> TypeOK /\ FreshCalls /\ CallersWait /\ ServantExact /\ AnswersSourced
  BY DEF CallsRight, Bookkeeping
<1> MaxCalls \in Nat /\ NULL \notin Nat
  BY RpcAssumption
<1>1. ASSUME NEW p \in Peers, NEW q \in Peers, NEW r \in Kinds, NEW raises \in BOOLEAN,
             Invoke(p, q, r, raises)
      PROVE Abstract!Next
  <2>1. PICK c \in Calls : c = issued + 1
    BY <1>1, InvokeEffect
  <2>2. /\ UNCHANGED <<runs, result>> /\ outcome'[c] = "waiting" /\ outcome[c] = "idle"
        /\ \A d \in Calls : d # c => outcome'[d] = outcome[d]
    BY <1>1, <2>1, InvokeEffect DEF FreshCalls, TypeOK
  <2>3. /\ seenBar' = [seenBar EXCEPT ![c] = "waiting"] /\ UNCHANGED progressBar
        /\ seenBar[c] = "idle"
    BY <2>2, OneSeen DEF Seen, seenBar
  <2> QED
    BY <2>3 DEF Abstract!Next, Abstract!Call, progressBar, seenBar
<1>2. ASSUME NEW p \in Peers, NEW c \in Calls, DispatchCall(p, c) PROVE Abstract!Next
  <2>1. c <= issued /\ runs[c] = 0 /\ result[c] = "none"
    BY <1>2, HeadIsNew DEF DispatchCall
  <2>2. outcome[c] # "idle"
    BY <2>1 DEF FreshCalls, MadeCallsSeen
  <2>3. /\ UNCHANGED <<result, outcome>> /\ runs'[c] = 1
        /\ \A d \in Calls : d # c => runs'[d] = runs[d]
    BY <1>2, <2>1 DEF DispatchCall, TypeOK
  <2>4. /\ progressBar' = [progressBar EXCEPT ![c] = "started"] /\ UNCHANGED seenBar
        /\ progressBar[c] = "no" /\ seenBar[c] # "idle"
    BY <2>1, <2>2, <2>3, OneProgress DEF Progress, Seen, progressBar, seenBar
  <2> QED
    BY <2>4 DEF Abstract!Next, Abstract!Start, progressBar, seenBar
<1>3. ASSUME NEW p \in Peers, serving[p] # NULL, UNCHANGED <<runs, outcome>>,
             NEW r \in {"value", "declared", "undeclared", "unsent"},
             result' = [result EXCEPT ![serving[p]] = r]
      PROVE Abstract!Next
  <2>1. PICK c \in Calls : c = serving[p]
    BY <1>3 DEF TypeOK
  <2>2. /\ runs[c] = 1 /\ result[c] = "none" /\ result'[c] = r
        /\ \A d \in Calls : d # c => result'[d] = result[d]
    BY <1>3, <2>1 DEF ServantExact, TypeOK
  <2>3. /\ progressBar' = [progressBar EXCEPT ![c] = r] /\ UNCHANGED seenBar
        /\ progressBar[c] = "started"
    BY <1>3, <2>2, OneProgress DEF Progress, progressBar
  <2> QED
    BY <2>3 DEF Abstract!Next, Abstract!Finish, Abstract!Answers, progressBar, seenBar
<1>4. ASSUME NEW p \in Peers, NEW c \in Calls, Receive(p, c) PROVE Abstract!Next
  <2>1. /\ outcome[c] = "waiting" /\ reply[c] \in {"value", "declared"}
        /\ outcome' = [outcome EXCEPT ![c] = reply[c]] /\ UNCHANGED <<runs, result>>
    BY <1>4 DEF Receive, CallersWait
  <2>2. /\ result[c] = reply[c] /\ outcome'[c] = reply[c]
        /\ \A d \in Calls : d # c => outcome'[d] = outcome[d]
    BY <2>1 DEF AnswersSourced, TypeOK
  <2>3. /\ seenBar' = [seenBar EXCEPT ![c] = reply[c]] /\ UNCHANGED progressBar
        /\ seenBar[c] = "waiting" /\ progressBar[c] = reply[c]
    BY <2>1, <2>2, OneSeen DEF Seen, Progress, seenBar, progressBar
  <2> QED
    BY <2>1, <2>3 DEF Abstract!Next, Abstract!Answer, Abstract!Answers, progressBar, seenBar
<1>5. ASSUME NEW p \in Peers, NEW c \in Calls, c = blocked[p], c # NULL, GivesUp(p, c)
      PROVE Abstract!Next
  <2>1. /\ outcome[c] = "waiting" /\ outcome'[c] \in {"terminated", "logic_error", "exception"}
        /\ UNCHANGED <<runs, result>>
        /\ \A d \in Calls : d # c => outcome'[d] = outcome[d]
    BY <1>5, GivesUpEffect DEF GivesUp, CallersWait
  <2>2. /\ seenBar' = [seenBar EXCEPT ![c] = "failed"] /\ UNCHANGED progressBar
        /\ seenBar[c] = "waiting"
    BY <2>1, OneSeen DEF Seen, seenBar
  <2> QED
    BY <2>2 DEF Abstract!Next, Abstract!GiveUp, progressBar, seenBar
<1>6. ASSUME UNCHANGED <<runs, result, outcome>> PROVE UNCHANGED <<progressBar, seenBar>>
  BY <1>6, NothingSeen
<1>7. ASSUME NEW p \in Peers, NEW q \in Peers, NEW raises \in BOOLEAN,
             InvokeUnwritable(p, q, raises)
      PROVE Abstract!Next
  <2>1. PICK c \in Calls : c = issued + 1
    BY <1>7, UnwritableEffect
  <2>2. /\ FailsAt(p, c) /\ UNCHANGED <<runs, result>>
        /\ outcome[c] = "idle" /\ result[c] = "none" /\ runs[c] = 0
    BY <1>7, <2>1, UnwritableEffect DEF FreshCalls, TypeOK, Calls
  <2>3. /\ outcome'[c] \in {"terminated", "logic_error", "exception"}
        /\ \A d \in Calls : d # c => outcome'[d] = outcome[d]
    BY <2>2, GivesUpEffect
  <2>4. /\ seenBar' = [seenBar EXCEPT ![c] = "failed"] /\ UNCHANGED progressBar
        /\ seenBar[c] = "idle" /\ progressBar[c] = "no"
    BY <2>2, <2>3, OneSeen DEF Seen, Progress, seenBar, progressBar
  <2> QED
    BY <2>4 DEF Abstract!Next, Abstract!Refuse, progressBar, seenBar
<1> QED
  BY <1>1, <1>2, <1>3, <1>4, <1>5, <1>6, <1>7, GivingUp
  DEF Next, EndsCall, ReceiveError, ReceiveMisread, Timeout, Receive, Finish, FinishUndeclared,
      FinishUnsent, request_name, run, DispatchUnknown, DispatchWrong, DispatchGarbled, vars

(* Processes, bus and queues keep the safety part of RpcAbstract: one run  *)
(* at most, answers only from that run, and no end of waiting but an       *)
(* answer or giving up.                                                    *)
THEOREM CallsRefinePromise == Spec => Abstract!Init /\ [][Abstract!Next]_(Abstract!vars)
<1>1. Init => Abstract!Init /\ MadeCallsSeen
  BY DEF Init, Abstract!Init, MadeCallsSeen, Progress, Seen
<1> QED
  BY <1>1, NextSeen, StepSimulation, CallsAreRight, PTL DEF Spec

=============================================================================
