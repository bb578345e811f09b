-------------------------------- MODULE Rpc --------------------------------
(***************************************************************************)
(* Operation calls between processes that use dboost. A process has one    *)
(* thread: main() first, then server::run() for ever if it serves. Its     *)
(* code calls generated proxies, from main() or from inside a servant, and *)
(* a proxy blocks the thread in dbus_connection_send_with_reply_and_block. *)
(* While it blocks nothing is dispatched, so calls to it wait in inbox.    *)
(* Order: the bus daemon delivers in the order it receives.                *)
(***************************************************************************)
EXTENDS Naturals, Sequences

CONSTANTS
  Peers,        (* the processes                                           *)
  MaxCalls,     (* bound: calls made in a behaviour                        *)
  Requests,     (* bound: per call, the kinds of request it may be         *)
  Strict,       (* processes whose libdbus aborts at a failed check, such   *)
                (* as a null message or a string that is not UTF-8         *)
  NULL

(* What becomes of a call at the callee, if it gets there:                 *)
(*   "ok"          a member of a registered object's vtbl                  *)
(*   "unknown"     no such path or interface                               *)
(*   "wrong"       not in the adaptor's vtbl                               *)
(*   "garbled"     arguments of other types than the servant's             *)
(*   "misread"     results of other types than the proxy reads             *)
(*   "unwritable"  does not get there: libdbus refuses the bus name, the   *)
(*                 path or an argument                                     *)
Kinds == {"ok", "unknown", "wrong", "garbled", "misread", "unwritable"}

ASSUME RpcAssumption ==
  /\ MaxCalls \in Nat
  /\ Strict \subseteq Peers
  /\ NULL \notin Nat
  /\ NULL \notin [from : Peers, to : Peers, request : Kinds, raises : BOOLEAN]

Calls == 1 .. MaxCalls   (* message serials, in the order of sending *)

ASSUME RequestsAssumption == Requests \in [Calls -> SUBSET Kinds]

VARIABLES
  mode,     (* "main", "named" (owns its bus name), "run" or "dead"        *)
  issued,   (* number of calls made so far                                 *)
  call,     (* what each call is, NULL if not made yet                     *)
  inbox,    (* per process: calls received and not dispatched              *)
  serving,  (* per process: the call its servant is executing, or NULL     *)
  blocked,  (* per process: the call its proxy waits for, or NULL          *)
  reply,    (* per call: "none", or the kind of reply sent to the caller   *)
  runs,     (* per call: how often a servant was entered for it            *)
  result,   (* per call: how the servant left: see Finish                  *)
  outcome   (* per call: what the proxy did: see Receive and Fail          *)

vars == <<mode, issued, call, inbox, serving, blocked, reply, runs, result, outcome>>

Call == [from : Peers, to : Peers, request : Kinds, raises : BOOLEAN]

TypeOK ==
  /\ mode \in [Peers -> {"main", "named", "run", "dead"}]
  /\ issued \in 0 .. MaxCalls
  /\ call \in [Calls -> Call \cup {NULL}]
  /\ inbox \in [Peers -> Seq(Calls)]
  /\ serving \in [Peers -> Calls \cup {NULL}]
  /\ blocked \in [Peers -> Calls \cup {NULL}]
  /\ reply \in [Calls -> {"none", "value", "declared", "error"}]
  /\ runs \in [Calls -> Nat]
  /\ result \in [Calls -> {"none", "value", "declared", "undeclared", "unsent"}]
  /\ outcome \in [Calls -> {"idle", "waiting", "value", "declared",
                            "logic_error", "exception", "terminated"}]

Init ==
  /\ mode = [p \in Peers |-> "main"]
  /\ issued = 0
  /\ call = [c \in Calls |-> NULL]
  /\ inbox = [p \in Peers |-> <<>>]
  /\ serving = [p \in Peers |-> NULL]
  /\ blocked = [p \in Peers |-> NULL]
  /\ reply = [c \in Calls |-> "none"]
  /\ runs = [c \in Calls |-> 0]
  /\ result = [c \in Calls |-> "none"]
  /\ outcome = [c \in Calls |-> "idle"]

-----------------------------------------------------------------------------
(* A call that was made, and not given up before its message was sent.     *)
Sent(c) == call[c] # NULL /\ call[c].request # "unwritable"

(* The process ends by abort() or std::terminate(). The bus daemon answers *)
(* every call to it that was never answered with a NoReply error.          *)
Terminate(p) ==
  /\ mode' = [mode EXCEPT ![p] = "dead"]
  /\ inbox' = [inbox EXCEPT ![p] = <<>>]
  /\ serving' = [serving EXCEPT ![p] = NULL]
  /\ blocked' = [blocked EXCEPT ![p] = NULL]
  /\ reply' = [c \in Calls |->
                 IF Sent(c) /\ call[c].to = p /\ reply[c] = "none"
                 THEN "error" ELSE reply[c]]

(* A proxy's operation leaves by an exception of its own - or does not: an *)
(* operation with a raises clause is declared throw(...), so that any      *)
(* other exception is std::unexpected() and so std::terminate().           *)
Fail(p, c, ends, thrown) ==
  IF ends
  THEN /\ outcome' = [outcome EXCEPT ![c] = "terminated"]
       /\ Terminate(p)
  ELSE /\ outcome' = [outcome EXCEPT ![c] = thrown]
       /\ blocked' = [blocked EXCEPT ![p] = NULL]
       /\ UNCHANGED <<mode, inbox, serving, reply>>

(* server::server in main(): from now on the bus accepts calls for p.      *)
request_name(p) ==
  /\ mode[p] = "main"
  /\ blocked[p] = NULL
  /\ mode' = [mode EXCEPT ![p] = "named"]
  /\ UNCHANGED <<issued, call, inbox, serving, blocked, reply, runs, result, outcome>>

run(p) ==
  /\ mode[p] = "named"
  /\ blocked[p] = NULL
  /\ mode' = [mode EXCEPT ![p] = "run"]
  /\ UNCHANGED <<issued, call, inbox, serving, blocked, reply, runs, result, outcome>>

(* The thread of p is in code that may call a proxy.                       *)
InUserCode(p) ==
  /\ blocked[p] = NULL
  /\ mode[p] \in {"main", "named"} \/ (mode[p] = "run" /\ serving[p] # NULL)

(* The first half of a proxy's operation. A call to a name nobody owns is  *)
(* answered by the bus daemon (ServiceUnknown).                            *)
(* Broken variant: the newest call is delivered first.                     *)
Invoke_first(p, q, r, raises) ==
  /\ InUserCode(p)
  /\ issued < MaxCalls
  /\ r \in Requests[issued + 1] \ {"unwritable"}
  /\ LET c == issued + 1 IN
       /\ call' = [call EXCEPT ![c] = [from |-> p, to |-> q, request |-> r, raises |-> raises]]
       /\ blocked' = [blocked EXCEPT ![p] = c]
       /\ outcome' = [outcome EXCEPT ![c] = "waiting"]
       /\ IF mode[q] \in {"named", "run"}
          THEN inbox' = [inbox EXCEPT ![q] = <<c>> \o @] /\ UNCHANGED reply
          ELSE reply' = [reply EXCEPT ![c] = "error"] /\ UNCHANGED inbox
  /\ issued' = issued + 1
  /\ UNCHANGED <<mode, serving, runs, result>>

Invoke(p, q, r, raises) ==
  /\ InUserCode(p)
  /\ issued < MaxCalls
  /\ r \in Requests[issued + 1] \ {"unwritable"}
  /\ LET c == issued + 1 IN
       /\ call' = [call EXCEPT ![c] = [from |-> p, to |-> q, request |-> r, raises |-> raises]]
       /\ blocked' = [blocked EXCEPT ![p] = c]
       /\ outcome' = [outcome EXCEPT ![c] = "waiting"]
       /\ IF mode[q] \in {"named", "run"}
          THEN inbox' = [inbox EXCEPT ![q] = Append(@, c)] /\ UNCHANGED reply
          ELSE reply' = [reply EXCEPT ![c] = "error"] /\ UNCHANGED inbox
  /\ issued' = issued + 1
  /\ UNCHANGED <<mode, serving, runs, result>>

(* libdbus refuses to make the message or to append an argument: its check *)
(* ends a strict process, and DBOOST_CHECK throws in the others. Nothing   *)
(* was sent.                                                               *)
InvokeUnwritable(p, q, raises) ==
  /\ InUserCode(p)
  /\ issued < MaxCalls
  /\ "unwritable" \in Requests[issued + 1]
  /\ call' = [call EXCEPT ![issued + 1] =
                [from |-> p, to |-> q, request |-> "unwritable", raises |-> raises]]
  /\ issued' = issued + 1
  /\ Fail(p, issued + 1, p \in Strict \/ raises, "exception")
  /\ UNCHANGED <<runs, result>>

-----------------------------------------------------------------------------
(* Dispatching takes the oldest call received while the thread is in the   *)
(* loop itself; one action per way through handle_message.                 *)
Idle(p) ==
  /\ mode[p] = "run"
  /\ serving[p] = NULL
  /\ blocked[p] = NULL

TakeCall(p, c) ==
  /\ Idle(p)
  /\ inbox[p] # <<>>
  /\ c = Head(inbox[p])

(* NOT_YET_HANDLED: libdbus sends an UnknownMethod error.                  *)
DispatchUnknown(p, c) ==
  /\ TakeCall(p, c)
  /\ call[c].request = "unknown"
  /\ inbox' = [inbox EXCEPT ![p] = Tail(@)]
  /\ reply' = [reply EXCEPT ![c] = "error"]
  /\ UNCHANGED <<mode, issued, call, serving, blocked, runs, result, outcome>>

(* HANDLED, but no reply is made.                                          *)
DispatchWrong(p, c) ==
  /\ TakeCall(p, c)
  /\ call[c].request = "wrong"
  /\ inbox' = [inbox EXCEPT ![p] = Tail(@)]
  /\ UNCHANGED <<mode, issued, call, serving, blocked, reply, runs, result, outcome>>

(* The deserialisation of the arguments stands before the try block: its   *)
(* exception unwinds into libdbus, which is C.                             *)
DispatchGarbled(p, c) ==
  /\ TakeCall(p, c)
  /\ call[c].request = "garbled"
  /\ Terminate(p)
  /\ UNCHANGED <<issued, call, runs, result, outcome>>

(* Broken variant: the call stays in the queue.                            *)
DispatchCall_keep(p, c) ==
  /\ TakeCall(p, c)
  /\ call[c].request \in {"ok", "misread"}
  /\ serving' = [serving EXCEPT ![p] = c]
  /\ runs' = [runs EXCEPT ![c] = @ + 1]
  /\ UNCHANGED <<mode, issued, call, inbox, blocked, reply, result, outcome>>

DispatchCall(p, c) ==
  /\ TakeCall(p, c)
  /\ call[c].request \in {"ok", "misread"}
  /\ inbox' = [inbox EXCEPT ![p] = Tail(@)]
  /\ serving' = [serving EXCEPT ![p] = c]
  /\ runs' = [runs EXCEPT ![c] = @ + 1]
  /\ UNCHANGED <<mode, issued, call, blocked, reply, result, outcome>>

(* The servant returns or throws an exception of its raises clause; the    *)
(* adaptor sends a method return or a named error.                         *)
(* Broken variant: the adaptor sends no reply.                             *)
Finish_no_reply(p, r) ==
  /\ serving[p] # NULL
  /\ blocked[p] = NULL
  /\ r = "declared" => call[serving[p]].raises
  /\ result' = [result EXCEPT ![serving[p]] = r]
  /\ serving' = [serving EXCEPT ![p] = NULL]
  /\ UNCHANGED <<mode, issued, call, inbox, blocked, reply, runs, outcome>>

Finish(p, r) ==
  /\ serving[p] # NULL
  /\ blocked[p] = NULL
  /\ r = "declared" => call[serving[p]].raises
  /\ result' = [result EXCEPT ![serving[p]] = r]
  /\ reply' = [reply EXCEPT ![serving[p]] = r]
  /\ serving' = [serving EXCEPT ![p] = NULL]
  /\ UNCHANGED <<mode, issued, call, inbox, blocked, runs, outcome>>

(* Any other exception, of the servant or of the results' serialisation:   *)
(* catch (...) makes an empty dbus_ptr, which handle_message sends -       *)
(* dbus_connection_send(connection, NULL, 0).                              *)
FinishUndeclared(p) ==
  /\ serving[p] # NULL
  /\ blocked[p] = NULL
  /\ result' = [result EXCEPT ![serving[p]] = "undeclared"]
  /\ IF p \in Strict
     THEN Terminate(p)
     ELSE /\ serving' = [serving EXCEPT ![p] = NULL]
          /\ UNCHANGED <<mode, inbox, blocked, reply>>
  /\ UNCHANGED <<issued, call, runs, outcome>>

(* A declared exception whose what() libdbus refuses as an error's text:   *)
(* DBOOST_CHECK throws inside the catch clause, and no clause of the same  *)
(* try block catches that; it unwinds into libdbus as garbled arguments do.*)
FinishUnsent(p) ==
  /\ serving[p] # NULL
  /\ blocked[p] = NULL
  /\ call[serving[p]].raises
  /\ result' = [result EXCEPT ![serving[p]] = "unsent"]
  /\ Terminate(p)
  /\ UNCHANGED <<issued, call, runs, outcome>>

-----------------------------------------------------------------------------
(* The second half of a proxy's operation: the reply to the blocked call.  *)
(* A declared exception is thrown without reading more than its name; the  *)
(* results are deserialised, each of which may be of another type.         *)
Misread(c) == reply[c] = "value" /\ call[c].request = "misread"

(* Broken variant: takes a reply to any call of p.                         *)
Receive_any(p, c) ==
  /\ c = blocked[p]
  /\ c # NULL
  /\ \E d \in 1 .. issued :
       /\ call[d].from = p
       /\ reply[d] \in {"value", "declared"}
       /\ outcome' = [outcome EXCEPT ![c] = reply[d]]
  /\ blocked' = [blocked EXCEPT ![p] = NULL]
  /\ UNCHANGED <<mode, issued, call, inbox, serving, reply, runs, result>>

Receive(p, c) ==
  /\ c = blocked[p]
  /\ c # NULL
  /\ reply[c] \in {"value", "declared"}
  /\ ~ Misread(c)
  /\ outcome' = [outcome EXCEPT ![c] = reply[c]]
  /\ blocked' = [blocked EXCEPT ![p] = NULL]
  /\ UNCHANGED <<mode, issued, call, inbox, serving, reply, runs, result>>

(* The iserializer has no argument to read, or one of another type, and    *)
(* throws dboost::exception.                                               *)
ReceiveMisread(p, c) ==
  /\ c = blocked[p]
  /\ c # NULL
  /\ Misread(c)
  /\ Fail(p, c, call[c].raises, "exception")
  /\ UNCHANGED <<issued, call, runs, result>>

(* Any other error: reply is null, dbus_message_get_error_name(NULL) is    *)
(* another failed check, or gives NULL, and std::string(NULL) throws       *)
(* std::logic_error.                                                       *)
(* Broken variants: every error ends the process; the error is ignored.    *)
RaiseError_terminate(p, c) ==
  /\ outcome' = [outcome EXCEPT ![c] = "terminated"]
  /\ Terminate(p)
  /\ UNCHANGED <<issued, call, runs, result>>

RaiseError_ignore(p, c) ==
  /\ outcome' = [outcome EXCEPT ![c] = "value"]
  /\ blocked' = [blocked EXCEPT ![p] = NULL]
  /\ UNCHANGED <<mode, issued, call, inbox, serving, reply, runs, result>>

RaiseError(p, c) ==
  /\ Fail(p, c, p \in Strict \/ call[c].raises, "logic_error")
  /\ UNCHANGED <<issued, call, runs, result>>

ReceiveError(p, c) ==
  /\ c = blocked[p]
  /\ c # NULL
  /\ reply[c] = "error"
  /\ RaiseError(p, c)

(* TIMEOUT_MS, or the operation's own timeout, is over: libdbus makes a    *)
(* NoReply error itself. The reply may be on its way; it is dropped then,  *)
(* because no pending call has its serial.                                 *)
(* Broken variant: no timeout, only a reply ends the call.                 *)
Timeout_never(p, c) ==
  /\ c = blocked[p]
  /\ c # NULL
  /\ reply[c] # "none"
  /\ RaiseError(p, c)

Timeout(p, c) ==
  /\ c = blocked[p]
  /\ c # NULL
  /\ RaiseError(p, c)

EndsCall(p) ==
  \E c \in Calls : Receive(p, c) \/ ReceiveMisread(p, c) \/ ReceiveError(p, c) \/ Timeout(p, c)

Next ==
  \/ \E p \in Peers : request_name(p) \/ run(p)
  \/ \E p, q \in Peers, r \in Kinds, raises \in BOOLEAN : Invoke(p, q, r, raises)
  \/ \E p, q \in Peers, raises \in BOOLEAN : InvokeUnwritable(p, q, raises)
  \/ \E p \in Peers, c \in Calls : DispatchUnknown(p, c) \/ DispatchWrong(p, c)
                                   \/ DispatchGarbled(p, c) \/ DispatchCall(p, c)
  \/ \E p \in Peers, r \in {"value", "declared"} : Finish(p, r)
  \/ \E p \in Peers : FinishUndeclared(p) \/ FinishUnsent(p)
  \/ \E p \in Peers : EndsCall(p)

(* Fairness: the timeout of a blocking call is finite, and the poll in it  *)
(* returns when a reply arrives. Nothing is assumed of servants, which are *)
(* the user's code, nor of a process ever reaching run().                  *)
Fairness == \A p \in Peers : WF_vars(EndsCall(p))

Spec == Init /\ [][Next]_vars /\ Fairness

-----------------------------------------------------------------------------
(* A servant is never entered twice for one call, although callers time    *)
(* out, call again, and late replies arrive.                               *)
AtMostOnce == \A c \in Calls : runs[c] <= 1

(* A proxy returns, or throws a declared exception, only when the servant  *)
(* did just that for this very call: never on an earlier call's late       *)
(* reply, never for a call that did not run.                               *)
AnswerIsOwn ==
  \A c \in Calls : outcome[c] \in {"value", "declared"} =>
    /\ runs[c] = 1
    /\ result[c] = outcome[c]

(* A caller that waits without a reply on its way waits for something: the *)
(* call is in the callee's inbox or in its servant, or it is one of the    *)
(* two that the callee swallows - a member missing from the vtbl, or an    *)
(* exception that the adaptor turned into a null reply.                    *)
WaitingAccounted ==
  \A p \in Peers :
    LET c == blocked[p] IN
      c # NULL /\ reply[c] = "none" =>
        LET q == call[c].to IN
          \/ \E i \in DOMAIN inbox[q] : inbox[q][i] = c
          \/ serving[q] = c
          \/ call[c].request = "wrong"
          \/ result[c] = "undeclared"

(* A callee serves the calls of one caller in the order they were made,    *)
(* also when the caller gave up some of them.                              *)
ServedInOrder ==
  \A c, d \in Calls :
    c < d /\ runs[d] > 0 /\ call[c].from = call[d].from /\ call[c].to = call[d].to =>
      \A i \in DOMAIN inbox[call[d].to] : inbox[call[d].to][i] # c

(* A process that dies was not killed by a peer's ordinary exception or    *)
(* return: it got garbled arguments, or its servant threw a declared       *)
(* exception whose text libdbus refuses, or, if libdbus is strict, its     *)
(* servant threw what it had not declared or its results were refused; or  *)
(* a call of its own failed - it was refused, or answered with an error,   *)
(* or with results that cannot be read, or not in time - and libdbus is    *)
(* strict or the operation has a raises clause.                            *)
DeathHasCause ==
  \A p \in Peers : mode[p] = "dead" =>
    \E c \in Calls : call[c] # NULL /\
      \/ call[c].to = p /\ call[c].request = "garbled"
      \/ call[c].to = p /\ result[c] = "unsent"
      \/ call[c].to = p /\ result[c] = "undeclared" /\ p \in Strict
      \/ call[c].from = p /\ outcome[c] = "terminated" /\ (p \in Strict \/ call[c].raises)

(* The bookkeeping that the properties above rest on. A serial not yet     *)
(* used has left no trace; a process waits for a call of its own; an inbox *)
(* holds the callee's own calls, in the order of their serials, none of    *)
(* them run or answered, all of them younger than what the callee ever     *)
(* ran; a servant executes a call to its own process, entered once and not *)
(* answered; an answer repeats the result of a run.                        *)
FreshCalls ==
  \A c \in Calls :
    /\ c > issued => call[c] = NULL /\ runs[c] = 0 /\ result[c] = "none"
                     /\ reply[c] = "none" /\ outcome[c] = "idle"
    /\ c <= issued => call[c] # NULL

InboxOrdered ==
  \A p \in Peers : \A i \in DOMAIN inbox[p] :
    /\ inbox[p][i] <= issued
    /\ call[inbox[p][i]].to = p
    /\ runs[inbox[p][i]] = 0 /\ reply[inbox[p][i]] = "none"
    /\ \A j \in DOMAIN inbox[p] : i < j => inbox[p][i] < inbox[p][j]
    /\ \A d \in Calls : runs[d] > 0 /\ call[d].to = p => d < inbox[p][i]

ServantExact ==
  \A p \in Peers : serving[p] # NULL =>
    /\ serving[p] <= issued
    /\ call[serving[p]].to = p
    /\ runs[serving[p]] = 1
    /\ result[serving[p]] = "none" /\ reply[serving[p]] = "none"

AnswersSourced ==
  \A c \in Calls :
    /\ result[c] # "none" => runs[c] = 1
    /\ reply[c] \in {"value", "declared"} => runs[c] = 1 /\ result[c] = reply[c]
    /\ outcome[c] \in {"value", "declared"} => runs[c] = 1 /\ result[c] = outcome[c]

CallersWait ==
  \A p \in Peers : blocked[p] # NULL =>
    /\ blocked[p] <= issued
    /\ call[blocked[p]].from = p
    /\ call[blocked[p]].request # "unwritable"
    /\ outcome[blocked[p]] = "waiting"

Bookkeeping == FreshCalls /\ CallersWait /\ InboxOrdered /\ ServantExact /\ AnswersSourced

(* Types, one run per call at most, and the bookkeeping.                   *)
CallsRight == TypeOK /\ AtMostOnce /\ Bookkeeping

(* Every call ends, also a call to oneself and calls in a circle, where    *)
(* each process waits for another's dispatch.                              *)
EveryCallEnds ==
  \A p \in Peers, c \in Calls : (blocked[p] = c) ~> (blocked[p] # c)

(* The refinement: what a run and a caller have come to.                   *)
Progress(c) ==
  IF result[c] # "none" THEN result[c] ELSE IF runs[c] > 0 THEN "started" ELSE "no"

Seen(c) ==
  IF outcome[c] \in {"logic_error", "exception", "terminated"} THEN "failed" ELSE outcome[c]

Abstract == INSTANCE RpcAbstract WITH
  progress <- [c \in Calls |-> Progress(c)],
  seen <- [c \in Calls |-> Seen(c)]

(* The processes, the bus and their queues implement the promise of        *)
(* RpcAbstract, its liveness included.                                     *)
ImplementsAbstract == Abstract!Spec

=============================================================================
