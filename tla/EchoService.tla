---------------------------- MODULE EchoService ----------------------------
(***************************************************************************)
(* desiredimpl/00-dbus/server.c: a service on plain libdbus. One thread    *)
(* reads and dispatches one message per turn of its loop. RunHelloFromSelf *)
(* is answered later: the service sends itself HelloFromSelf through the   *)
(* bus, without blocking, and its callback answers the caller when the     *)
(* reply has come back. Everything the service sends and everything it     *)
(* gets passes the bus daemon, which keeps the order of each sender.       *)
(***************************************************************************)
EXTENDS Naturals, Sequences, SequencesExt

CONSTANT MaxCalls   (* bound: calls made by clients                        *)

ASSUME EchoAssumption == MaxCalls \in Nat

Calls == 1 .. MaxCalls

(* The members path_message_func knows, and one it does not; whether the   *)
(* arguments are the one string that three of them take.                   *)
WithArgument == {"Echo", "DelayEcho", "RunHelloFromSelf"}
Members == WithArgument \cup {"Exit", "EmitFoo", "HelloFromSelf", "Other"}
Requests == [member : Members, good : BOOLEAN]

(* Kinds of reply: the string twice, the string, an empty return, an error *)
(* - and "NoReply", which the daemon sends for a service that has gone.    *)
Replies == {"doubled", "string", "empty", "error", "NoReply"}

VARIABLES
  ownName,   (* the service's name is the one self_message is sent to      *)
  state,     (* "running", "exited" or "died"                              *)
  request,   (* the clients' calls so far                                  *)
  inbox,     (* messages the service has got and not dispatched            *)
  outgoing,  (* messages the service has sent and the daemon not routed    *)
  pcalls,    (* calls whose answer waits for a pending call's notification *)
  answer,    (* per call: the first reply its client got, or "none"        *)
  replied    (* history, per call: replies sent by the service             *)

vars == <<ownName, state, request, inbox, outgoing, pcalls, answer, replied>>

(* Messages: "call" is a client's call, "hello" is the HelloFromSelf sent  *)
(* for a call, "result" the reply to it, "reply" the reply to a client.    *)
Message(kind, c, with) == [kind |-> kind, call |-> c, with |-> with]
Messages == [kind : {"call", "hello", "result", "reply", "Foo"}, call : Calls,
             with : Replies \cup {"none"}]

TypeOK ==
  /\ ownName \in BOOLEAN
  /\ state \in {"running", "exited", "died"}
  /\ request \in Seq(Requests) /\ Len(request) <= MaxCalls
  /\ inbox \in Seq(Messages) /\ outgoing \in Seq(Messages)
  /\ pcalls \in SUBSET Calls
  /\ answer \in [Calls -> Replies \cup {"none"}]
  /\ replied \in [Calls -> Nat]

(* main: the name is either the default, to which the service sends its    *)
(* HelloFromSelf, or the one given by the first argument.                  *)
Init ==
  /\ ownName \in BOOLEAN
  /\ state = "running"
  /\ request = <<>> /\ inbox = <<>> /\ outgoing = <<>>
  /\ pcalls = {}
  /\ answer = [c \in Calls |-> "none"]
  /\ replied = [c \in Calls |-> 0]

-----------------------------------------------------------------------------
ClientCalls(m, good) ==
  /\ state = "running"
  /\ Len(request) < MaxCalls
  /\ m \notin WithArgument => good
  /\ request' = Append(request, [member |-> m, good |-> good])
  /\ inbox' = Append(inbox, Message("call", Len(request) + 1, "none"))
  /\ UNCHANGED <<ownName, state, outgoing, pcalls, answer, replied>>

(* The loop of main: dispatch the oldest message. A broken variant would   *)
(* take the newest one.                                                    *)
Take_newest(kind, m) ==
  /\ state = "running"
  /\ inbox # <<>>
  /\ m = Last(inbox)
  /\ m.kind = kind
  /\ inbox' = Front(inbox)

Take(kind, m) ==
  /\ state = "running"
  /\ inbox # <<>>
  /\ m = Head(inbox)
  /\ m.kind = kind
  /\ inbox' = Tail(inbox)

TakeCall(c, member) ==
  /\ \E m \in ToSet(inbox) : m.call = c /\ Take("call", m)
  /\ request[c].member = member

(* dbus_connection_send of replies to one client's call.                   *)
Reply(c, kinds) ==
  /\ outgoing' = outgoing \o [i \in DOMAIN kinds |-> Message("reply", c, kinds[i])]
  /\ replied' = [replied EXCEPT ![c] = @ + Len(kinds)]

(* What the handlers do if dbus_message_get_args fails: they send an error *)
(* and return NOT_YET_HANDLED, for which libdbus sends another one.        *)
RefuseArguments(c) ==
  /\ ~request[c].good
  /\ Reply(c, <<"error", "error">>)

(* Broken variant of handle_echo: NOT_YET_HANDLED at the end as well.      *)
handle_echo_twice(c) ==
  /\ TakeCall(c, "Echo")
  /\ RefuseArguments(c) \/ (request[c].good /\ Reply(c, <<"doubled", "error">>))
  /\ UNCHANGED <<ownName, state, request, pcalls, answer>>

handle_echo(c) ==
  /\ TakeCall(c, "Echo")
  /\ RefuseArguments(c) \/ (request[c].good /\ Reply(c, <<"doubled">>))
  /\ UNCHANGED <<ownName, state, request, pcalls, answer>>

handle_delay_echo(c) ==
  /\ TakeCall(c, "DelayEcho")
  /\ RefuseArguments(c) \/ (request[c].good /\ Reply(c, <<"string">>))
  /\ UNCHANGED <<ownName, state, request, pcalls, answer>>

(* The call is kept as the user data of the pending call. A broken variant *)
(* forgets to ask for the notification.                                    *)
handle_run_hello_from_self_forget(c) ==
  /\ TakeCall(c, "RunHelloFromSelf")
  /\ \/ RefuseArguments(c)
     \/ /\ request[c].good
        /\ outgoing' = Append(outgoing, Message("hello", c, "none"))
        /\ UNCHANGED replied
  /\ UNCHANGED <<ownName, state, request, pcalls, answer>>

handle_run_hello_from_self(c) ==
  /\ TakeCall(c, "RunHelloFromSelf")
  /\ \/ RefuseArguments(c) /\ UNCHANGED pcalls
     \/ /\ request[c].good
        /\ outgoing' = Append(outgoing, Message("hello", c, "none"))
        /\ pcalls' = pcalls \cup {c}
        /\ UNCHANGED replied
  /\ UNCHANGED <<ownName, state, request, answer>>

(* EmitFoo is handled without a reply.                                     *)
emit_foo(c) ==
  /\ TakeCall(c, "EmitFoo")
  /\ outgoing' = Append(outgoing, Message("Foo", c, "none"))
  /\ UNCHANGED <<ownName, state, request, pcalls, answer, replied>>

(* HelloFromSelf, from a client or from the service itself.                *)
hello_from_self(c) ==
  /\ \/ /\ TakeCall(c, "HelloFromSelf")
        /\ Reply(c, <<"empty">>)
     \/ /\ Take("hello", Message("hello", c, "none"))
        /\ outgoing' = Append(outgoing, Message("result", c, "empty"))
        /\ UNCHANGED replied
  /\ UNCHANGED <<ownName, state, request, pcalls, answer>>

unknown_member(c) ==
  /\ TakeCall(c, "Other")
  /\ Reply(c, <<"error">>)
  /\ UNCHANGED <<ownName, state, request, pcalls, answer>>

(* The process ends. What libdbus had not written by then is lost.         *)
End(how) ==
  /\ state' = how
  /\ \E n \in 0 .. Len(outgoing) : outgoing' = SubSeq(outgoing, 1, n)

(* Exit: quit() ends the loop right after this dispatch, without a reply.  *)
(* What main does after the loop (it removes a filter that #if 0 kept from *)
(* being added) only decides how the process ends.                         *)
quit(c) ==
  /\ TakeCall(c, "Exit")
  /\ End("exited")
  /\ UNCHANGED <<ownName, request, pcalls, answer, replied>>

(* The notification. It answers the caller if the service answered itself; *)
(* for an error it means to pass it on, but makes the reply from           *)
(* echo_reply, which is NULL: libdbus's check or die() ends the process.   *)
(* Broken variants: no answer; the branches swapped.                       *)
check_hello_from_self_reply_silent(c) ==
  /\ \E with \in {"empty", "error"} : Take("result", Message("result", c, with))
  /\ pcalls' = pcalls \ {c}
  /\ UNCHANGED <<ownName, state, request, outgoing, answer, replied>>

check_hello_from_self_reply_swapped(c) ==
  /\ pcalls' = pcalls \ {c}
  /\ \/ /\ Take("result", Message("result", c, "error"))
        /\ Reply(c, <<"string">>)
        /\ UNCHANGED state
     \/ /\ Take("result", Message("result", c, "empty"))
        /\ End("died")
        /\ UNCHANGED replied
  /\ UNCHANGED <<ownName, request, answer>>

check_hello_from_self_reply(c) ==
  /\ pcalls' = pcalls \ {c}
  /\ \/ /\ Take("result", Message("result", c, "empty"))
        /\ Reply(c, <<"string">>)
        /\ UNCHANGED state
     \/ /\ Take("result", Message("result", c, "error"))
        /\ End("died")
        /\ UNCHANGED replied
  /\ UNCHANGED <<ownName, request, answer>>

(* path_message_func and the loop around it.                               *)
path_message_func ==
  \E c \in Calls :
    \/ handle_echo(c) \/ handle_delay_echo(c) \/ handle_run_hello_from_self(c)
    \/ emit_foo(c) \/ hello_from_self(c) \/ unknown_member(c) \/ quit(c)
    \/ check_hello_from_self_reply(c)

-----------------------------------------------------------------------------
(* The bus daemon routes what the service sent. A client takes the first   *)
(* reply to its call; a call to a name nobody owns comes back as an error; *)
(* nothing more reaches a service that has gone.                           *)
Deliver(m) == inbox' = IF state = "running" THEN Append(inbox, m) ELSE inbox

BusRoutes ==
  /\ outgoing # <<>>
  /\ outgoing' = Tail(outgoing)
  /\ LET m == Head(outgoing) IN
       \/ /\ m.kind = "reply"
          /\ answer' = [answer EXCEPT ![m.call] = IF @ = "none" THEN m.with ELSE @]
          /\ UNCHANGED inbox
       \/ /\ m.kind = "hello"
          /\ Deliver(IF ownName THEN m ELSE Message("result", m.call, "error"))
          /\ UNCHANGED answer
       \/ m.kind = "result" /\ Deliver(m) /\ UNCHANGED answer
       \/ m.kind = "Foo" /\ UNCHANGED <<inbox, answer>>
  /\ UNCHANGED <<ownName, state, request, pcalls, replied>>

(* The daemon notices that the service has gone.                           *)
BusNoReply ==
  /\ state # "running"
  /\ outgoing = <<>>
  /\ answer' = [c \in Calls |-> IF c <= Len(request) /\ answer[c] = "none"
                                THEN "NoReply" ELSE answer[c]]
  /\ UNCHANGED <<ownName, state, request, inbox, outgoing, pcalls, replied>>

Next ==
  \/ \E m \in Members, good \in BOOLEAN : ClientCalls(m, good)
  \/ path_message_func \/ BusRoutes \/ BusNoReply

(* Fairness: the service's loop and the daemon keep running; no handler    *)
(* blocks (handle_delay_echo sleeps for 50 ms).                            *)
Spec == Init /\ [][Next]_vars /\ WF_vars(path_message_func) /\ WF_vars(BusRoutes)
             /\ WF_vars(BusNoReply)

-----------------------------------------------------------------------------
(* The messages under way that will complete the pending call for c.       *)
Completes(m, c) == m.kind \in {"hello", "result"} /\ m.call = c
Completing(q, c) == {i \in DOMAIN q : Completes(q[i], c)}

(* While the service runs, every pending call has exactly one message      *)
(* under way that will complete it, and nothing is under way without one:  *)
(* the reference that the callback releases is neither leaked nor released *)
(* twice, however the calls overlap.                                       *)
PendingTracked ==
  state = "running" => \A c \in Calls :
    Cardinality(Completing(inbox, c)) + Cardinality(Completing(outgoing, c)) =
      IF c \in pcalls THEN 1 ELSE 0

(* The variables have their types, and pending calls are tracked.          *)
CallsTracked == TypeOK /\ PendingTracked

(* What a client gets fits what it asked for; an error means wrong         *)
(* arguments or an unknown member, never a failure behind the scenes.      *)
Due(r) ==
  CASE ~r.good \/ r.member = "Other"                        -> "error"
    [] r.good /\ r.member = "Echo"                          -> "doubled"
    [] r.good /\ r.member \in {"DelayEcho", "RunHelloFromSelf"} -> "string"
    [] OTHER                                                -> "empty"

AnswerFits ==
  \A c \in Calls : answer[c] \notin {"none", "NoReply"} => answer[c] = Due(request[c])

(* A call is answered twice only if its arguments were wrong, and then     *)
(* always with errors; Exit and EmitFoo are never answered.                *)
AtMost(r) ==
  CASE ~r.good                             -> 2
    [] r.good /\ r.member \in {"Exit", "EmitFoo"} -> 0
    [] OTHER                               -> 1

RepliesBounded == \A c \in 1 .. Len(request) : replied[c] <= AtMost(request[c])

(* Every client gets what fits its call, and the service never sends it    *)
(* more than that.                                                         *)
AnswersRight == AnswerFits /\ RepliesBounded

(* Delayed answers may be overtaken by others, but among themselves they   *)
(* keep the order of the calls, and so do the immediate answers.           *)
Delayed(c) == request[c].member = "RunHelloFromSelf" /\ request[c].good

AnswersInOrder ==
  \A c, d \in 1 .. Len(request) :
    /\ c < d /\ (Delayed(c) <=> Delayed(d))
    /\ answer[d] \notin {"none", "NoReply"}
    /\ request[c].member \notin {"Exit", "EmitFoo"}
    => answer[c] \notin {"none", "NoReply"}

(* No client can end the service except by Exit - unless the service runs  *)
(* under another name than the one it calls itself by: then the first      *)
(* RunHelloFromSelf ends it.                                               *)
DeathHasCause ==
  state = "died" => /\ ~ownName
                    /\ \E c \in 1 .. Len(request) : Delayed(c) /\ replied[c] = 0

(* Every call that the service does not swallow is answered, also a call   *)
(* that has to wait for the service's call to itself; after the service    *)
(* has gone, every call is.                                                *)
CallsAnswered ==
  \A c \in Calls :
    (c <= Len(request) /\ (state # "running" \/ request[c].member \notin {"Exit", "EmitFoo"}))
      ~> (answer[c] # "none")

=============================================================================
