----------------------------- MODULE EchoProofs -----------------------------
(***************************************************************************)
(* Proofs about the echo service, for any number of calls. A call is where *)
(* one of these says it is: its message in the inbox, the set of pending   *)
(* calls with one message under way, or the replies. IInv says of each     *)
(* what it says of the call, and that no call is in two of them.           *)
(***************************************************************************)
EXTENDS EchoService, FiniteSetTheorems, TLAPS

Issued == 1 .. Len(request)
Answerable(c) == c \in Issued /\ request[c].member \notin {"Exit", "EmitFoo"}

(* Clients pass no wrong arguments to members that take none.              *)
RequestsKnown ==
  \A c \in Issued : request[c].member \notin WithArgument => request[c].good

(* Calls in the inbox are in the order they were made, and nothing has     *)
(* been done for them.                                                     *)
InboxKnown ==
  /\ \A i \in DOMAIN inbox :
       /\ inbox[i].kind \in {"call", "hello", "result"}
       /\ inbox[i].call \in Issued
       /\ inbox[i].kind = "call" => inbox[i].call \notin pcalls /\ replied[inbox[i].call] = 0
       /\ inbox[i].kind = "hello" => inbox[i].with = "none"
       /\ inbox[i].kind = "result" => \/ inbox[i].with = "empty"
                                      \/ inbox[i].with = "error" /\ ~ownName
  /\ \A i, j \in DOMAIN inbox :
       i < j /\ inbox[i].kind = "call" /\ inbox[j].kind = "call" => inbox[i].call < inbox[j].call

(* Replies under way fit their calls.                                      *)
OutgoingKnown ==
  \A i \in DOMAIN outgoing :
    /\ outgoing[i].kind \in {"hello", "result", "reply", "Foo"}
    /\ outgoing[i].call \in Issued
    /\ outgoing[i].kind = "hello" => outgoing[i].with = "none"
    /\ outgoing[i].kind = "result" => outgoing[i].with = "empty"
    /\ outgoing[i].kind = "reply" => outgoing[i].with = Due(request[outgoing[i].call])

PendingKnown == \A c \in pcalls : c \in Issued /\ Delayed(c) /\ replied[c] = 0

AnswersKnown ==
  \A c \in Calls :
    /\ answer[c] # "none" => c \in Issued
    /\ answer[c] \notin {"none", "NoReply"} => answer[c] = Due(request[c])
    /\ c \notin Issued => replied[c] = 0

(* What completes a pending call is under way once, and only for one.      *)
Completion(m) == m.kind \in {"hello", "result"}
Once ==
  /\ \A i \in DOMAIN inbox : Completion(inbox[i]) => inbox[i].call \in pcalls
  /\ \A i \in DOMAIN outgoing : Completion(outgoing[i]) => outgoing[i].call \in pcalls
  /\ \A i, j \in DOMAIN inbox :
       Completion(inbox[i]) /\ Completion(inbox[j]) /\ inbox[i].call = inbox[j].call => i = j
  /\ \A i, j \in DOMAIN outgoing :
       Completion(outgoing[i]) /\ Completion(outgoing[j])
       /\ outgoing[i].call = outgoing[j].call => i = j
  /\ \A i \in DOMAIN inbox, j \in DOMAIN outgoing :
       Completion(inbox[i]) /\ Completion(outgoing[j]) => inbox[i].call # outgoing[j].call

UnderWay ==
  state = "running" => \A c \in pcalls :
    \/ \E i \in DOMAIN inbox : Completes(inbox[i], c)
    \/ \E i \in DOMAIN outgoing : Completes(outgoing[i], c)

IInv ==
  /\ TypeOK /\ RequestsKnown /\ InboxKnown /\ OutgoingKnown /\ PendingKnown /\ AnswersKnown
  /\ Once /\ UnderWay /\ RepliesBounded /\ DeathHasCause

-----------------------------------------------------------------------------
(* The loop takes the head of the inbox.                                   *)
LEMMA TakeEffect ==
  ASSUME TypeOK, NEW kind, NEW m, Take(kind, m)
  PROVE  /\ state = "running" /\ 1 \in DOMAIN inbox
         /\ inbox[1] = m /\ m.kind = kind /\ m \in Messages
         /\ inbox' \in Seq(Messages)
         /\ \A i \in DOMAIN inbox' : i + 1 \in DOMAIN inbox /\ inbox'[i] = inbox[i + 1]
         /\ \A i \in DOMAIN inbox : i # 1 => i - 1 \in DOMAIN inbox' /\ inbox'[i - 1] = inbox[i]
BY DEF TypeOK, Take

(* A client's call is taken from there as well.                            *)
LEMMA TakeCallEffect ==
  ASSUME TypeOK, NEW c, NEW member, TakeCall(c, member)
  PROVE  request[c].member = member /\ \E m : m.call = c /\ Take("call", m)
BY DEF TakeCall

IsReply(m, c) == m.kind = "reply" /\ m.call = c

(* What the service sends is appended to outgoing.                         *)
Sent(new) ==
  /\ outgoing' \in Seq(Messages)
  /\ \A i \in DOMAIN outgoing : i \in DOMAIN outgoing' /\ outgoing'[i] = outgoing[i]
  /\ \A i \in DOMAIN outgoing' : i \notin DOMAIN outgoing => outgoing'[i] \in new

LEMMA AppendSends ==
  ASSUME TypeOK, NEW m \in Messages, outgoing' = Append(outgoing, m)
  PROVE  Sent({m}) /\ Len(outgoing) + 1 \in DOMAIN outgoing' /\ outgoing'[Len(outgoing) + 1] = m
BY DEF TypeOK, Sent

LEMMA NothingSent ==
  ASSUME TypeOK, UNCHANGED outgoing
  PROVE  \A new : Sent(new)
BY DEF TypeOK, Sent

LEMMA ReplySends ==
  ASSUME TypeOK, NEW c \in Calls, NEW kinds \in Seq(Replies), Reply(c, kinds)
  PROVE  /\ Sent({Message("reply", c, kinds[i]) : i \in DOMAIN kinds})
         /\ replied' = [replied EXCEPT ![c] = @ + Len(kinds)]
         /\ Len(kinds) > 0 =>
              \E i \in DOMAIN outgoing' : i \notin DOMAIN outgoing /\ IsReply(outgoing'[i], c)
<1> DEFINE new == [i \in DOMAIN kinds |-> Message("reply", c, kinds[i])]
<1>1. new \in Seq(Messages) /\ Len(new) = Len(kinds)
  <2>1. \A i \in DOMAIN kinds : new[i] \in Messages
    BY DEF Message, Messages
  <2>2. DOMAIN kinds = 1 .. Len(kinds) /\ Len(kinds) \in Nat
    OBVIOUS
  <2> HIDE DEF new
  <2>3. DOMAIN new = 1 .. Len(kinds)
    BY <2>2 DEF new
  <2> QED
    BY <2>1, <2>2, <2>3 DEF new
<1>2. \A i \in DOMAIN new : new[i] \in {Message("reply", c, kinds[k]) : k \in DOMAIN kinds}
  OBVIOUS
<1>3. outgoing' = outgoing \o new /\ replied' = [replied EXCEPT ![c] = @ + Len(kinds)]
  BY DEF Reply
<1>4. outgoing \in Seq(Messages)
  BY DEF TypeOK
<1> HIDE DEF new
<1>5. /\ outgoing' \in Seq(Messages)
      /\ DOMAIN outgoing' = 1 .. Len(outgoing) + Len(new)
      /\ \A i \in 1 .. Len(outgoing) : outgoing'[i] = outgoing[i]
      /\ \A i \in 1 .. Len(outgoing) + Len(new) : i > Len(outgoing) =>
           outgoing'[i] = new[i - Len(outgoing)] /\ i - Len(outgoing) \in DOMAIN new
  BY <1>1, <1>3, <1>4
<1>6. \A i \in DOMAIN outgoing' : i \notin DOMAIN outgoing => i > Len(outgoing)
  BY <1>4, <1>5, <1>1
<1>7. Len(outgoing) \in Nat /\ DOMAIN outgoing = 1 .. Len(outgoing)
  BY <1>4
<1>8. \A i \in DOMAIN outgoing : i \in DOMAIN outgoing' /\ outgoing'[i] = outgoing[i]
  BY <1>5, <1>7, <1>1
<1>9. ASSUME Len(kinds) > 0
      PROVE  \E i \in DOMAIN outgoing' : i \notin DOMAIN outgoing /\ IsReply(outgoing'[i], c)
  <2>1. 1 \in DOMAIN new /\ new[1].kind = "reply" /\ new[1].call = c
    BY <1>9 DEF new, Message
  <2>2. Len(new) \in Nat /\ Len(new) >= 1
    BY <1>1, <1>9
  <2>3. PICK k : k = Len(outgoing) + 1
    OBVIOUS
  <2>4. k \in 1 .. Len(outgoing) + Len(new) /\ k > Len(outgoing) /\ k - Len(outgoing) = 1
        /\ k \notin DOMAIN outgoing
    BY <1>7, <2>2, <2>3
  <2>5. k \in DOMAIN outgoing' /\ outgoing'[k] = new[1]
    BY <1>5, <2>4
  <2> QED
    BY <2>1, <2>4, <2>5 DEF IsReply
<1> QED
  BY <1>2, <1>3, <1>5, <1>6, <1>8, <1>9 DEF Sent

-----------------------------------------------------------------------------

(* A client's call that is done with at once.                              *)
Immediate(c) ==
  /\ \E m : m.call = c /\ Take("call", m)
  /\ Sent({Message("reply", c, Due(request[c])), Message("Foo", c, "none")})
  /\ replied' \in [Calls -> Nat]
  /\ \A d \in Calls : d # c => replied'[d] = replied[d]
  /\ replied'[c] <= AtMost(request[c])
  /\ UNCHANGED <<ownName, state, request, pcalls, answer>>
  /\ ~Delayed(c)
  /\ \A i \in DOMAIN outgoing' :
       i \notin DOMAIN outgoing /\ outgoing'[i].kind = "reply" => replied'[c] > 0
  /\ request[c].member \notin {"Exit", "EmitFoo"} =>
       \E i \in DOMAIN outgoing' : i \notin DOMAIN outgoing /\ IsReply(outgoing'[i], c)

(* When a call is at the head of the inbox, nothing has been done for it.  *)
LEMMA TakenCall ==
  ASSUME IInv, NEW c \in Calls, NEW member, TakeCall(c, member)
  PROVE  /\ c \in Issued /\ c \notin pcalls /\ replied[c] = 0
         /\ request[c].member = member /\ request[c] \in Requests
         /\ request[c].member \notin WithArgument => request[c].good
         /\ \E m : m.call = c /\ Take("call", m)
<1>1. PICK m : m.call = c /\ Take("call", m)
  BY TakeCallEffect DEF IInv
<1>2. 1 \in DOMAIN inbox /\ inbox[1] = m /\ m.kind = "call"
  BY <1>1, TakeEffect DEF IInv
<1>3. request[c].member = member
  BY TakeCallEffect DEF IInv
<1>4. c \in Issued /\ c \notin pcalls /\ replied[c] = 0
  BY <1>1, <1>2 DEF IInv, InboxKnown
<1> QED
  BY <1>1, <1>3, <1>4 DEF IInv, TypeOK, RequestsKnown, Issued

(* Every member but the delayed one and Exit is such.                      *)
LEMMA ImmediateMembers ==
  ASSUME IInv, NEW c \in Calls,
         \/ handle_echo(c) \/ handle_delay_echo(c) \/ emit_foo(c) \/ unknown_member(c)
         \/ handle_run_hello_from_self(c) /\ ~request[c].good
         \/ hello_from_self(c) /\ TakeCall(c, "HelloFromSelf") /\ Reply(c, <<"empty">>)
  PROVE  Immediate(c)
<1> DEFINE Rest == UNCHANGED <<ownName, state, request, pcalls, answer>>
           due == Due(request[c])
<1>1. ASSUME NEW member, TakeCall(c, member), Rest, NEW kinds \in Seq(Replies), Reply(c, kinds),
             \A i \in DOMAIN kinds : kinds[i] = due, Len(kinds) <= AtMost(request[c]),
             Len(kinds) > 0, ~Delayed(c)
      PROVE  Immediate(c)
  <2>1. Sent({Message("reply", c, kinds[i]) : i \in DOMAIN kinds})
        /\ replied' = [replied EXCEPT ![c] = @ + Len(kinds)]
        /\ \E i \in DOMAIN outgoing' : i \notin DOMAIN outgoing /\ IsReply(outgoing'[i], c)
    BY <1>1, ReplySends DEF IInv
  <2>2. Sent({Message("reply", c, due), Message("Foo", c, "none")})
    BY <1>1, <2>1 DEF Sent
  <2>3. /\ replied' \in [Calls -> Nat] /\ \A d \in Calls : d # c => replied'[d] = replied[d]
        /\ replied'[c] = Len(kinds)
    BY <1>1, <2>1, TakenCall DEF IInv, TypeOK
  <2>4. replied'[c] > 0
    BY <1>1, <2>3
  <2> QED
    BY <1>1, <2>1, <2>2, <2>3, <2>4, TakenCall DEF Immediate
<1>2. ASSUME NEW member, TakeCall(c, member), Rest, RefuseArguments(c)
      PROVE  Immediate(c)
  <2>1. due = "error" /\ AtMost(request[c]) = 2
    BY <1>2 DEF RefuseArguments, Due, AtMost
  <2>2. <<"error", "error">> \in Seq(Replies) /\ Len(<<"error", "error">>) = 2
        /\ \A i \in DOMAIN <<"error", "error">> : <<"error", "error">>[i] = "error"
    BY DEF Replies
  <2>3. Reply(c, <<"error", "error">>)
    BY <1>2 DEF RefuseArguments
  <2>4. PICK ks \in Seq(Replies) :
          Reply(c, ks) /\ Len(ks) = 2 /\ \A i \in DOMAIN ks : ks[i] = "error"
    BY <2>2, <2>3, Zenon
  <2>5. Len(ks) <= AtMost(request[c]) /\ Len(ks) > 0 /\ \A i \in DOMAIN ks : ks[i] = due
    BY <2>1, <2>4
  <2>6. ~Delayed(c)
    BY <1>2 DEF RefuseArguments, Delayed
  <2> QED
    BY <1>1, <1>2, <2>4, <2>5, <2>6
<1>3. ASSUME NEW member, TakeCall(c, member), Rest, NEW kind \in Replies, Reply(c, <<kind>>),
             kind = due, member \notin {"Exit", "EmitFoo", "RunHelloFromSelf"}
      PROVE  Immediate(c)
  <2>1. AtMost(request[c]) >= 1
    BY <1>3, TakenCall DEF AtMost
  <2>2. <<kind>> \in Seq(Replies) /\ Len(<<kind>>) = 1 /\ \A i \in DOMAIN <<kind>> : <<kind>>[i] = kind
    OBVIOUS
  <2>3. Len(<<kind>>) <= AtMost(request[c]) /\ Len(<<kind>>) > 0
    BY <2>1, <2>2 DEF AtMost
  <2>4. ~Delayed(c)
    BY <1>3, TakenCall DEF Delayed
  <2> QED
    BY <1>1, <1>3, <2>2, <2>3, <2>4
<1>4. CASE handle_echo(c)
  <2>1. TakeCall(c, "Echo") /\ Rest
    BY <1>4 DEF handle_echo
  <2>2. CASE RefuseArguments(c)
    BY <1>2, <2>1, <2>2
  <2>3. CASE request[c].good /\ Reply(c, <<"doubled">>)
    BY <1>3, <2>1, <2>3, TakenCall DEF Due, Replies
  <2> QED
    BY <1>4, <2>2, <2>3 DEF handle_echo
<1>5. CASE handle_delay_echo(c)
  <2>1. TakeCall(c, "DelayEcho") /\ Rest
    BY <1>5 DEF handle_delay_echo
  <2>2. CASE RefuseArguments(c)
    BY <1>2, <2>1, <2>2
  <2>3. CASE request[c].good /\ Reply(c, <<"string">>)
    BY <1>3, <2>1, <2>3, TakenCall DEF Due, Replies
  <2> QED
    BY <1>5, <2>2, <2>3 DEF handle_delay_echo
<1>6. CASE emit_foo(c)
  <2>1. TakeCall(c, "EmitFoo") /\ Rest /\ UNCHANGED replied
        /\ outgoing' = Append(outgoing, Message("Foo", c, "none"))
    BY <1>6 DEF emit_foo
  <2>2. Sent({Message("Foo", c, "none")})
    BY <2>1, AppendSends DEF IInv, Message, Messages
  <2>3. Sent({Message("reply", c, due), Message("Foo", c, "none")})
    BY <2>2 DEF Sent
  <2>4. AtMost(request[c]) >= 0
    BY DEF AtMost
  <2>5. request[c].member = "EmitFoo" /\ ~Delayed(c)
    BY <2>1, TakenCall DEF Delayed
  <2>6. \A i \in DOMAIN outgoing' : i \notin DOMAIN outgoing => outgoing'[i].kind # "reply"
    BY <2>2 DEF Sent, Message
  <2> QED
    BY <2>1, <2>3, <2>4, <2>5, <2>6, TakenCall DEF Immediate, IInv, TypeOK
<1>7. CASE unknown_member(c)
  <2>1. TakeCall(c, "Other") /\ Rest /\ Reply(c, <<"error">>)
    BY <1>7 DEF unknown_member
  <2> QED
    BY <1>3, <2>1, TakenCall DEF Due, Replies
<1>8. CASE handle_run_hello_from_self(c) /\ ~request[c].good
  <2>1. TakeCall(c, "RunHelloFromSelf") /\ Rest /\ RefuseArguments(c)
    BY <1>8 DEF handle_run_hello_from_self
  <2> QED
    BY <1>2, <2>1
<1>9. CASE hello_from_self(c) /\ TakeCall(c, "HelloFromSelf") /\ Reply(c, <<"empty">>)
  <2>1. Rest
    BY <1>9 DEF hello_from_self
  <2> QED
    BY <1>3, <1>9, <2>1, TakenCall DEF Due, Replies, WithArgument
<1> QED
  BY <1>4, <1>5, <1>6, <1>7, <1>8, <1>9

-----------------------------------------------------------------------------
(* What all handlers have in common: one message about c is taken, and     *)
(* nothing changes for any other call.                                     *)
Fits(m, c) ==
  /\ m.kind \in {"hello", "result", "reply", "Foo"} /\ m.call = c
  /\ m.kind = "hello" => m.with = "none"
  /\ m.kind = "result" => m.with = "empty"
  /\ m.kind = "reply" => m.with = Due(request[c])

Handled(c) ==
  /\ \E kind, m : m.call = c /\ Take(kind, m)
  /\ UNCHANGED <<ownName, request, answer>>
  /\ outgoing' \in Seq(Messages)
  /\ \A i \in DOMAIN outgoing' : IF i \in DOMAIN outgoing THEN outgoing'[i] = outgoing[i]
                                 ELSE Fits(outgoing'[i], c)
  /\ \A i, j \in DOMAIN outgoing' :
       /\ i \notin DOMAIN outgoing /\ Completion(outgoing'[i])
       /\ j \notin DOMAIN outgoing /\ Completion(outgoing'[j])
       => i = j /\ c \in pcalls'
  /\ pcalls' \in SUBSET Calls
  /\ \A d \in Calls : d # c => (d \in pcalls' <=> d \in pcalls)
  /\ c \in pcalls' => Delayed(c) /\ replied'[c] = 0
  /\ replied' \in [Calls -> Nat]
  /\ \A d \in Calls : d # c => replied'[d] = replied[d]
  /\ replied'[c] <= AtMost(request[c])
  /\ state' \in {"running", "exited", "died"}
  /\ state' = "running" =>
       /\ \A i \in DOMAIN outgoing : i \in DOMAIN outgoing'
       /\ c \in pcalls' => \E i \in DOMAIN outgoing' : Completes(outgoing'[i], c)
  /\ state' = "died" => ~ownName /\ Delayed(c) /\ replied'[c] = 0

(* And it has moved on: a delayed call by one stage, any other to its end. *)
Forward(c) ==
  /\ inbox[1].call = c
  /\ \A i \in DOMAIN outgoing' : i \notin DOMAIN outgoing =>
       /\ outgoing'[i].kind = "hello" => inbox[1].kind = "call"
       /\ outgoing'[i].kind = "result" => inbox[1].kind = "hello"
       /\ outgoing'[i].kind = "reply" =>
            /\ replied'[c] > 0
            /\ inbox[1].kind = IF Delayed(c) THEN "result" ELSE "call"
  /\ replied'[c] >= replied[c]
  /\ state' = "running" /\ Answerable(c) =>
       \/ c \in pcalls'
       \/ \E i \in DOMAIN outgoing' : IsReply(outgoing'[i], c)

(* What is known of a call stays true.                                     *)
LEMMA HandledKeeps == ASSUME IInv, NEW c \in Calls, Handled(c) PROVE IInv'
<1> USE DEF Completion
<1>1. PICK kind, m : m.call = c /\ Take(kind, m)
  BY DEF Handled
<1>2. /\ state = "running" /\ 1 \in DOMAIN inbox /\ inbox[1].call = c
      /\ inbox' \in Seq(Messages)
      /\ \A i \in DOMAIN inbox' : i + 1 \in DOMAIN inbox /\ inbox'[i] = inbox[i + 1]
      /\ \A i \in DOMAIN inbox : i # 1 => i - 1 \in DOMAIN inbox' /\ inbox'[i - 1] = inbox[i]
  BY <1>1, TakeEffect DEF IInv
<1>3. /\ ownName' = ownName /\ request' = request /\ answer' = answer /\ Issued' = Issued
      /\ c \in Issued
  BY <1>2 DEF Handled, IInv, InboxKnown, Issued
<1>4. inbox \in Seq(Messages) /\ outgoing \in Seq(Messages)
  BY DEF IInv, TypeOK
<1>5. \A i \in DOMAIN inbox' : i \in Nat /\ i + 1 # 1
  BY <1>2
<1>6. \A i \in DOMAIN inbox' : inbox'[i].kind = "call" => inbox'[i].call # c
  <2> SUFFICES ASSUME NEW i \in DOMAIN inbox', inbox'[i].kind = "call" PROVE inbox'[i].call # c
    OBVIOUS
  <2>1. i + 1 \in DOMAIN inbox /\ inbox'[i] = inbox[i + 1] /\ 1 < i + 1
    BY <1>2, <1>4
  <2>2. inbox[1].kind \in {"call", "hello", "result"}
    BY <1>2 DEF IInv, InboxKnown
  <2>3. CASE inbox[1].kind = "call"
    <3>1. inbox[1].call < inbox[i + 1].call
      BY <2>1, <2>3, <1>2 DEF IInv, InboxKnown
    <3> QED
      BY <3>1, <2>1, <1>2, EchoAssumption DEF Calls
  <2>4. CASE inbox[1].kind # "call"
    <3>1. c \in pcalls
      BY <2>2, <2>4, <1>2 DEF IInv, Once
    <3>2. inbox[i + 1].call \notin pcalls
      BY <2>1 DEF IInv, InboxKnown
    <3> QED
      BY <3>1, <3>2, <2>1
  <2> QED
    BY <2>3, <2>4
<1>7. \A i \in DOMAIN inbox' : Completion(inbox'[i]) => inbox'[i].call # c
  <2> SUFFICES ASSUME NEW i \in DOMAIN inbox', Completion(inbox'[i]) PROVE inbox'[i].call # c
    OBVIOUS
  <2>1. i + 1 \in DOMAIN inbox /\ inbox'[i] = inbox[i + 1] /\ 1 # i + 1
    BY <1>2, <1>5
  <2>2. inbox[1].kind = "call" => c \notin pcalls
    BY <1>2 DEF IInv, InboxKnown
  <2>3. inbox[i + 1].call \in pcalls
    BY <2>1 DEF IInv, Once
  <2>4. inbox[1].kind \in {"call", "hello", "result"}
    BY <1>2 DEF IInv, InboxKnown
  <2> QED
    BY <2>1, <2>2, <2>3, <2>4, <1>2 DEF IInv, Once
<1>8. \A i \in DOMAIN outgoing : Completion(outgoing[i]) => outgoing[i].call # c
  <2> SUFFICES ASSUME NEW i \in DOMAIN outgoing, Completion(outgoing[i]) PROVE outgoing[i].call # c
    OBVIOUS
  <2>1. inbox[1].kind = "call" => c \notin pcalls
    BY <1>2 DEF IInv, InboxKnown
  <2>2. outgoing[i].call \in pcalls
    BY DEF IInv, Once
  <2>3. inbox[1].kind \in {"call", "hello", "result"}
    BY <1>2 DEF IInv, InboxKnown
  <2> QED
    BY <2>1, <2>2, <2>3, <1>2 DEF IInv, Once
<1>9. TypeOK'
  BY <1>2, <1>3 DEF Handled, IInv, TypeOK
<1>10. RequestsKnown'
  BY <1>3 DEF IInv, RequestsKnown
<1>11. InboxKnown'
  <2>1. ASSUME NEW i \in DOMAIN inbox'
        PROVE  /\ inbox'[i].kind \in {"call", "hello", "result"}
               /\ inbox'[i].call \in Issued
               /\ inbox'[i].kind = "call" => inbox'[i].call \notin pcalls' /\ replied'[inbox'[i].call] = 0
               /\ inbox'[i].kind = "hello" => inbox'[i].with = "none"
               /\ inbox'[i].kind = "result" => \/ inbox'[i].with = "empty"
                                               \/ inbox'[i].with = "error" /\ ~ownName
    <3>1. i + 1 \in DOMAIN inbox /\ inbox'[i] = inbox[i + 1]
      BY <1>2
    <3>2. inbox[i + 1].call \in Calls
      <4>1. inbox[i + 1] \in Messages
        BY <3>1, <1>4
      <4> QED
        BY <4>1 DEF Messages
    <3>3. inbox'[i].kind = "call" => inbox'[i].call \notin pcalls' /\ replied'[inbox'[i].call] = 0
      <4>1. inbox'[i].kind = "call" => inbox[i + 1].call \notin pcalls /\ replied[inbox[i + 1].call] = 0
        BY <3>1 DEF IInv, InboxKnown
      <4> QED
        BY <3>1, <3>2, <4>1, <1>6 DEF Handled
    <3> QED
      BY <3>1, <3>3 DEF IInv, InboxKnown
  <2>2. ASSUME NEW i \in DOMAIN inbox', NEW j \in DOMAIN inbox', i < j,
               inbox'[i].kind = "call", inbox'[j].kind = "call"
        PROVE  inbox'[i].call < inbox'[j].call
    BY <2>2, <1>2, <1>5 DEF IInv, InboxKnown
  <2> QED
    BY <2>1, <2>2, <1>3 DEF InboxKnown
<1>12. OutgoingKnown'
  <2> SUFFICES ASSUME NEW i \in DOMAIN outgoing'
               PROVE  /\ outgoing'[i].kind \in {"hello", "result", "reply", "Foo"}
                      /\ outgoing'[i].call \in Issued
                      /\ outgoing'[i].kind = "hello" => outgoing'[i].with = "none"
                      /\ outgoing'[i].kind = "result" => outgoing'[i].with = "empty"
                      /\ outgoing'[i].kind = "reply" =>
                           outgoing'[i].with = Due(request[outgoing'[i].call])
    BY <1>3 DEF OutgoingKnown
  <2>1. CASE i \in DOMAIN outgoing
    BY <2>1 DEF Handled, IInv, OutgoingKnown
  <2>2. CASE i \notin DOMAIN outgoing
    BY <2>2, <1>3 DEF Handled, Fits
  <2> QED
    BY <2>1, <2>2
<1>13. PendingKnown'
  <2> SUFFICES ASSUME NEW d \in pcalls' PROVE d \in Issued /\ Delayed(d) /\ replied'[d] = 0
    BY <1>3 DEF PendingKnown, Delayed
  <2>1. CASE d = c
    BY <2>1, <1>3 DEF Handled
  <2>2. CASE d # c
    <3>1. d \in pcalls /\ replied'[d] = replied[d]
      BY <2>2 DEF Handled
    <3> QED
      BY <3>1 DEF IInv, PendingKnown
  <2> QED
    BY <2>1, <2>2
<1>14. AnswersKnown'
  <2>1. \A d \in Calls : d \notin Issued => replied'[d] = replied[d]
    BY <1>3 DEF Handled
  <2> QED
    BY <1>3, <2>1 DEF IInv, AnswersKnown
<1>15. Once'
  <2>1. ASSUME NEW i \in DOMAIN inbox', Completion(inbox'[i])
        PROVE  inbox'[i].call \in pcalls'
    <3>1. inbox'[i].call \in pcalls
      BY <2>1, <1>2 DEF IInv, Once
    <3> QED
      BY <2>1, <3>1, <1>7 DEF Handled, IInv, TypeOK
  <2>2. ASSUME NEW i \in DOMAIN outgoing', Completion(outgoing'[i])
        PROVE  outgoing'[i].call \in pcalls'
    <3>1. CASE i \in DOMAIN outgoing
      <4>1. outgoing'[i] = outgoing[i] /\ outgoing[i].call \in pcalls /\ outgoing[i].call # c
        BY <2>2, <3>1, <1>8 DEF Handled, IInv, Once
      <4> QED
        BY <4>1 DEF Handled, IInv, TypeOK
    <3>2. CASE i \notin DOMAIN outgoing
      BY <2>2, <3>2 DEF Handled, Fits
    <3> QED
      BY <3>1, <3>2
  <2>3. ASSUME NEW i \in DOMAIN inbox', NEW j \in DOMAIN inbox',
               Completion(inbox'[i]), Completion(inbox'[j]), inbox'[i].call = inbox'[j].call
        PROVE  i = j
    <3>1. i + 1 = j + 1
      BY <2>3, <1>2 DEF IInv, Once
    <3> QED
      BY <3>1, <1>5
  <2>4. ASSUME NEW i \in DOMAIN outgoing', NEW j \in DOMAIN outgoing',
               Completion(outgoing'[i]), Completion(outgoing'[j]),
               outgoing'[i].call = outgoing'[j].call
        PROVE  i = j
    <3>1. CASE i \in DOMAIN outgoing /\ j \in DOMAIN outgoing
      <4>1. outgoing'[i] = outgoing[i] /\ outgoing'[j] = outgoing[j]
        BY <3>1 DEF Handled
      <4> QED
        BY <2>4, <3>1, <4>1 DEF IInv, Once
    <3>2. CASE i \notin DOMAIN outgoing /\ j \notin DOMAIN outgoing
      BY <2>4, <3>2 DEF Handled
    <3>3. CASE i \in DOMAIN outgoing /\ j \notin DOMAIN outgoing
      BY <2>4, <3>3, <1>8 DEF Handled, Fits
    <3>4. CASE i \notin DOMAIN outgoing /\ j \in DOMAIN outgoing
      BY <2>4, <3>4, <1>8 DEF Handled, Fits
    <3> QED
      BY <3>1, <3>2, <3>3, <3>4
  <2>5. ASSUME NEW i \in DOMAIN inbox', NEW j \in DOMAIN outgoing',
               Completion(inbox'[i]), Completion(outgoing'[j])
        PROVE  inbox'[i].call # outgoing'[j].call
    <3>1. CASE j \in DOMAIN outgoing
      BY <2>5, <3>1, <1>2 DEF Handled, IInv, Once
    <3>2. CASE j \notin DOMAIN outgoing
      BY <2>5, <3>2, <1>7 DEF Handled, Fits
    <3> QED
      BY <3>1, <3>2
  <2> QED
    BY <2>1, <2>2, <2>3, <2>4, <2>5 DEF Once
<1>16. UnderWay'
  <2> SUFFICES ASSUME state' = "running", NEW d \in pcalls'
               PROVE  \/ \E i \in DOMAIN inbox' : Completes(inbox'[i], d)
                      \/ \E i \in DOMAIN outgoing' : Completes(outgoing'[i], d)
    BY DEF UnderWay, Completes
  <2>1. CASE d = c
    BY <2>1 DEF Handled
  <2>2. CASE d # c
    <3>1. d \in pcalls
      BY <2>2 DEF Handled
    <3>2. CASE \E i \in DOMAIN inbox : Completes(inbox[i], d)
      <4>1. PICK i \in DOMAIN inbox : Completes(inbox[i], d)
        BY <3>2
      <4>2. i # 1
        BY <4>1, <2>2, <1>2 DEF Completes
      <4>3. i - 1 \in DOMAIN inbox' /\ inbox'[i - 1] = inbox[i]
        BY <4>2, <1>2
      <4> QED
        BY <4>1, <4>3
    <3>3. CASE \E i \in DOMAIN outgoing : Completes(outgoing[i], d)
      <4>1. PICK i \in DOMAIN outgoing : Completes(outgoing[i], d)
        BY <3>3
      <4>2. i \in DOMAIN outgoing' /\ outgoing'[i] = outgoing[i]
        BY DEF Handled
      <4> QED
        BY <4>1, <4>2
    <3> QED
      BY <3>1, <3>2, <3>3, <1>2 DEF IInv, UnderWay
  <2> QED
    BY <2>1, <2>2
<1>17. RepliesBounded'
  <2>1. \A d \in Issued : d \in Calls
    BY EchoAssumption DEF IInv, TypeOK, Issued, Calls
  <2> QED
    BY <1>3, <2>1 DEF Handled, IInv, RepliesBounded, Issued
<1>18. DeathHasCause'
  BY <1>3 DEF Handled, DeathHasCause, Issued, Delayed
<1> QED
  BY <1>9, <1>10, <1>11, <1>12, <1>13, <1>14, <1>15, <1>16, <1>17, <1>18 DEF IInv

(* Each handler does no more than that, and no less.                       *)
LEMMA ImmediateHandled ==
  ASSUME IInv, NEW c \in Calls, Immediate(c) PROVE Handled(c) /\ Forward(c)
<1>1. PICK m : m.call = c /\ Take("call", m)
  BY DEF Immediate
<1>2. state = "running" /\ 1 \in DOMAIN inbox /\ inbox[1].call = c /\ inbox[1].kind = "call"
  BY <1>1, TakeEffect DEF IInv
<1>3. c \notin pcalls
  BY <1>2 DEF IInv, InboxKnown
<1>4. ASSUME NEW n, n \in {Message("reply", c, Due(request[c])), Message("Foo", c, "none")}
      PROVE  Fits(n, c) /\ ~Completion(n)
  BY <1>4 DEF Fits, Message, Completion
<1>5. /\ outgoing' \in Seq(Messages)
      /\ \A i \in DOMAIN outgoing : i \in DOMAIN outgoing' /\ outgoing'[i] = outgoing[i]
      /\ \A i \in DOMAIN outgoing' : i \notin DOMAIN outgoing =>
           Fits(outgoing'[i], c) /\ ~Completion(outgoing'[i])
  BY <1>4 DEF Immediate, Sent
<1>6. pcalls' = pcalls /\ state' = "running" /\ pcalls \in SUBSET Calls
  BY <1>2 DEF Immediate, IInv, TypeOK
<1>7. Handled(c)
  BY <1>1, <1>3, <1>5, <1>6 DEF Immediate, Handled
<1>8. replied[c] = 0
  BY <1>2 DEF IInv, InboxKnown
<1>9. Forward(c)
  <2>1. \A i \in DOMAIN outgoing' : i \notin DOMAIN outgoing =>
          outgoing'[i].kind # "hello" /\ outgoing'[i].kind # "result"
    BY <1>5 DEF Completion
  <2>2. replied'[c] \in Nat
    BY DEF Immediate
  <2> QED
    BY <1>2, <1>8, <2>1, <2>2 DEF Immediate, Forward, Answerable
<1> QED
  BY <1>7, <1>9

LEMMA DelayedHandled ==
  ASSUME IInv, NEW c \in Calls, handle_run_hello_from_self(c), request[c].good
  PROVE  Handled(c) /\ Forward(c)
<1> DEFINE n == Message("hello", c, "none")
<1>1. /\ TakeCall(c, "RunHelloFromSelf") /\ outgoing' = Append(outgoing, n)
      /\ pcalls' = pcalls \cup {c} /\ UNCHANGED <<ownName, state, request, answer, replied>>
  BY DEF handle_run_hello_from_self, RefuseArguments
<1>2. PICK m : m.call = c /\ Take("call", m)
  BY <1>1, TakenCall
<1>3. c \notin pcalls /\ replied[c] = 0 /\ Delayed(c)
  BY <1>1, TakenCall DEF Delayed
<1>4. state = "running"
  BY <1>2, TakeEffect DEF IInv
<1>5. n \in Messages /\ Fits(n, c) /\ Completes(n, c)
  BY DEF Message, Messages, Fits, Completes
<1> HIDE DEF n
<1>6. Sent({n}) /\ Len(outgoing) + 1 \in DOMAIN outgoing' /\ outgoing'[Len(outgoing) + 1] = n
  BY <1>1, <1>5, AppendSends DEF IInv
<1>7. \A i \in DOMAIN outgoing' : i \notin DOMAIN outgoing => i = Len(outgoing) + 1
  BY <1>1 DEF IInv, TypeOK
<1>8. AtMost(request[c]) >= 0
  BY DEF AtMost
<1>9. /\ outgoing' \in Seq(Messages)
      /\ \A i \in DOMAIN outgoing : i \in DOMAIN outgoing' /\ outgoing'[i] = outgoing[i]
      /\ \A i \in DOMAIN outgoing' : i \notin DOMAIN outgoing => outgoing'[i] = n
  BY <1>6 DEF Sent
<1>10. pcalls \in SUBSET Calls /\ replied \in [Calls -> Nat]
  BY DEF IInv, TypeOK
<1>11. Handled(c)
  BY <1>1, <1>2, <1>3, <1>4, <1>5, <1>6, <1>7, <1>8, <1>9, <1>10 DEF Handled
<1>12. inbox[1].kind = "call" /\ inbox[1].call = c
  BY <1>2, TakeEffect DEF IInv
<1>13. n.kind = "hello"
  BY DEF n, Message
<1>14. Forward(c)
  BY <1>1, <1>3, <1>9, <1>12, <1>13 DEF Forward
<1> QED
  BY <1>11, <1>14

(* When the message that completes a pending call is at the head.          *)
LEMMA TakenCompletion ==
  ASSUME IInv, NEW c \in Calls, NEW kind \in {"hello", "result"}, NEW with,
         Take(kind, Message(kind, c, with))
  PROVE  /\ c \in Issued /\ c \in pcalls /\ Delayed(c) /\ replied[c] = 0
         /\ state = "running" /\ request[c].good
         /\ \E k, m : m.call = c /\ Take(k, m)
         /\ kind = "result" /\ with = "error" => ~ownName
         /\ inbox[1].call = c /\ inbox[1].kind = kind
<1>1. state = "running" /\ 1 \in DOMAIN inbox /\ inbox[1] = Message(kind, c, with)
  BY TakeEffect DEF IInv
<1>2. c \in pcalls
  BY <1>1 DEF IInv, Once, Completion, Message
<1>3. c \in Issued /\ Delayed(c) /\ replied[c] = 0
  BY <1>2 DEF IInv, PendingKnown
<1>4. kind = "result" /\ with = "error" => ~ownName
  BY <1>1 DEF IInv, InboxKnown, Message
<1> QED
  BY <1>1, <1>2, <1>3, <1>4 DEF Message, Delayed

LEMMA HelloHandled ==
  ASSUME IInv, NEW c \in Calls, Take("hello", Message("hello", c, "none")),
         outgoing' = Append(outgoing, Message("result", c, "empty")),
         UNCHANGED <<ownName, state, request, pcalls, answer, replied>>
  PROVE  Handled(c) /\ Forward(c)
<1> DEFINE n == Message("result", c, "empty")
<1>1. /\ c \in pcalls /\ Delayed(c) /\ replied[c] = 0 /\ state = "running"
      /\ \E k, m : m.call = c /\ Take(k, m)
  BY TakenCompletion
<1>2. n \in Messages /\ Fits(n, c) /\ Completes(n, c)
  BY DEF Message, Messages, Fits, Completes, Replies
<1> HIDE DEF n
<1>3. Sent({n}) /\ Len(outgoing) + 1 \in DOMAIN outgoing' /\ outgoing'[Len(outgoing) + 1] = n
  BY <1>2, AppendSends DEF IInv, n
<1>4. \A i \in DOMAIN outgoing' : i \notin DOMAIN outgoing => i = Len(outgoing) + 1
  BY DEF IInv, TypeOK
<1>5. AtMost(request[c]) >= 0
  BY DEF AtMost
<1>6. /\ outgoing' \in Seq(Messages)
      /\ \A i \in DOMAIN outgoing : i \in DOMAIN outgoing' /\ outgoing'[i] = outgoing[i]
      /\ \A i \in DOMAIN outgoing' : i \notin DOMAIN outgoing => outgoing'[i] = n
  BY <1>3 DEF Sent
<1>7. pcalls \in SUBSET Calls /\ replied \in [Calls -> Nat]
  BY DEF IInv, TypeOK
<1>8. Handled(c)
  BY <1>1, <1>2, <1>3, <1>4, <1>5, <1>6, <1>7 DEF Handled
<1>9. inbox[1].kind = "hello" /\ inbox[1].call = c
  BY TakenCompletion
<1>10. n.kind = "result"
  BY DEF n, Message
<1>11. Forward(c)
  BY <1>1, <1>6, <1>9, <1>10 DEF Forward
<1> QED
  BY <1>8, <1>11

(* What is left of outgoing when the process ends is a beginning of it.    *)
LEMMA EndEffect ==
  ASSUME TypeOK, NEW how, End(how)
  PROVE  /\ state' = how /\ outgoing' \in Seq(Messages)
         /\ \A i \in DOMAIN outgoing' : i \in DOMAIN outgoing /\ outgoing'[i] = outgoing[i]
<1>1. PICK n \in 0 .. Len(outgoing) : outgoing' = SubSeq(outgoing, 1, n)
  BY DEF End
<1>2. outgoing \in Seq(Messages)
  BY DEF TypeOK
<1> QED
  BY <1>1, <1>2 DEF End

LEMMA NotificationHandled ==
  ASSUME IInv, NEW c \in Calls, check_hello_from_self_reply(c)
  PROVE  Handled(c) /\ Forward(c)
<1> DEFINE n == Message("reply", c, "string")
<1>0. /\ pcalls' = pcalls \ {c} /\ UNCHANGED <<ownName, request, answer>>
      /\ pcalls \in SUBSET Calls /\ replied \in [Calls -> Nat]
  BY DEF check_hello_from_self_reply, IInv, TypeOK
<1>1. CASE /\ Take("result", Message("result", c, "empty"))
           /\ Reply(c, <<"string">>) /\ UNCHANGED state
  <2>1. /\ Delayed(c) /\ replied[c] = 0 /\ state = "running"
        /\ \E k, m : m.call = c /\ Take(k, m)
    BY <1>1, TakenCompletion
  <2>2. AtMost(request[c]) = 1 /\ Due(request[c]) = "string"
    BY <2>1 DEF Delayed, AtMost, Due
  <2>3. Fits(n, c) /\ ~Completion(n)
    BY <2>2 DEF Fits, Message, Completion
  <2>4. PICK ks \in Seq(Replies) :
          Reply(c, ks) /\ Len(ks) = 1 /\ Len(ks) > 0 /\ \A i \in DOMAIN ks : ks[i] = "string"
    <3>1. <<"string">> \in Seq(Replies) /\ Len(<<"string">>) = 1 /\ Len(<<"string">>) > 0
          /\ \A i \in DOMAIN <<"string">> : <<"string">>[i] = "string"
      BY DEF Replies
    <3> QED
      BY <1>1, <3>1, Zenon
  <2>5. /\ Sent({Message("reply", c, ks[i]) : i \in DOMAIN ks})
        /\ replied' = [replied EXCEPT ![c] = @ + Len(ks)]
        /\ \E i \in DOMAIN outgoing' : i \notin DOMAIN outgoing /\ IsReply(outgoing'[i], c)
    BY <2>4, ReplySends, Zenon DEF IInv
  <2>6. \A k \in {Message("reply", c, ks[i]) : i \in DOMAIN ks} : k = n
    BY <2>4
  <2> HIDE DEF n
  <2>7. /\ outgoing' \in Seq(Messages)
        /\ \A i \in DOMAIN outgoing : i \in DOMAIN outgoing' /\ outgoing'[i] = outgoing[i]
        /\ \A i \in DOMAIN outgoing' : i \notin DOMAIN outgoing => outgoing'[i] = n
    BY <2>5, <2>6 DEF Sent
  <2>8. replied'[c] = 1 /\ replied' \in [Calls -> Nat]
        /\ \A d \in Calls : d # c => replied'[d] = replied[d]
    BY <1>0, <2>1, <2>4, <2>5
  <2>9. Handled(c)
    BY <1>0, <1>1, <2>1, <2>2, <2>3, <2>7, <2>8 DEF Handled
  <2>10. inbox[1].kind = "result" /\ inbox[1].call = c
    BY <1>1, TakenCompletion
  <2>11. n.kind = "reply"
    BY DEF n, Message
  <2>12. \A i \in DOMAIN outgoing' : i \notin DOMAIN outgoing => outgoing'[i].kind = "reply"
    BY <2>7, <2>11
  <2>13. \E i \in DOMAIN outgoing' : IsReply(outgoing'[i], c)
    BY <2>5
  <2>14. replied'[c] > 0 /\ replied'[c] >= replied[c]
    BY <2>1, <2>8
  <2>15. Forward(c)
    BY <2>1, <2>10, <2>12, <2>13, <2>14 DEF Forward
  <2> QED
    BY <2>9, <2>15
<1>2. CASE /\ Take("result", Message("result", c, "error"))
           /\ End("died") /\ UNCHANGED replied
  <2>1. /\ Delayed(c) /\ replied[c] = 0 /\ ~ownName
        /\ \E k, m : m.call = c /\ Take(k, m)
    BY <1>2, TakenCompletion
  <2>2. AtMost(request[c]) >= 0
    BY DEF AtMost
  <2>3. /\ state' = "died" /\ outgoing' \in Seq(Messages)
        /\ \A i \in DOMAIN outgoing' : i \in DOMAIN outgoing /\ outgoing'[i] = outgoing[i]
    BY <1>2, EndEffect DEF IInv
  <2>4. Handled(c)
    BY <1>0, <1>2, <2>1, <2>2, <2>3 DEF Handled
  <2>5. inbox[1].call = c
    BY <1>2, TakenCompletion
  <2>6. Forward(c)
    BY <1>0, <1>2, <2>1, <2>3, <2>5 DEF Forward
  <2> QED
    BY <2>4, <2>6
<1> QED
  BY <1>1, <1>2 DEF check_hello_from_self_reply

LEMMA QuitHandled == ASSUME IInv, NEW c \in Calls, quit(c) PROVE Handled(c) /\ Forward(c)
<1>1. /\ TakeCall(c, "Exit") /\ End("exited")
      /\ UNCHANGED <<ownName, request, pcalls, answer, replied>>
  BY DEF quit
<1>2. c \notin pcalls /\ replied[c] = 0 /\ \E m : m.call = c /\ Take("call", m)
  BY <1>1, TakenCall
<1>3. /\ state' = "exited" /\ outgoing' \in Seq(Messages)
      /\ \A i \in DOMAIN outgoing' : i \in DOMAIN outgoing /\ outgoing'[i] = outgoing[i]
  BY <1>1, EndEffect DEF IInv
<1>4. AtMost(request[c]) >= 0
  BY DEF AtMost
<1>5. pcalls \in SUBSET Calls /\ replied \in [Calls -> Nat]
  BY DEF IInv, TypeOK
<1>6. Handled(c)
  BY <1>1, <1>2, <1>3, <1>4, <1>5 DEF Handled
<1>7. inbox[1].call = c
  BY <1>2, TakeEffect DEF IInv
<1>8. Forward(c)
  BY <1>1, <1>2, <1>3, <1>5, <1>7 DEF Forward
<1> QED
  BY <1>6, <1>8

(* Whatever the loop dispatches is one of these.                           *)
LEMMA DispatchHandled ==
  ASSUME IInv, path_message_func PROVE \E c \in Calls : Handled(c) /\ Forward(c)
<1>1. PICK c \in Calls :
        \/ handle_echo(c) \/ handle_delay_echo(c) \/ handle_run_hello_from_self(c)
        \/ emit_foo(c) \/ hello_from_self(c) \/ unknown_member(c) \/ quit(c)
        \/ check_hello_from_self_reply(c)
  BY DEF path_message_func
<1> SUFFICES Handled(c) /\ Forward(c)
  OBVIOUS
<1>2. CASE handle_run_hello_from_self(c)
  BY <1>2, DelayedHandled, ImmediateMembers, ImmediateHandled
<1>3. CASE hello_from_self(c)
  <2>1. CASE TakeCall(c, "HelloFromSelf") /\ Reply(c, <<"empty">>)
    BY <1>3, <2>1, ImmediateMembers, ImmediateHandled
  <2>2. CASE Take("hello", Message("hello", c, "none"))
             /\ outgoing' = Append(outgoing, Message("result", c, "empty")) /\ UNCHANGED replied
    BY <1>3, <2>2, HelloHandled DEF hello_from_self
  <2> QED
    BY <1>3, <2>1, <2>2 DEF hello_from_self
<1> QED
  BY <1>1, <1>2, <1>3, QuitHandled, NotificationHandled, ImmediateMembers, ImmediateHandled

-----------------------------------------------------------------------------
(* The inbox gets at most one more message.                                *)
LEMMA AppendReceives ==
  ASSUME TypeOK, NEW m \in Messages, inbox' = Append(inbox, m)
  PROVE  /\ inbox' \in Seq(Messages) /\ Len(inbox) + 1 \in DOMAIN inbox'
         /\ inbox'[Len(inbox) + 1] = m
         /\ \A i \in DOMAIN inbox : i \in DOMAIN inbox' /\ inbox'[i] = inbox[i] /\ i < Len(inbox) + 1
         /\ \A i \in DOMAIN inbox' : i \in DOMAIN inbox \/ i = Len(inbox) + 1
BY DEF TypeOK

(* A client's call is younger than all before.                             *)
LEMMA ClientKeeps ==
  ASSUME IInv, NEW member \in Members, NEW good \in BOOLEAN, ClientCalls(member, good)
  PROVE  IInv'
<1> DEFINE c == Len(request) + 1
           r == [member |-> member, good |-> good]
           m == Message("call", c, "none")
<1>1. /\ state = "running" /\ Len(request) < MaxCalls /\ (member \notin WithArgument => good)
      /\ request' = Append(request, r) /\ inbox' = Append(inbox, m)
      /\ UNCHANGED <<ownName, state, outgoing, pcalls, answer, replied>>
  BY DEF ClientCalls
<1>2. /\ request \in Seq(Requests) /\ Len(request) \in Nat /\ r \in Requests
      /\ inbox \in Seq(Messages) /\ outgoing \in Seq(Messages)
  BY DEF IInv, TypeOK, Requests
<1>3. c \in Calls /\ c \notin Issued /\ Issued \subseteq Calls
  BY <1>1, <1>2, EchoAssumption DEF Calls, Issued
<1>4. /\ request' \in Seq(Requests) /\ Len(request') = c /\ request'[c] = r
      /\ \A d \in Issued : request'[d] = request[d] /\ d < c
      /\ Issued' = Issued \cup {c}
  BY <1>1, <1>2 DEF Issued
<1>5. m \in Messages /\ m.kind = "call" /\ m.call = c
  BY <1>3 DEF Message, Messages
<1> HIDE DEF m, r
<1>6. /\ inbox' \in Seq(Messages) /\ Len(inbox) + 1 \in DOMAIN inbox'
      /\ inbox'[Len(inbox) + 1] = m
      /\ \A i \in DOMAIN inbox : i \in DOMAIN inbox' /\ inbox'[i] = inbox[i] /\ i < Len(inbox) + 1
      /\ \A i \in DOMAIN inbox' : i \in DOMAIN inbox \/ i = Len(inbox) + 1
  BY <1>1, <1>5, AppendReceives DEF IInv
<1>7. c \notin pcalls /\ replied[c] = 0 /\ answer[c] = "none"
  BY <1>3 DEF IInv, PendingKnown, AnswersKnown
<1> HIDE DEF c
<1>8. TypeOK'
  BY <1>1, <1>3, <1>4, <1>6, EchoAssumption DEF IInv, TypeOK, Calls
<1>9. RequestsKnown'
  <2>1. r.member \notin WithArgument => r.good
    BY <1>1 DEF r
  <2> QED
    BY <2>1, <1>4 DEF IInv, RequestsKnown
<1>10. InboxKnown'
  <2>1. ASSUME NEW i \in DOMAIN inbox'
        PROVE  /\ inbox'[i].kind \in {"call", "hello", "result"}
               /\ inbox'[i].call \in Issued'
               /\ inbox'[i].kind = "call" => inbox'[i].call \notin pcalls /\ replied[inbox'[i].call] = 0
               /\ inbox'[i].kind = "hello" => inbox'[i].with = "none"
               /\ inbox'[i].kind = "result" => \/ inbox'[i].with = "empty"
                                               \/ inbox'[i].with = "error" /\ ~ownName
    <3>1. CASE i \in DOMAIN inbox
      BY <3>1, <1>4, <1>6 DEF IInv, InboxKnown
    <3>2. CASE i = Len(inbox) + 1
      BY <3>2, <1>4, <1>5, <1>6, <1>7
    <3> QED
      BY <3>1, <3>2, <1>6
  <2>2. ASSUME NEW i \in DOMAIN inbox', NEW j \in DOMAIN inbox', i < j,
               inbox'[i].kind = "call", inbox'[j].kind = "call"
        PROVE  inbox'[i].call < inbox'[j].call
    <3>1. i \in DOMAIN inbox
      BY <2>2, <1>2, <1>6
    <3>2. CASE j \in DOMAIN inbox
      BY <2>2, <3>1, <3>2, <1>6 DEF IInv, InboxKnown
    <3>3. CASE j = Len(inbox) + 1
      <4>1. inbox'[i].call \in Issued
        BY <3>1, <1>6 DEF IInv, InboxKnown
      <4> QED
        BY <3>3, <4>1, <1>4, <1>5, <1>6
    <3> QED
      BY <3>2, <3>3, <1>6
  <2> QED
    BY <2>1, <2>2, <1>1 DEF InboxKnown
<1>11. OutgoingKnown'
  BY <1>1, <1>4 DEF IInv, OutgoingKnown
<1>12. PendingKnown'
  BY <1>1, <1>4 DEF IInv, PendingKnown, Delayed
<1>13. AnswersKnown'
  BY <1>1, <1>4 DEF IInv, AnswersKnown
<1>14. Once'
  <2>1. \A i \in DOMAIN inbox' : Completion(inbox'[i]) => i \in DOMAIN inbox /\ inbox'[i] = inbox[i]
    BY <1>5, <1>6 DEF Completion
  <2> QED
    BY <2>1, <1>1 DEF IInv, Once
<1>15. UnderWay'
  BY <1>1, <1>6 DEF IInv, UnderWay, Completes
<1>16. RepliesBounded'
  <2>1. AtMost(r) >= 0
    BY DEF AtMost
  <2>2. \A d \in Issued' : replied'[d] <= AtMost(request'[d])
    BY <2>1, <1>1, <1>4, <1>7 DEF IInv, RepliesBounded, Issued
  <2> QED
    BY <2>2 DEF RepliesBounded, Issued
<1>17. DeathHasCause'
  BY <1>1 DEF DeathHasCause
<1> QED
  BY <1>8, <1>9, <1>10, <1>11, <1>12, <1>13, <1>14, <1>15, <1>16, <1>17 DEF IInv

(* The daemon takes the head of outgoing.                                  *)
LEMMA RouteEffect ==
  ASSUME TypeOK, outgoing # <<>>, outgoing' = Tail(outgoing)
  PROVE  /\ 1 \in DOMAIN outgoing /\ outgoing[1] = Head(outgoing) /\ outgoing[1] \in Messages
         /\ outgoing' \in Seq(Messages)
         /\ \A i \in DOMAIN outgoing' : i + 1 \in DOMAIN outgoing /\ outgoing'[i] = outgoing[i + 1]
                                        /\ i + 1 # 1
         /\ \A i \in DOMAIN outgoing :
              i # 1 => i - 1 \in DOMAIN outgoing' /\ outgoing'[i - 1] = outgoing[i]
BY DEF TypeOK

(* Messages that complete pending calls are handed on, and then there are  *)
(* as many as before. All others never were such messages.                 *)
LEMMA RouteKeepsInbox ==
  ASSUME IInv, BusRoutes, NEW n \in Messages, inbox' = Append(inbox, n), state = "running",
         Completion(Head(outgoing)), n.call = Head(outgoing).call, UNCHANGED answer,
         \/ n.kind = "hello" /\ n.with = "none"
         \/ n.kind = "result" /\ (n.with = "empty" \/ (n.with = "error" /\ ~ownName))
  PROVE  InboxKnown' /\ Once' /\ UnderWay'
<1>1. /\ outgoing # <<>> /\ outgoing' = Tail(outgoing)
      /\ UNCHANGED <<ownName, state, request, pcalls, replied>>
  BY DEF BusRoutes
<1>2. /\ 1 \in DOMAIN outgoing /\ outgoing[1] = Head(outgoing)
      /\ \A i \in DOMAIN outgoing' : i + 1 \in DOMAIN outgoing /\ outgoing'[i] = outgoing[i + 1]
                                     /\ i + 1 # 1
      /\ \A i \in DOMAIN outgoing :
           i # 1 => i - 1 \in DOMAIN outgoing' /\ outgoing'[i - 1] = outgoing[i]
  BY <1>1, RouteEffect DEF IInv
<1>3. /\ Len(inbox) + 1 \in DOMAIN inbox' /\ inbox'[Len(inbox) + 1] = n
      /\ \A i \in DOMAIN inbox : i \in DOMAIN inbox' /\ inbox'[i] = inbox[i] /\ i < Len(inbox) + 1
      /\ \A i \in DOMAIN inbox' : i \in DOMAIN inbox \/ i = Len(inbox) + 1
  BY AppendReceives DEF IInv
<1>4. n.call = outgoing[1].call /\ n.kind # "call" /\ Completion(n) /\ Completion(outgoing[1])
  BY <1>2 DEF Completion
<1>5. n.call \in Issued /\ n.call \in pcalls
  BY <1>2, <1>4 DEF IInv, OutgoingKnown, Once
<1>6. InboxKnown'
  <2>1. ASSUME NEW i \in DOMAIN inbox'
        PROVE  /\ inbox'[i].kind \in {"call", "hello", "result"}
               /\ inbox'[i].call \in Issued
               /\ inbox'[i].kind = "call" => inbox'[i].call \notin pcalls /\ replied[inbox'[i].call] = 0
               /\ inbox'[i].kind = "hello" => inbox'[i].with = "none"
               /\ inbox'[i].kind = "result" => \/ inbox'[i].with = "empty"
                                               \/ inbox'[i].with = "error" /\ ~ownName
    <3>1. CASE i \in DOMAIN inbox
      BY <3>1, <1>3 DEF IInv, InboxKnown
    <3>2. CASE i = Len(inbox) + 1
      BY <3>2, <1>3, <1>5
    <3> QED
      BY <3>1, <3>2, <1>3
  <2>2. \A i \in DOMAIN inbox' : inbox'[i].kind = "call" => i \in DOMAIN inbox /\ inbox'[i] = inbox[i]
    BY <1>3, <1>4
  <2> QED
    BY <2>1, <2>2, <1>1 DEF IInv, InboxKnown, Issued
<1>7. Once'
  <2>1. ASSUME NEW i \in DOMAIN inbox', Completion(inbox'[i])
        PROVE  inbox'[i].call \in pcalls
    BY <2>1, <1>3, <1>5 DEF IInv, Once
  <2>2. ASSUME NEW i \in DOMAIN outgoing', Completion(outgoing'[i])
        PROVE  outgoing'[i].call \in pcalls /\ outgoing'[i].call # n.call
    BY <2>2, <1>2, <1>4 DEF IInv, Once
  <2>3. ASSUME NEW i \in DOMAIN inbox', NEW j \in DOMAIN inbox',
               Completion(inbox'[i]), Completion(inbox'[j]), inbox'[i].call = inbox'[j].call
        PROVE  i = j
    <3>1. \A k \in DOMAIN inbox : Completion(inbox[k]) => inbox[k].call # n.call
      BY <1>2, <1>4 DEF IInv, Once
    <3>2. CASE i \in DOMAIN inbox /\ j \in DOMAIN inbox
      BY <2>3, <3>2, <1>3 DEF IInv, Once
    <3>3. CASE i \in DOMAIN inbox /\ j = Len(inbox) + 1
      BY <2>3, <3>1, <3>3, <1>3
    <3>4. CASE i = Len(inbox) + 1 /\ j \in DOMAIN inbox
      BY <2>3, <3>1, <3>4, <1>3
    <3> QED
      BY <3>2, <3>3, <3>4, <1>3
  <2>4. ASSUME NEW i \in DOMAIN outgoing', NEW j \in DOMAIN outgoing',
               Completion(outgoing'[i]), Completion(outgoing'[j]),
               outgoing'[i].call = outgoing'[j].call
        PROVE  i = j
    <3>1. i + 1 = j + 1
      BY <2>4, <1>2 DEF IInv, Once
    <3>2. outgoing' \in Seq(Messages)
      BY <1>1, RouteEffect DEF IInv
    <3> QED
      BY <3>1, <3>2
  <2>5. ASSUME NEW i \in DOMAIN inbox', NEW j \in DOMAIN outgoing',
               Completion(inbox'[i]), Completion(outgoing'[j])
        PROVE  inbox'[i].call # outgoing'[j].call
    <3>1. CASE i \in DOMAIN inbox
      BY <2>5, <3>1, <1>2, <1>3 DEF IInv, Once
    <3>2. CASE i = Len(inbox) + 1
      BY <2>2, <2>5, <3>2, <1>3
    <3> QED
      BY <3>1, <3>2, <1>3
  <2> QED
    BY <2>1, <2>2, <2>3, <2>4, <2>5, <1>1 DEF Once, Completion
<1>8. UnderWay'
  <2> SUFFICES ASSUME NEW d \in pcalls
               PROVE  \/ \E i \in DOMAIN inbox' : Completes(inbox'[i], d)
                      \/ \E i \in DOMAIN outgoing' : Completes(outgoing'[i], d)
    BY <1>1 DEF UnderWay, Completes
  <2>1. CASE \E i \in DOMAIN inbox : Completes(inbox[i], d)
    BY <2>1, <1>3
  <2>2. CASE \E i \in DOMAIN outgoing : Completes(outgoing[i], d)
    <3>1. PICK i \in DOMAIN outgoing : Completes(outgoing[i], d)
      BY <2>2
    <3>2. CASE i = 1
      <4>1. Completes(n, d)
        BY <3>1, <3>2, <1>4 DEF Completes, Completion
      <4> QED
        BY <4>1, <1>3
    <3>3. CASE i # 1
      BY <3>1, <3>3, <1>2
    <3> QED
      BY <3>2, <3>3
  <2> QED
    BY <2>1, <2>2 DEF IInv, UnderWay
<1> QED
  BY <1>6, <1>7, <1>8

LEMMA RouteKeeps == ASSUME IInv, BusRoutes PROVE IInv'
<1> DEFINE m == Head(outgoing)
<1>1. /\ outgoing # <<>> /\ outgoing' = Tail(outgoing)
      /\ UNCHANGED <<ownName, state, request, pcalls, replied>>
      /\ Issued' = Issued
  BY DEF BusRoutes, Issued
<1>2. /\ 1 \in DOMAIN outgoing /\ outgoing[1] = m /\ m \in Messages
      /\ outgoing' \in Seq(Messages)
      /\ \A i \in DOMAIN outgoing' : i + 1 \in DOMAIN outgoing /\ outgoing'[i] = outgoing[i + 1]
                                     /\ i + 1 # 1
      /\ \A i \in DOMAIN outgoing :
           i # 1 => i - 1 \in DOMAIN outgoing' /\ outgoing'[i - 1] = outgoing[i]
  BY <1>1, RouteEffect DEF IInv
<1>3. /\ m.kind \in {"hello", "result", "reply", "Foo"} /\ m.call \in Issued
      /\ (m.kind = "hello" => m.with = "none") /\ (m.kind = "result" => m.with = "empty")
      /\ m.kind = "reply" => m.with = Due(request[m.call])
  BY <1>2 DEF IInv, OutgoingKnown
<1>4. m.call \in Calls /\ m.with \in Replies \cup {"none"}
  BY <1>2 DEF Messages
<1> HIDE DEF m
<1>5. RequestsKnown' /\ PendingKnown' /\ RepliesBounded' /\ DeathHasCause'
  BY <1>1 DEF IInv, RequestsKnown, PendingKnown, RepliesBounded, DeathHasCause, Delayed
<1>6. OutgoingKnown'
  BY <1>1, <1>2 DEF IInv, OutgoingKnown
<1>7. ASSUME UNCHANGED inbox, ~(Completion(m) /\ state = "running")
      PROVE  InboxKnown' /\ Once' /\ UnderWay'
  <2>1. InboxKnown'
    BY <1>1, <1>7 DEF IInv, InboxKnown
  <2>2. Once'
    <3>1. ASSUME NEW i \in DOMAIN outgoing', Completion(outgoing'[i])
          PROVE  outgoing'[i].call \in pcalls
      BY <3>1, <1>2 DEF IInv, Once
    <3>2. ASSUME NEW i \in DOMAIN outgoing', NEW j \in DOMAIN outgoing',
                 Completion(outgoing'[i]), Completion(outgoing'[j]),
                 outgoing'[i].call = outgoing'[j].call
          PROVE  i = j
      <4>1. i + 1 = j + 1
        BY <3>2, <1>2 DEF IInv, Once
      <4> QED
        BY <4>1, <1>2
    <3>3. ASSUME NEW i \in DOMAIN inbox', NEW j \in DOMAIN outgoing',
                 Completion(inbox'[i]), Completion(outgoing'[j])
          PROVE  inbox'[i].call # outgoing'[j].call
      BY <3>3, <1>2, <1>7 DEF IInv, Once
    <3> QED
      BY <3>1, <3>2, <3>3, <1>1, <1>7 DEF IInv, Once, Completion
  <2>3. UnderWay'
    <3> SUFFICES ASSUME state = "running", NEW d \in pcalls
                 PROVE  \/ \E i \in DOMAIN inbox : Completes(inbox[i], d)
                        \/ \E i \in DOMAIN outgoing' : Completes(outgoing'[i], d)
      BY <1>1, <1>7 DEF UnderWay, Completes
    <3>1. ASSUME NEW i \in DOMAIN outgoing, Completes(outgoing[i], d)
          PROVE  i # 1
      BY <3>1, <1>2, <1>7 DEF Completes, Completion
    <3> QED
      BY <3>1, <1>2 DEF IInv, UnderWay
  <2> QED
    BY <2>1, <2>2, <2>3
<1>8. CASE m.kind = "reply"
  <2>1. /\ answer' = [answer EXCEPT ![m.call] = IF @ = "none" THEN m.with ELSE @]
        /\ UNCHANGED inbox
    BY <1>8 DEF BusRoutes, m
  <2>2. m.with # "none" /\ m.with = Due(request[m.call])
    BY <1>3, <1>8 DEF Due
  <2>3. TypeOK'
    BY <1>1, <1>2, <1>4, <2>1 DEF IInv, TypeOK
  <2>4. AnswersKnown'
    BY <1>1, <1>3, <2>1, <2>2 DEF IInv, AnswersKnown, TypeOK
  <2> QED
    BY <1>5, <1>6, <1>7, <1>8, <2>1, <2>3, <2>4 DEF IInv, Completion
<1>9. CASE m.kind # "reply"
  <2>1. UNCHANGED answer
    BY <1>9 DEF BusRoutes, m
  <2>2. AnswersKnown'
    BY <1>1, <2>1 DEF IInv, AnswersKnown
  <2>3. ASSUME NEW n \in Messages, inbox' = Append(inbox, n), state = "running", Completion(m),
               n.call = m.call,
               \/ n.kind = "hello" /\ n.with = "none"
               \/ n.kind = "result" /\ (n.with = "empty" \/ (n.with = "error" /\ ~ownName))
        PROVE  IInv'
    <3>1. InboxKnown' /\ Once' /\ UnderWay'
      BY <2>1, <2>3, RouteKeepsInbox DEF m
    <3>2. TypeOK'
      BY <1>1, <1>2, <2>1, <2>3 DEF IInv, TypeOK
    <3> QED
      BY <1>5, <1>6, <2>2, <3>1, <3>2 DEF IInv
  <2>4. ASSUME UNCHANGED inbox, ~(Completion(m) /\ state = "running")
        PROVE  IInv'
    <3>1. TypeOK'
      BY <1>1, <1>2, <2>1, <2>4 DEF IInv, TypeOK
    <3> QED
      BY <1>5, <1>6, <1>7, <2>2, <2>4, <3>1 DEF IInv
  <2>5. CASE m.kind = "hello"
    <3> DEFINE n == IF ownName THEN m ELSE Message("result", m.call, "error")
    <3>1. Deliver(n)
      BY <2>5 DEF BusRoutes, m
    <3>2. n \in Messages /\ n.call = m.call
          /\ \/ n.kind = "hello" /\ n.with = "none"
             \/ n.kind = "result" /\ n.with = "error" /\ ~ownName
      BY <1>2, <1>3, <1>4, <2>5 DEF Message, Messages, Replies
    <3> HIDE DEF n
    <3> QED
      BY <2>3, <2>4, <2>5, <3>1, <3>2 DEF Deliver, Completion
  <2>6. CASE m.kind = "result"
    <3>1. Deliver(m)
      BY <2>6 DEF BusRoutes, m
    <3>2. m.with = "empty" /\ Completion(m)
      BY <1>3, <2>6 DEF Completion
    <3>3. IF state = "running" THEN inbox' = Append(inbox, m) ELSE inbox' = inbox
      BY <3>1 DEF Deliver
    <3> QED
      BY <1>2, <2>3, <2>4, <2>6, <3>2, <3>3
  <2>7. CASE m.kind = "Foo"
    BY <2>4, <2>7 DEF BusRoutes, m, Completion
  <2> QED
    BY <1>3, <1>9, <2>5, <2>6, <2>7
<1> QED
  BY <1>8, <1>9

(* The daemon's own answers come when the service has gone.                *)
LEMMA NoReplyKeeps == ASSUME IInv, BusNoReply PROVE IInv'
<1>1. /\ answer' = [c \in Calls |-> IF c <= Len(request) /\ answer[c] = "none"
                                    THEN "NoReply" ELSE answer[c]]
      /\ UNCHANGED <<ownName, state, request, inbox, outgoing, pcalls, replied>>
      /\ Issued' = Issued
  BY DEF BusNoReply, Issued
<1>2. TypeOK'
  BY <1>1 DEF IInv, TypeOK, Replies
<1>3. AnswersKnown'
  BY <1>1, EchoAssumption DEF IInv, AnswersKnown, Calls, Issued, TypeOK
<1> QED
  BY <1>1, <1>2, <1>3
  DEF IInv, RequestsKnown, InboxKnown, OutgoingKnown, PendingKnown, Once, UnderWay,
      RepliesBounded, DeathHasCause, Delayed, Completion, Completes

(* The inductive invariant: what is known of each call wherever it is.     *)
THEOREM Inductive == Spec => []IInv
<1>1. Init => IInv
  BY EchoAssumption
  DEF Init, IInv, TypeOK, RequestsKnown, InboxKnown, OutgoingKnown, PendingKnown, AnswersKnown,
      Once, UnderWay, RepliesBounded, DeathHasCause, Issued, Calls
<1>2. IInv /\ [Next]_vars => IInv'
  <2> SUFFICES ASSUME IInv, [Next]_vars PROVE IInv'
    OBVIOUS
  <2>1. CASE UNCHANGED vars
    BY <2>1
    DEF vars, IInv, TypeOK, RequestsKnown, InboxKnown, OutgoingKnown, PendingKnown, AnswersKnown,
        Once, UnderWay, RepliesBounded, DeathHasCause, Delayed, Completion, Completes, Issued
  <2> QED
    BY <2>1, ClientKeeps, DispatchHandled, HandledKeeps, RouteKeeps, NoReplyKeeps DEF Next
<1> QED
  BY <1>1, <1>2, PTL DEF Spec

(* For any number of calls, each pending call is completed by exactly one  *)
(* message under way, and nothing completes what is not pending.           *)
THEOREM CallsAlwaysTracked == Spec => []CallsTracked
<1>1. IInv => CallsTracked
  <2> SUFFICES ASSUME IInv, state = "running", NEW c \in Calls
               PROVE  Cardinality(Completing(inbox, c)) + Cardinality(Completing(outgoing, c)) =
                        IF c \in pcalls THEN 1 ELSE 0
    BY DEF IInv, CallsTracked, PendingTracked
  <2>1. CASE c \notin pcalls
    <3>1. Completing(inbox, c) = {} /\ Completing(outgoing, c) = {}
      BY <2>1 DEF IInv, Once, Completion, Completing, Completes
    <3> QED
      BY <2>1, <3>1, FS_EmptySet
  <2>2. ASSUME c \in pcalls, NEW i \in DOMAIN inbox, Completes(inbox[i], c)
        PROVE  Completing(inbox, c) = {i} /\ Completing(outgoing, c) = {}
    BY <2>2 DEF IInv, Once, Completion, Completing, Completes
  <2>3. ASSUME c \in pcalls, NEW i \in DOMAIN outgoing, Completes(outgoing[i], c)
        PROVE  Completing(inbox, c) = {} /\ Completing(outgoing, c) = {i}
    BY <2>3 DEF IInv, Once, Completion, Completing, Completes
  <2>4. CASE c \in pcalls
    <3>1. \/ \E i : Completing(inbox, c) = {i} /\ Completing(outgoing, c) = {}
          \/ \E i : Completing(inbox, c) = {} /\ Completing(outgoing, c) = {i}
      BY <2>2, <2>3, <2>4 DEF IInv, UnderWay
    <3>2. Cardinality({}) = 0 /\ \A i : Cardinality({i}) = 1
      BY FS_EmptySet, FS_Singleton
    <3> QED
      BY <2>4, <3>1, <3>2
  <2> QED
    BY <2>1, <2>4
<1> QED
  BY <1>1, Inductive, PTL

(* Every client gets what fits its call, and no more replies than that.    *)
THEOREM AnswersAlwaysRight == Spec => []AnswersRight
<1>1. IInv => AnswersRight
  BY DEF IInv, AnswersKnown, AnswersRight, AnswerFits
<1> QED
  BY <1>1, Inductive, PTL

(* Only a delayed call to a service under another name ends it.            *)
THEOREM DeathsHaveCauses == Spec => []DeathHasCause
<1>1. IInv => DeathHasCause
  BY DEF IInv
<1> QED
  BY <1>1, Inductive, PTL

-----------------------------------------------------------------------------
(* The order of answers. A call that is still in the inbox is younger than *)
(* all that anything has been done for.                                    *)
QueueYoungest ==
  \A i \in DOMAIN inbox : inbox[i].kind = "call" =>
    \A d \in Calls : d >= inbox[i].call => d \notin pcalls /\ replied[d] = 0

(* A pending call has four stages: HelloFromSelf sent, HelloFromSelf       *)
(* received, its reply sent, its reply received. No older call is at an    *)
(* earlier stage than a younger one, or behind it at the same. Under a     *)
(* name that is not its own the service gets an error at once.             *)
InLine(q) ==
  \A i, j \in DOMAIN q : Completion(q[i]) /\ Completion(q[j]) /\ q[i].call < q[j].call =>
    IF q[i].kind = q[j].kind THEN i < j ELSE q[i].kind = "result"
StagesInOrder ==
  /\ InLine(inbox) /\ InLine(outgoing)
  /\ \A i \in DOMAIN inbox, j \in DOMAIN outgoing :
       Completion(inbox[i]) /\ Completion(outgoing[j]) =>
         IF inbox[i].call < outgoing[j].call
         THEN inbox[i].kind = "result" \/ outgoing[j].kind = "hello"
         ELSE outgoing[j].kind = "result" /\ inbox[i].kind = "hello"
  /\ \A i \in DOMAIN inbox : inbox[i].kind = "hello" => ownName
  /\ \A i \in DOMAIN outgoing : outgoing[i].kind = "result" => ownName

Answered(c) == answer[c] \notin {"none", "NoReply"}

(* Only what has been replied to is answered, and the daemon itself        *)
(* answers only when no more replies come.                                 *)
RepliesKnown ==
  /\ \A i \in DOMAIN outgoing : outgoing[i].kind = "reply" => replied[outgoing[i].call] > 0
  /\ \A c \in Calls : Answered(c) => replied[c] > 0
  /\ \A c \in Calls : answer[c] = "NoReply" => state # "running" /\ outgoing = <<>>

(* No call is lost while the service runs.                                 *)
NoneLost ==
  state = "running" => \A c \in Calls : Answerable(c) =>
    \/ c \in pcalls \/ Answered(c)
    \/ \E i \in DOMAIN inbox : inbox[i].kind = "call" /\ inbox[i].call = c
    \/ \E i \in DOMAIN outgoing : IsReply(outgoing[i], c)

(* Replies leave in the order of their calls.                              *)
Before(c, d) == c < d /\ Answerable(c) /\ d \in Issued /\ (Delayed(c) <=> Delayed(d))
RepliesInOrder ==
  /\ \A j \in DOMAIN outgoing, c \in Calls :
       outgoing[j].kind = "reply" /\ Before(c, outgoing[j].call) =>
         Answered(c) \/ \E i \in DOMAIN outgoing : i < j /\ IsReply(outgoing[i], c)
  /\ \A c, d \in Calls : Before(c, d) /\ Answered(d) => Answered(c)

Order == QueueYoungest /\ StagesInOrder /\ RepliesKnown /\ NoneLost /\ RepliesInOrder


(* A handler keeps the order: it moves the oldest call of its stage on.    *)
LEMMA HandledOrders == ASSUME IInv, Order, NEW c \in Calls, Handled(c), Forward(c) PROVE Order'
<1> USE DEF Completion
<1>1. /\ state = "running" /\ 1 \in DOMAIN inbox /\ inbox[1].call = c
      /\ inbox' \in Seq(Messages)
      /\ \A i \in DOMAIN inbox' : i + 1 \in DOMAIN inbox /\ inbox'[i] = inbox[i + 1]
      /\ \A i \in DOMAIN inbox : i # 1 => i - 1 \in DOMAIN inbox' /\ inbox'[i - 1] = inbox[i]
  BY TakeEffect DEF Handled, Forward, IInv
<1>2. \A i \in DOMAIN inbox' : i \in Nat /\ 1 < i + 1 /\ 1 # i + 1
  BY <1>1
<1>3. /\ ownName' = ownName /\ request' = request /\ answer' = answer /\ Issued' = Issued
      /\ c \in Issued
  BY <1>1 DEF Handled, IInv, InboxKnown, Issued
<1>4. /\ inbox \in Seq(Messages) /\ outgoing \in Seq(Messages) /\ outgoing' \in Seq(Messages)
      /\ replied \in [Calls -> Nat] /\ replied' \in [Calls -> Nat]
  BY DEF Handled, IInv, TypeOK
<1>5. \A i \in DOMAIN outgoing, j \in DOMAIN outgoing' :
        j \notin DOMAIN outgoing => i < j /\ i \in DOMAIN outgoing'
  BY <1>4
<1>6. \A i, j \in DOMAIN outgoing' : i < j /\ j \in DOMAIN outgoing => i \in DOMAIN outgoing
  BY <1>4
<1>7. /\ inbox[1].kind \in {"call", "hello", "result"}
      /\ inbox[1].kind = "call" => \A d \in Calls : d >= c => d \notin pcalls
      /\ inbox[1].kind # "call" => c \in pcalls
  BY <1>1 DEF IInv, InboxKnown, Once, Order, QueueYoungest
<1>8. \A i \in DOMAIN outgoing' : i \notin DOMAIN outgoing =>
        /\ outgoing'[i].call = c
        /\ outgoing'[i].kind = "hello" => inbox[1].kind = "call"
        /\ outgoing'[i].kind = "result" => inbox[1].kind = "hello"
        /\ outgoing'[i].kind = "reply" =>
             replied'[c] > 0 /\ inbox[1].kind = IF Delayed(c) THEN "result" ELSE "call"
  BY DEF Handled, Forward, Fits
<1>9. \A i \in DOMAIN outgoing' : i \in DOMAIN outgoing => outgoing'[i] = outgoing[i]
  BY DEF Handled
<1>10. /\ \A d \in Calls : d # c => (d \in pcalls' <=> d \in pcalls) /\ replied'[d] = replied[d]
       /\ \A d \in Calls : replied'[d] >= replied[d]
  <2>1. \A d \in Calls : d # c => (d \in pcalls' <=> d \in pcalls) /\ replied'[d] = replied[d]
    BY DEF Handled
  <2>2. replied'[c] >= replied[c]
    BY DEF Forward
  <2>3. \A d \in Calls : replied[d] \in Nat
    BY <1>4
  <2> QED
    BY <2>1, <2>2, <2>3
<1>11. \A d \in Calls : d \in Nat
  BY EchoAssumption DEF Calls
<1>12. QueueYoungest'
  <2> SUFFICES ASSUME NEW i \in DOMAIN inbox', inbox'[i].kind = "call",
                      NEW d \in Calls, d >= inbox'[i].call
               PROVE  d \notin pcalls' /\ replied'[d] = 0
    BY DEF QueueYoungest
  <2>1. i + 1 \in DOMAIN inbox /\ inbox'[i] = inbox[i + 1] /\ 1 < i + 1
    BY <1>1, <1>2
  <2>2. d \notin pcalls /\ replied[d] = 0
    BY <2>1 DEF Order, QueueYoungest
  <2>3. d # c
    <3>1. inbox[1].kind = "call" => c < inbox[i + 1].call
      BY <2>1, <1>1 DEF IInv, InboxKnown
    <3>2. inbox[i + 1].call \in Calls
      <4>1. inbox[i + 1] \in Messages
        BY <2>1, <1>4
      <4> QED
        BY <4>1 DEF Messages
    <3> QED
      BY <2>1, <2>2, <3>1, <3>2, <1>7, <1>11
  <2> QED
    BY <2>2, <2>3, <1>10
<1>13. StagesInOrder'
  <2>1. InLine(inbox')
    <3> SUFFICES ASSUME NEW i \in DOMAIN inbox', NEW j \in DOMAIN inbox',
                        Completion(inbox'[i]), Completion(inbox'[j]), inbox'[i].call < inbox'[j].call
                 PROVE  IF inbox'[i].kind = inbox'[j].kind THEN i < j ELSE inbox'[i].kind = "result"
      BY DEF InLine
    <3>1. IF inbox[i + 1].kind = inbox[j + 1].kind THEN i + 1 < j + 1 ELSE inbox[i + 1].kind = "result"
      BY <1>1 DEF Order, StagesInOrder, InLine
    <3> QED
      BY <3>1, <1>1, <1>2
  <2>2. InLine(outgoing')
    <3> SUFFICES ASSUME NEW i \in DOMAIN outgoing', NEW j \in DOMAIN outgoing',
                        Completion(outgoing'[i]), Completion(outgoing'[j]),
                        outgoing'[i].call < outgoing'[j].call
                 PROVE  IF outgoing'[i].kind = outgoing'[j].kind THEN i < j
                        ELSE outgoing'[i].kind = "result"
      BY DEF InLine
    <3>1. CASE i \in DOMAIN outgoing /\ j \in DOMAIN outgoing
      BY <3>1, <1>9 DEF Order, StagesInOrder, InLine
    <3>2. CASE i \notin DOMAIN outgoing /\ j \notin DOMAIN outgoing
      BY <3>2, <1>8, <1>11
    <3>3. CASE i \in DOMAIN outgoing /\ j \notin DOMAIN outgoing
      <4>1. i < j /\ outgoing'[i] = outgoing[i] /\ outgoing'[j].call = c
        BY <3>3, <1>5, <1>8, <1>9
      <4>2. outgoing'[j].kind = "result" => outgoing[i].kind = "result"
        <5>1. inbox[1].kind = "hello" /\ outgoing[i].call < c => outgoing[i].kind = "result"
          <6>1. outgoing[i].call \in Calls
            <7>1. outgoing[i] \in Messages
              BY <3>3, <1>4
            <7> QED
              BY <7>1 DEF Messages
          <6>2. outgoing[i].call < c => ~(c < outgoing[i].call)
            BY <6>1, <1>11
          <6> QED
            BY <6>2, <3>3, <4>1, <1>1 DEF Order, StagesInOrder
        <5> QED
          BY <5>1, <3>3, <4>1, <1>8
      <4> QED
        BY <4>1, <4>2
    <3>4. CASE i \notin DOMAIN outgoing /\ j \in DOMAIN outgoing
      <4>1. outgoing'[j] = outgoing[j] /\ outgoing'[i].call = c /\ c < outgoing[j].call
        BY <3>4, <1>8, <1>9
      <4>2. outgoing[j].call \in pcalls /\ pcalls \in SUBSET Calls
        BY <3>4, <4>1 DEF IInv, Once, TypeOK
      <4>3. outgoing'[i].kind # "hello"
        BY <3>4, <4>1, <4>2, <1>7, <1>8, <1>11
      <4>4. outgoing'[i].kind = "result" /\ inbox[1].kind = "hello"
        BY <3>4, <4>3, <1>8
      <4>5. outgoing[j].kind = "hello"
        BY <3>4, <4>1, <4>4, <1>1 DEF Order, StagesInOrder
      <4> QED
        BY <4>1, <4>4, <4>5
    <3> QED
      BY <3>1, <3>2, <3>3, <3>4
  <2>3. ASSUME NEW i \in DOMAIN inbox', NEW j \in DOMAIN outgoing',
               Completion(inbox'[i]), Completion(outgoing'[j])
        PROVE  IF inbox'[i].call < outgoing'[j].call
               THEN inbox'[i].kind = "result" \/ outgoing'[j].kind = "hello"
               ELSE outgoing'[j].kind = "result" /\ inbox'[i].kind = "hello"
    <3>1. i + 1 \in DOMAIN inbox /\ inbox'[i] = inbox[i + 1] /\ 1 < i + 1
      BY <1>1, <1>2
    <3>2. CASE j \in DOMAIN outgoing
      BY <2>3, <3>1, <3>2, <1>9 DEF Order, StagesInOrder
    <3>3. CASE j \notin DOMAIN outgoing
      <4>1. outgoing'[j].call = c /\ inbox[i + 1].call \in pcalls /\ inbox[i + 1].call \in Calls
        BY <2>3, <3>1, <3>3, <1>8 DEF IInv, Once, TypeOK
      <4>2. inbox[i + 1].call # c
        <5>1. c >= c
          BY <1>11
        <5> QED
          BY <2>3, <3>1, <4>1, <5>1, <1>1, <1>2, <1>7 DEF IInv, Once
      <4>3. CASE outgoing'[j].kind = "hello"
        <5>1. inbox[i + 1].call < c
          BY <3>3, <4>1, <4>2, <4>3, <1>7, <1>8, <1>11
        <5> QED
          BY <3>1, <4>1, <4>3, <5>1
      <4>4. CASE outgoing'[j].kind = "result"
        <5>1. inbox[1].kind = "hello"
          BY <3>3, <4>4, <1>8
        <5>2. ~(i + 1 < 1)
          BY <1>2
        <5>3. inbox[i + 1].call < c => inbox[i + 1].kind = "result"
          BY <2>3, <3>1, <5>1, <5>2, <1>1 DEF Order, StagesInOrder, InLine
        <5>4. c < inbox[i + 1].call => inbox[i + 1].kind = "hello"
          BY <2>3, <3>1, <5>1, <1>1 DEF Order, StagesInOrder, InLine
        <5>5. inbox[i + 1].call < c \/ (c < inbox[i + 1].call /\ ~(inbox[i + 1].call < c))
          BY <4>1, <4>2, <1>11
        <5> QED
          BY <3>1, <4>1, <4>4, <5>3, <5>4, <5>5
      <4> QED
        BY <2>3, <4>3, <4>4
    <3> QED
      BY <3>2, <3>3
  <2>4. \A i \in DOMAIN inbox' : inbox'[i].kind = "hello" => ownName
    BY <1>1 DEF Order, StagesInOrder
  <2>5. ASSUME NEW i \in DOMAIN outgoing', outgoing'[i].kind = "result" PROVE ownName
    BY <2>5, <1>1, <1>8, <1>9 DEF Order, StagesInOrder
  <2> QED
    BY <2>1, <2>2, <2>3, <2>4, <2>5, <1>3 DEF StagesInOrder, InLine
<1>14. RepliesKnown'
  <2>1. ASSUME NEW i \in DOMAIN outgoing', outgoing'[i].kind = "reply"
        PROVE  replied'[outgoing'[i].call] > 0
    <3>1. CASE i \in DOMAIN outgoing
      <4>1. outgoing'[i] = outgoing[i] /\ replied[outgoing[i].call] > 0
        BY <2>1, <3>1, <1>9 DEF Order, RepliesKnown
      <4>2. outgoing[i].call \in Calls
        <5>1. outgoing[i] \in Messages
          BY <3>1, <1>4
        <5> QED
          BY <5>1 DEF Messages
      <4> QED
        BY <4>1, <4>2, <1>4, <1>10
    <3>2. CASE i \notin DOMAIN outgoing
      BY <2>1, <3>2, <1>8
    <3> QED
      BY <3>1, <3>2
  <2>2. ASSUME NEW d \in Calls, Answered(d) PROVE replied'[d] > 0
    BY <2>2, <1>4, <1>10 DEF Order, RepliesKnown
  <2>3. \A d \in Calls : answer[d] # "NoReply"
    BY <1>1 DEF Order, RepliesKnown
  <2> QED
    BY <2>1, <2>2, <2>3, <1>3 DEF RepliesKnown, Answered
<1>15. NoneLost'
  <2> SUFFICES ASSUME state' = "running", NEW d \in Calls, Answerable(d)
               PROVE  \/ d \in pcalls' \/ Answered(d)
                      \/ \E i \in DOMAIN inbox' : inbox'[i].kind = "call" /\ inbox'[i].call = d
                      \/ \E i \in DOMAIN outgoing' : IsReply(outgoing'[i], d)
    BY <1>3 DEF NoneLost, Answerable, Answered, IsReply
  <2>1. CASE d = c
    BY <2>1 DEF Forward
  <2>2. CASE d # c
    <3>1. \/ d \in pcalls \/ Answered(d)
          \/ \E i \in DOMAIN inbox : inbox[i].kind = "call" /\ inbox[i].call = d
          \/ \E i \in DOMAIN outgoing : IsReply(outgoing[i], d)
      BY <1>1 DEF Order, NoneLost
    <3>2. ASSUME NEW i \in DOMAIN inbox, inbox[i].kind = "call", inbox[i].call = d
          PROVE  \E k \in DOMAIN inbox' : inbox'[k].kind = "call" /\ inbox'[k].call = d
      BY <3>2, <2>2, <1>1
    <3>3. \A i \in DOMAIN outgoing : i \in DOMAIN outgoing' /\ outgoing'[i] = outgoing[i]
      BY DEF Handled
    <3> QED
      BY <2>2, <3>1, <3>2, <3>3, <1>10
  <2> QED
    BY <2>1, <2>2
<1>16. RepliesInOrder'
  <2>1. ASSUME NEW j \in DOMAIN outgoing', NEW e \in Calls,
               outgoing'[j].kind = "reply", Before(e, outgoing'[j].call)
        PROVE  Answered(e) \/ \E i \in DOMAIN outgoing' : i < j /\ IsReply(outgoing'[i], e)
    <3>1. CASE j \in DOMAIN outgoing
      <4>1. Answered(e) \/ \E i \in DOMAIN outgoing : i < j /\ IsReply(outgoing[i], e)
        BY <2>1, <3>1, <1>9 DEF Order, RepliesInOrder
      <4>2. \A i \in DOMAIN outgoing : i < j => i \in DOMAIN outgoing'
        BY <1>4
      <4> QED
        BY <4>1, <4>2, <1>9
    <3>2. CASE j \notin DOMAIN outgoing
      <4>1. /\ outgoing'[j].call = c /\ e < c /\ Answerable(e) /\ (Delayed(e) <=> Delayed(c))
            /\ inbox[1].kind = IF Delayed(c) THEN "result" ELSE "call"
        BY <2>1, <3>2, <1>8 DEF Before
      <4>2. ~(c < e) /\ c # e /\ c >= e
        BY <4>1, <1>11
      <4>3. e \notin pcalls
        <5> SUFFICES ASSUME e \in pcalls PROVE FALSE
          OBVIOUS
        <5>1. inbox[1].kind = "result"
          BY <4>1 DEF IInv, PendingKnown
        <5>2. ASSUME NEW i \in DOMAIN inbox, Completes(inbox[i], e) PROVE FALSE
          <6>1. IF inbox[i].kind = inbox[1].kind THEN i < 1 ELSE inbox[i].kind = "result"
            BY <4>1, <5>1, <5>2, <1>1 DEF Order, StagesInOrder, InLine, Completes
          <6>2. ~(i < 1)
            BY <1>4
          <6> QED
            BY <5>1, <6>1, <6>2
        <5>3. ASSUME NEW i \in DOMAIN outgoing, Completes(outgoing[i], e) PROVE FALSE
          BY <4>2, <5>1, <5>3, <1>1 DEF Order, StagesInOrder, Completes
        <5> QED
          BY <5>2, <5>3, <1>1 DEF IInv, UnderWay
      <4>4. ASSUME NEW i \in DOMAIN inbox, inbox[i].kind = "call", inbox[i].call = e PROVE FALSE
        <5>1. CASE inbox[1].kind = "call"
          <6>1. i # 1
            BY <4>2, <4>4, <1>1
          <6>2. 1 < i
            BY <6>1, <1>4
          <6>3. c < e
            BY <4>4, <5>1, <6>2, <1>1 DEF IInv, InboxKnown
          <6> QED
            BY <4>2, <6>3
        <5>2. CASE inbox[1].kind # "call"
          BY <4>2, <4>4, <5>2, <1>7 DEF Order, QueueYoungest
        <5> QED
          BY <5>1, <5>2
      <4>5. Answered(e) \/ \E i \in DOMAIN outgoing : IsReply(outgoing[i], e)
        BY <4>1, <4>3, <4>4, <1>1 DEF Order, NoneLost
      <4> QED
        BY <3>2, <4>5, <1>5, <1>9
    <3> QED
      BY <3>1, <3>2
  <2> QED
    BY <2>1, <1>3 DEF Order, RepliesInOrder, Before, Answerable, Delayed, Answered, IsReply
<1> QED
  BY <1>12, <1>13, <1>14, <1>15, <1>16 DEF Order


(* A new call is the youngest.                                             *)
LEMMA ClientOrders ==
  ASSUME IInv, Order, NEW member \in Members, NEW good \in BOOLEAN, ClientCalls(member, good)
  PROVE  Order'
<1> USE DEF Completion
<1> DEFINE c == Len(request) + 1
           r == [member |-> member, good |-> good]
           m == Message("call", c, "none")
<1>1. /\ state = "running" /\ Len(request) < MaxCalls
      /\ request' = Append(request, r) /\ inbox' = Append(inbox, m)
      /\ UNCHANGED <<ownName, state, outgoing, pcalls, answer, replied>>
  BY DEF ClientCalls
<1>2. /\ request \in Seq(Requests) /\ Len(request) \in Nat /\ r \in Requests
      /\ inbox \in Seq(Messages)
  BY DEF IInv, TypeOK, Requests
<1>3. c \in Calls /\ c \notin Issued
  BY <1>1, <1>2, EchoAssumption DEF Calls, Issued
<1>4. /\ \A d \in Issued : request'[d] = request[d]
      /\ Issued' = Issued \cup {c} /\ \A d \in Calls : d >= c => d \notin Issued
  BY <1>1, <1>2, EchoAssumption DEF Issued, Calls
<1>5. m \in Messages /\ m.kind = "call" /\ m.call = c
  BY <1>3 DEF Message, Messages
<1> HIDE DEF m, r, c
<1>6. /\ Len(inbox) + 1 \in DOMAIN inbox' /\ inbox'[Len(inbox) + 1] = m
      /\ \A i \in DOMAIN inbox : i \in DOMAIN inbox' /\ inbox'[i] = inbox[i] /\ i < Len(inbox) + 1
      /\ \A i \in DOMAIN inbox' : i \in DOMAIN inbox \/ i = Len(inbox) + 1
  BY <1>1, <1>5, AppendReceives DEF IInv
<1>7. \A d \in Calls : d \notin Issued => d \notin pcalls /\ replied[d] = 0 /\ answer[d] = "none"
  BY DEF IInv, PendingKnown, AnswersKnown
<1>8. QueueYoungest'
  <2> SUFFICES ASSUME NEW i \in DOMAIN inbox', inbox'[i].kind = "call",
                      NEW d \in Calls, d >= inbox'[i].call
               PROVE  d \notin pcalls /\ replied[d] = 0
    BY <1>1 DEF QueueYoungest
  <2>1. CASE i \in DOMAIN inbox
    BY <2>1, <1>6 DEF Order, QueueYoungest
  <2>2. CASE i = Len(inbox) + 1
    BY <2>2, <1>4, <1>5, <1>6, <1>7
  <2> QED
    BY <2>1, <2>2, <1>6
<1>9. StagesInOrder'
  <2>1. \A i \in DOMAIN inbox' : inbox'[i].kind # "call" => i \in DOMAIN inbox /\ inbox'[i] = inbox[i]
    BY <1>5, <1>6
  <2>2. InLine(inbox')
    BY <2>1 DEF Order, StagesInOrder, InLine
  <2> QED
    BY <2>1, <2>2, <1>1 DEF Order, StagesInOrder, InLine
<1>10. RepliesKnown'
  BY <1>1 DEF Order, RepliesKnown, Answered
<1>11. NoneLost'
  <2> SUFFICES ASSUME NEW d \in Calls, Answerable(d)'
               PROVE  \/ d \in pcalls \/ Answered(d)
                      \/ \E i \in DOMAIN inbox' : inbox'[i].kind = "call" /\ inbox'[i].call = d
                      \/ \E i \in DOMAIN outgoing : IsReply(outgoing[i], d)
    BY <1>1 DEF NoneLost, Answered, IsReply
  <2>1. CASE d = c
    BY <2>1, <1>5, <1>6
  <2>2. CASE d # c
    <3>1. Answerable(d)
      BY <2>2, <1>4 DEF Answerable
    <3> QED
      BY <3>1, <1>1, <1>6 DEF Order, NoneLost
  <2> QED
    BY <2>1, <2>2
<1>12. RepliesInOrder'
  <2>1. ASSUME NEW e \in Calls, NEW d \in Calls, Before(e, d)', d \in Issued
        PROVE  Before(e, d)
    <3>1. c > d
      BY <2>1, <1>3, <1>4, EchoAssumption DEF Calls
    <3>2. e # c /\ e \in Issued
      BY <2>1, <3>1, <1>3, <1>4, EchoAssumption DEF Before, Answerable, Calls
    <3> QED
      BY <2>1, <3>2, <1>4 DEF Before, Answerable, Delayed
  <2>2. \A j \in DOMAIN outgoing : outgoing[j].call \in Issued /\ outgoing[j].call \in Calls
    <3>1. \A j \in DOMAIN outgoing : outgoing[j] \in Messages
      BY DEF IInv, TypeOK
    <3>2. \A j \in DOMAIN outgoing : outgoing[j].call \in Calls
      BY <3>1 DEF Messages
    <3>3. \A j \in DOMAIN outgoing : outgoing[j].call \in Issued
      BY DEF IInv, OutgoingKnown
    <3> QED
      BY <3>2, <3>3
  <2>3. \A d \in Calls : Answered(d) => d \in Issued
    BY <1>7 DEF Answered
  <2>4. ASSUME NEW j \in DOMAIN outgoing, NEW e \in Calls, NEW d \in Calls,
               outgoing[j].kind = "reply", outgoing[j].call = d, Before(e, d)'
        PROVE  Answered(e) \/ \E i \in DOMAIN outgoing : i < j /\ IsReply(outgoing[i], e)
    <3>1. Before(e, d)
      BY <2>1, <2>2, <2>4
    <3> QED
      BY <2>4, <3>1 DEF Order, RepliesInOrder
  <2>5. ASSUME NEW e \in Calls, NEW d \in Calls, Before(e, d)', Answered(d)'
        PROVE  Answered(e)'
    <3>1. Answered(d)
      BY <2>5, <1>1 DEF Answered
    <3>2. Answered(e)
      BY <2>1, <2>3, <2>5, <3>1 DEF Order, RepliesInOrder
    <3> QED
      BY <3>2, <1>1 DEF Answered
  <2>6. \A e \in Calls : Answered(e)' <=> Answered(e)
    BY <1>1 DEF Answered
  <2>7. \A j \in DOMAIN outgoing : outgoing[j].call \in Calls
    BY <2>2
  <2> HIDE DEF Before, Answered
  <2>8. ASSUME NEW j \in DOMAIN outgoing', NEW e \in Calls,
               outgoing'[j].kind = "reply", Before(e, outgoing[j].call)'
        PROVE  Answered(e)' \/ \E i \in DOMAIN outgoing' : i < j /\ IsReply(outgoing[i], e)'
    <3>1. outgoing'[j].call = outgoing[j].call /\ outgoing' = outgoing
      BY <1>1
    <3>2. PICK d \in Calls : d = outgoing[j].call
      BY <2>7, <2>8, <3>1
    <3>3. Before(e, d)'
      BY <2>8, <3>1, <3>2
    <3>4. Answered(e) \/ \E i \in DOMAIN outgoing : i < j /\ IsReply(outgoing[i], e)
      BY <2>4, <2>8, <3>1, <3>2, <3>3
    <3> QED
      BY <3>1, <3>4, <2>6 DEF IsReply
  <2> QED
    BY <2>8, <2>5 DEF RepliesInOrder
<1> QED
  BY <1>8, <1>9, <1>10, <1>11, <1>12 DEF Order

(* The daemon keeps the order: it moves the first message of outgoing on.  *)
LEMMA RouteOrders == ASSUME IInv, Order, BusRoutes PROVE Order'
<1> USE DEF Completion
<1> DEFINE m == Head(outgoing)
<1>1. /\ outgoing # <<>> /\ outgoing' = Tail(outgoing)
      /\ UNCHANGED <<ownName, state, request, pcalls, replied>>
      /\ Issued' = Issued
  BY DEF BusRoutes, Issued
<1>2. /\ 1 \in DOMAIN outgoing /\ outgoing[1] = m /\ m \in Messages
      /\ outgoing' \in Seq(Messages)
      /\ \A i \in DOMAIN outgoing' : i + 1 \in DOMAIN outgoing /\ outgoing'[i] = outgoing[i + 1]
                                     /\ i + 1 # 1
      /\ \A i \in DOMAIN outgoing :
           i # 1 => i - 1 \in DOMAIN outgoing' /\ outgoing'[i - 1] = outgoing[i]
  BY <1>1, RouteEffect DEF IInv
<1>3. /\ m.kind \in {"hello", "result", "reply", "Foo"} /\ m.call \in Issued /\ m.call \in Calls
      /\ (m.kind = "hello" => m.with = "none") /\ (m.kind = "result" => m.with = "empty")
      /\ (m.kind = "reply" => m.with = Due(request[m.call]) /\ replied[m.call] > 0)
      /\ m.kind = "result" => ownName
  BY <1>2 DEF IInv, OutgoingKnown, Order, StagesInOrder, RepliesKnown, Messages
<1>4. \A d \in Calls : d \in Nat
  BY EchoAssumption DEF Calls
<1>5. \A d \in Calls : answer[d] # "NoReply"
  BY <1>1 DEF Order, RepliesKnown
<1>6. /\ inbox \in Seq(Messages) /\ outgoing \in Seq(Messages)
      /\ answer \in [Calls -> Replies \cup {"none"}]
  BY DEF IInv, TypeOK
<1>7. \A i \in DOMAIN outgoing' : i \in Nat /\ ~(i + 1 < 1)
  BY <1>2
<1> HIDE DEF m
(* The inbox gets nothing, or what has become of a completion.             *)
<1>8. ASSUME NEW n \in Messages, inbox' = Append(inbox, n), Completion(m), Completion(n),
             n.call = m.call, n.kind = "hello" => m.kind = "hello" /\ ownName,
             n.kind = "result" => m.kind = "result" \/ ~ownName
      PROVE  QueueYoungest' /\ StagesInOrder'
  <2>1. /\ Len(inbox) + 1 \in DOMAIN inbox' /\ inbox'[Len(inbox) + 1] = n
        /\ \A i \in DOMAIN inbox : i \in DOMAIN inbox' /\ inbox'[i] = inbox[i] /\ i < Len(inbox) + 1
        /\ \A i \in DOMAIN inbox' : i \in DOMAIN inbox \/ i = Len(inbox) + 1
    BY <1>8, AppendReceives DEF IInv
  <2>2. QueueYoungest'
    <3>1. \A i \in DOMAIN inbox' : inbox'[i].kind = "call" => i \in DOMAIN inbox /\ inbox'[i] = inbox[i]
      BY <2>1, <1>8
    <3> QED
      BY <3>1, <1>1 DEF Order, QueueYoungest
  <2>3. /\ m.kind = "result" => n.kind = "result"
        /\ n.kind # m.kind => n.kind = "result" /\ m.kind = "hello" /\ ~ownName
    BY <1>3, <1>8
  <2>4. \A i \in DOMAIN inbox : Completion(inbox[i]) =>
          /\ inbox[i].call < m.call => inbox[i].kind = "result" \/ m.kind = "hello"
          /\ m.call < inbox[i].call => m.kind = "result" /\ inbox[i].kind = "hello"
    <3> SUFFICES ASSUME NEW i \in DOMAIN inbox, Completion(inbox[i])
                 PROVE  /\ inbox[i].call < m.call => inbox[i].kind = "result" \/ m.kind = "hello"
                        /\ m.call < inbox[i].call => m.kind = "result" /\ inbox[i].kind = "hello"
      OBVIOUS
    <3>1. inbox[i].call \in Calls
      BY DEF IInv, Once, TypeOK
    <3>2. m.call < inbox[i].call => ~(inbox[i].call < m.call)
      BY <3>1, <1>3, <1>4
    <3> QED
      BY <3>2, <1>2, <1>8 DEF Order, StagesInOrder
  <2>5. InLine(inbox')
    <3> SUFFICES ASSUME NEW i \in DOMAIN inbox', NEW j \in DOMAIN inbox',
                        Completion(inbox'[i]), Completion(inbox'[j]), inbox'[i].call < inbox'[j].call
                 PROVE  IF inbox'[i].kind = inbox'[j].kind THEN i < j ELSE inbox'[i].kind = "result"
      BY DEF InLine
    <3>1. CASE i \in DOMAIN inbox /\ j \in DOMAIN inbox
      BY <3>1, <2>1 DEF Order, StagesInOrder, InLine
    <3>2. CASE i \in DOMAIN inbox /\ j = Len(inbox) + 1
      <4>1. i < j /\ inbox'[i] = inbox[i] /\ inbox'[j] = n
        BY <3>2, <2>1
      <4>2. inbox[i].kind # n.kind => inbox[i].kind = "result"
        <5>1. inbox[i].kind = "hello" => ownName
          BY <3>2 DEF Order, StagesInOrder
        <5> QED
          BY <3>2, <4>1, <5>1, <2>3, <2>4, <1>8
      <4> QED
        BY <4>1, <4>2
    <3>3. CASE i = Len(inbox) + 1 /\ j \in DOMAIN inbox
      <4>1. inbox'[i] = n /\ inbox'[j] = inbox[j] /\ m.call < inbox[j].call
        BY <3>3, <2>1, <1>8
      <4>2. m.kind = "result" /\ inbox[j].kind = "hello"
        BY <3>3, <4>1, <2>4
      <4> QED
        BY <4>1, <4>2, <2>3
    <3>4. CASE i = Len(inbox) + 1 /\ j = Len(inbox) + 1
      BY <3>4, <2>1, <1>3, <1>4, <1>8
    <3> QED
      BY <3>1, <3>2, <3>3, <3>4, <2>1
  <2>6. InLine(outgoing')
    <3> SUFFICES ASSUME NEW i \in DOMAIN outgoing', NEW j \in DOMAIN outgoing',
                        Completion(outgoing'[i]), Completion(outgoing'[j]),
                        outgoing'[i].call < outgoing'[j].call
                 PROVE  IF outgoing'[i].kind = outgoing'[j].kind THEN i < j
                        ELSE outgoing'[i].kind = "result"
      BY DEF InLine
    <3>1. IF outgoing[i + 1].kind = outgoing[j + 1].kind THEN i + 1 < j + 1
          ELSE outgoing[i + 1].kind = "result"
      BY <1>2 DEF Order, StagesInOrder, InLine
    <3> QED
      BY <3>1, <1>2, <1>7
  <2>7. ASSUME NEW i \in DOMAIN inbox', NEW j \in DOMAIN outgoing',
               Completion(inbox'[i]), Completion(outgoing'[j])
        PROVE  IF inbox'[i].call < outgoing'[j].call
               THEN inbox'[i].kind = "result" \/ outgoing'[j].kind = "hello"
               ELSE outgoing'[j].kind = "result" /\ inbox'[i].kind = "hello"
    <3>1. CASE i \in DOMAIN inbox
      BY <2>7, <3>1, <2>1, <1>2 DEF Order, StagesInOrder
    <3>2. CASE i = Len(inbox) + 1
      <4>1. /\ inbox'[i] = n /\ j + 1 \in DOMAIN outgoing /\ outgoing'[j] = outgoing[j + 1]
            /\ Completion(outgoing[j + 1]) /\ outgoing[j + 1].call \in Calls
        BY <2>7, <3>2, <2>1, <1>2 DEF IInv, Once, TypeOK
      <4>2. outgoing[j + 1].call # m.call
        BY <4>1, <1>2, <1>8 DEF IInv, Once
      <4>3. m.call < outgoing[j + 1].call => m.kind = "result" \/ outgoing[j + 1].kind = "hello"
        BY <4>1, <1>2, <1>8 DEF Order, StagesInOrder, InLine
      <4>4. outgoing[j + 1].call < m.call => outgoing[j + 1].kind = "result" /\ m.kind = "hello"
        BY <4>1, <1>2, <1>7, <1>8 DEF Order, StagesInOrder, InLine
      <4>5. outgoing[j + 1].kind = "result" => ownName
        BY <4>1 DEF Order, StagesInOrder
      <4>6. \/ m.call < outgoing[j + 1].call
            \/ outgoing[j + 1].call < m.call /\ ~(m.call < outgoing[j + 1].call)
        BY <4>1, <4>2, <1>3, <1>4
      <4> QED
        BY <4>1, <4>3, <4>4, <4>5, <4>6, <2>3, <1>8
    <3> QED
      BY <3>1, <3>2, <2>1
  <2>8. \A i \in DOMAIN inbox' : inbox'[i].kind = "hello" => ownName
    BY <2>1, <1>8 DEF Order, StagesInOrder
  <2>9. \A i \in DOMAIN outgoing' : outgoing'[i].kind = "result" => ownName
    BY <1>2 DEF Order, StagesInOrder
  <2> QED
    BY <2>2, <2>5, <2>6, <2>7, <2>8, <2>9, <1>1 DEF StagesInOrder, InLine
<1>9. ASSUME UNCHANGED inbox
      PROVE  QueueYoungest' /\ StagesInOrder'
  <2>1. QueueYoungest'
    BY <1>1, <1>9 DEF Order, QueueYoungest
  <2>2. InLine(outgoing')
    <3> SUFFICES ASSUME NEW i \in DOMAIN outgoing', NEW j \in DOMAIN outgoing',
                        Completion(outgoing'[i]), Completion(outgoing'[j]),
                        outgoing'[i].call < outgoing'[j].call
                 PROVE  IF outgoing'[i].kind = outgoing'[j].kind THEN i < j
                        ELSE outgoing'[i].kind = "result"
      BY DEF InLine
    <3>1. IF outgoing[i + 1].kind = outgoing[j + 1].kind THEN i + 1 < j + 1
          ELSE outgoing[i + 1].kind = "result"
      BY <1>2 DEF Order, StagesInOrder, InLine
    <3> QED
      BY <3>1, <1>2, <1>7
  <2>3. \A i \in DOMAIN outgoing' : outgoing'[i].kind = "result" => ownName
    BY <1>2 DEF Order, StagesInOrder
  <2> QED
    BY <2>1, <2>2, <2>3, <1>1, <1>2, <1>9 DEF Order, StagesInOrder, InLine
<1>10. QueueYoungest' /\ StagesInOrder'
  <2>1. CASE m.kind = "hello"
    <3> DEFINE n == IF ownName THEN m ELSE Message("result", m.call, "error")
    <3>1. IF state = "running" THEN inbox' = Append(inbox, n) ELSE inbox' = inbox
      BY <2>1 DEF BusRoutes, m, Deliver
    <3>2. n \in Messages /\ n.call = m.call /\ Completion(n) /\ Completion(m)
          /\ (n.kind = "hello" => m.kind = "hello" /\ ownName)
          /\ (n.kind = "result" => m.kind = "result" \/ ~ownName)
      BY <1>2, <1>3, <2>1 DEF Message, Messages, Replies
    <3> HIDE DEF n
    <3> QED
      BY <1>8, <1>9, <3>1, <3>2
  <2>2. CASE m.kind = "result"
    <3>1. IF state = "running" THEN inbox' = Append(inbox, m) ELSE inbox' = inbox
      BY <2>2 DEF BusRoutes, m, Deliver
    <3> QED
      BY <1>2, <1>8, <1>9, <2>2, <3>1
  <2>3. CASE m.kind \in {"reply", "Foo"}
    BY <1>9, <2>3 DEF BusRoutes, m
  <2> QED
    BY <1>3, <2>1, <2>2, <2>3
(* What is answered stays so, and a reply answers.                         *)
<1>11. /\ \A d \in Calls : Answered(d) => Answered(d)'
       /\ \A d \in Calls : IsReply(m, d) => Answered(d)'
       /\ \A d \in Calls : Answered(d)' => Answered(d) \/ IsReply(m, d)
       /\ \A d \in Calls : answer'[d] # "NoReply"
  <2>1. CASE m.kind = "reply"
    <3>1. answer' = [answer EXCEPT ![m.call] = IF @ = "none" THEN m.with ELSE @]
      BY <2>1 DEF BusRoutes, m
    <3>2. m.with \notin {"none", "NoReply"}
      BY <1>3, <2>1 DEF Due
    <3> QED
      BY <2>1, <3>1, <3>2, <1>3, <1>5, <1>6 DEF Answered, IsReply
  <2>2. CASE m.kind # "reply"
    <3>1. UNCHANGED answer
      BY <2>2 DEF BusRoutes, m
    <3> QED
      BY <2>2, <3>1, <1>5 DEF Answered, IsReply
  <2> QED
    BY <2>1, <2>2
<1>12. RepliesKnown'
  <2>1. \A i \in DOMAIN outgoing' : outgoing'[i].kind = "reply" => replied[outgoing'[i].call] > 0
    BY <1>2 DEF Order, RepliesKnown
  <2>2. \A d \in Calls : Answered(d)' => replied[d] > 0
    BY <1>3, <1>11 DEF Order, RepliesKnown, IsReply
  <2> QED
    BY <2>1, <2>2, <1>1, <1>11 DEF RepliesKnown
<1>13. NoneLost'
  <2> SUFFICES ASSUME state = "running", NEW d \in Calls, Answerable(d)
               PROVE  \/ d \in pcalls \/ Answered(d)'
                      \/ \E i \in DOMAIN inbox' : inbox'[i].kind = "call" /\ inbox'[i].call = d
                      \/ \E i \in DOMAIN outgoing' : IsReply(outgoing'[i], d)
    BY <1>1 DEF NoneLost, Answerable, IsReply
  <2>1. \A i \in DOMAIN inbox : i \in DOMAIN inbox' /\ inbox'[i] = inbox[i]
    <3>1. UNCHANGED inbox \/ \E n \in Messages : inbox' = Append(inbox, n)
      <4>1. Message("result", m.call, "error") \in Messages
        BY <1>3 DEF Message, Messages, Replies
      <4> QED
        BY <4>1, <1>2 DEF BusRoutes, Deliver, m
    <3>2. ASSUME NEW n \in Messages, inbox' = Append(inbox, n)
          PROVE  \A i \in DOMAIN inbox : i \in DOMAIN inbox' /\ inbox'[i] = inbox[i]
      BY <3>2, AppendReceives DEF IInv
    <3> QED
      BY <3>1, <3>2
  <2>2. ASSUME NEW i \in DOMAIN outgoing, IsReply(outgoing[i], d)
        PROVE  Answered(d)' \/ \E k \in DOMAIN outgoing' : IsReply(outgoing'[k], d)
    <3>1. CASE i = 1
      BY <2>2, <3>1, <1>2, <1>11
    <3>2. CASE i # 1
      BY <2>2, <3>2, <1>2
    <3> QED
      BY <3>1, <3>2
  <2>3. \/ d \in pcalls \/ Answered(d)
        \/ \E i \in DOMAIN inbox : inbox[i].kind = "call" /\ inbox[i].call = d
        \/ \E i \in DOMAIN outgoing : IsReply(outgoing[i], d)
    BY DEF Order, NoneLost
  <2> QED
    BY <2>1, <2>2, <2>3, <1>11
<1>14. RepliesInOrder'
  <2>1. ASSUME NEW j \in DOMAIN outgoing', NEW e \in Calls,
               outgoing'[j].kind = "reply", Before(e, outgoing'[j].call)
        PROVE  Answered(e)' \/ \E i \in DOMAIN outgoing' : i < j /\ IsReply(outgoing'[i], e)
    <3>1. j + 1 \in DOMAIN outgoing /\ outgoing'[j] = outgoing[j + 1] /\ j \in Nat
      BY <1>2, <1>7
    <3>2. Answered(e) \/ \E i \in DOMAIN outgoing : i < j + 1 /\ IsReply(outgoing[i], e)
      BY <2>1, <3>1 DEF Order, RepliesInOrder
    <3>3. ASSUME NEW i \in DOMAIN outgoing, i < j + 1, IsReply(outgoing[i], e)
          PROVE  Answered(e)' \/ \E k \in DOMAIN outgoing' : k < j /\ IsReply(outgoing'[k], e)
      <4>1. CASE i = 1
        BY <3>3, <4>1, <1>2, <1>11
      <4>2. CASE i # 1
        <5>1. i - 1 \in DOMAIN outgoing' /\ outgoing'[i - 1] = outgoing[i]
          BY <4>2, <1>2
        <5>2. i - 1 < j
          BY <3>1, <3>3, <1>6
        <5> QED
          BY <3>3, <5>1, <5>2
      <4> QED
        BY <4>1, <4>2
    <3> QED
      BY <3>2, <3>3, <1>11
  <2>2. ASSUME NEW e \in Calls, NEW d \in Calls, Before(e, d), Answered(d)'
        PROVE  Answered(e)'
    <3>1. CASE Answered(d)
      BY <2>2, <3>1, <1>11 DEF Order, RepliesInOrder
    <3>2. CASE IsReply(m, d)
      <4>1. outgoing[1].kind = "reply" /\ outgoing[1].call = d
        BY <3>2, <1>2 DEF IsReply
      <4>2. Answered(e) \/ \E i \in DOMAIN outgoing : i < 1 /\ IsReply(outgoing[i], e)
        BY <2>2, <4>1, <1>2 DEF Order, RepliesInOrder
      <4>3. \A i \in DOMAIN outgoing : ~(i < 1)
        BY <1>6
      <4> QED
        BY <4>2, <4>3, <1>11
    <3> QED
      BY <2>2, <3>1, <3>2, <1>11
  <2>3. \A e, d : Before(e, d)' <=> Before(e, d)
    BY <1>1 DEF Before, Answerable, Delayed
  <2>4. \A j \in DOMAIN outgoing' : outgoing'[j].call \in Calls
    <3>1. \A j \in DOMAIN outgoing' : outgoing'[j] \in Messages
      BY <1>2
    <3> QED
      BY <3>1 DEF Messages
  <2> QED
    BY <2>1, <2>2, <2>3, <2>4 DEF RepliesInOrder, IsReply
<1> QED
  BY <1>10, <1>12, <1>13, <1>14 DEF Order

(* The daemon's own answers come after all replies.                        *)
LEMMA NoReplyOrders == ASSUME IInv, Order, BusNoReply PROVE Order'
<1>1. /\ state # "running" /\ outgoing = <<>>
      /\ answer' = [c \in Calls |-> IF c <= Len(request) /\ answer[c] = "none"
                                    THEN "NoReply" ELSE answer[c]]
      /\ UNCHANGED <<ownName, state, request, inbox, outgoing, pcalls, replied>>
      /\ Issued' = Issued
  BY DEF BusNoReply, Issued
<1>2. \A c \in Calls : Answered(c)' <=> Answered(c)
  BY <1>1 DEF Answered
<1>3. QueueYoungest' /\ StagesInOrder'
  BY <1>1 DEF Order, QueueYoungest, StagesInOrder, InLine, Completion
<1>4. RepliesKnown' /\ NoneLost'
  BY <1>1, <1>2 DEF Order, RepliesKnown, NoneLost
<1>5. \A c, d : Before(c, d)' <=> Before(c, d)
  BY <1>1 DEF Before, Answerable, Delayed
<1>6. RepliesInOrder'
  BY <1>1, <1>2, <1>5 DEF Order, RepliesInOrder
<1> QED
  BY <1>3, <1>4, <1>6 DEF Order

(* For any number of calls, answers of each class come in the calls' order.*)
THEOREM AnswersKeepOrder == Spec => []AnswersInOrder
<1>1. Init => Order
  BY EchoAssumption
  DEF Init, Order, QueueYoungest, StagesInOrder, InLine, RepliesKnown, NoneLost, RepliesInOrder,
      Answered, Before, Answerable, Issued, Calls
<1>2. IInv /\ Order /\ [Next]_vars => Order'
  <2> SUFFICES ASSUME IInv, Order, [Next]_vars PROVE Order'
    OBVIOUS
  <2>1. CASE UNCHANGED vars
    BY <2>1
    DEF vars, Order, QueueYoungest, StagesInOrder, InLine, RepliesKnown, NoneLost, RepliesInOrder,
        Answered, Before, Answerable, IsReply, Completion, Delayed, Issued
  <2> QED
    BY <2>1, ClientOrders, DispatchHandled, HandledOrders, RouteOrders, NoReplyOrders DEF Next
<1>3. IInv /\ Order => AnswersInOrder
  <2> SUFFICES ASSUME IInv, Order, NEW c \in Issued, NEW d \in Issued, c < d,
                      Delayed(c) <=> Delayed(d), Answered(d),
                      request[c].member \notin {"Exit", "EmitFoo"}
               PROVE  Answered(c)
    BY DEF AnswersInOrder, Answered, Issued
  <2>1. c \in Calls /\ d \in Calls
    BY EchoAssumption DEF IInv, TypeOK, Issued, Calls
  <2> QED
    BY <2>1 DEF Order, RepliesInOrder, Before, Answerable
<1> QED
  BY <1>1, <1>2, <1>3, Inductive, PTL DEF Spec

=============================================================================
