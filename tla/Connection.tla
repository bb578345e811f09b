----------------------------- MODULE Connection -----------------------------
(***************************************************************************)
(* What both dispatchers have below them: a connection of libdbus with two *)
(* watches on one descriptor, the socket, the messages that libdbus has    *)
(* read, and the peer.                                                     *)
(***************************************************************************)
EXTENDS Naturals

CONSTANTS
  Readable, Writable,  (* the connection's watches                         *)
  MaxMessages,         (* bound: messages the peer sends in a behaviour    *)
  NULL

Watches == {Readable, Writable}

ASSUME ConnectionAssumption ==
  Readable # Writable /\ NULL \notin Watches /\ MaxMessages \in Nat

VARIABLES
  enabled,    (* watches that libdbus wants polled                         *)
  sock,       (* messages in the socket                                    *)
  queue,      (* messages libdbus has read and not dispatched              *)
  sent,       (* messages the peer has sent so far                         *)
  hangup      (* the peer has closed its end                               *)

bus == <<sock, queue, sent, hangup>>

BusType ==
  /\ enabled \in SUBSET Watches
  /\ sock \in 0 .. MaxMessages /\ queue \in 0 .. MaxMessages /\ sent \in 0 .. MaxMessages
  /\ hangup \in BOOLEAN

(* The connection is authenticated and has no output pending.              *)
BusInit ==
  /\ enabled = {Readable}
  /\ sock = 0 /\ queue = 0 /\ sent = 0 /\ hangup = FALSE

(* All that is in the socket is read at once.                              *)
ReadSocket ==
  /\ sock > 0
  /\ queue' = queue + sock /\ sock' = 0
  /\ UNCHANGED <<sent, hangup>>

TakeMessage ==
  /\ queue > 0
  /\ queue' = queue - 1
  /\ UNCHANGED <<sock, sent, hangup>>

Sends ==
  /\ ~hangup /\ sent < MaxMessages
  /\ sent' = sent + 1 /\ sock' = sock + 1
  /\ UNCHANGED <<queue, hangup>>

Closes ==
  /\ ~hangup
  /\ hangup' = TRUE
  /\ UNCHANGED <<sock, queue, sent>>

=============================================================================
