------------------------------ MODULE Connection ----------------------------
(***************************************************************************)
(* One client of the protocol server: ClientConnection                     *)
(* (protocol/connection.py) with the handler task that reads its requests  *)
(* (protocol/server.py handle_client, protocol/handlers.py), the pump task *)
(* of its subscription, the writer task, and the two queue getters the     *)
(* writer keeps in flight.  All run on one event loop, so whatever happens *)
(* between two awaits is one action; every await is a point where the      *)
(* other tasks may run.                                                    *)
(*                                                                         *)
(* Messages are numbered in the order they are queued, snapshots in the    *)
(* order they are taken; their content is left out.                        *)
(***************************************************************************)
EXTENDS Integers, Sequences

CONSTANTS
  QueueLimit,    \* RELIABLE_QUEUE_WARN
  MaxMessages,   \* bound: reliable messages of a behaviour
  MaxSnapshots   \* bound: snapshots of a behaviour

ASSUME BoundAssumption ==
  QueueLimit \in Nat \ {0} /\ MaxMessages \in Nat /\ MaxSnapshots \in Nat

VARIABLES
  reliableQueue,  \* reliable_queue: replies and events
  reliableGet,    \* what the getter on it has taken; Nothing while it waits
  stateSlot,      \* state_slot, at most one snapshot
  stateGet,       \* what the getter on it has taken
  writer,         \* where the writer task is suspended
  round,          \* the getters its last asyncio.wait reported done
  subscribed,     \* subscribe_task runs
  warnedSlow,     \* _warned_slow
  socket,         \* the websocket: "open", "closing" once close() is called, "closed"
  handling,       \* handle_client runs: the connection is in `connections`
  issued,         \* number of reliable messages queued so far
  taken,          \* number of snapshots taken so far
  wire            \* what ws.send has sent, oldest first

queueVars == <<reliableQueue, issued, warnedSlow>>
slotVars == <<stateSlot, taken>>
writerVars == <<reliableGet, stateGet, writer, round, wire>>
sessionVars == <<subscribed, socket, handling>>
vars == <<queueVars, slotVars, writerVars, sessionVars>>

Kinds == {"event", "reply", "subscribed", "unsubscribed"}
Nothing == [kind |-> "none", n |-> 0]
Reliable == [kind : Kinds, n : 1..MaxMessages]
Snapshot == [kind : {"state"}, n : 1..MaxSnapshots]

Init ==
  /\ reliableQueue = <<>> /\ reliableGet = Nothing
  /\ stateSlot = Nothing /\ stateGet = Nothing
  /\ writer = "waiting" /\ round = {}
  /\ subscribed = FALSE /\ warnedSlow = FALSE
  /\ socket = "open" /\ handling = TRUE
  /\ issued = 0 /\ taken = 0 /\ wire = <<>>
-----------------------------------------------------------------------------
(* Mutant: the connection is never closed for being slow.                  *)
EnqueueForever(kinds) ==
  LET sent == [i \in DOMAIN kinds |-> [kind |-> kinds[i], n |-> issued + i]]
  IN /\ issued + Len(kinds) <= MaxMessages
     /\ reliableQueue' = reliableQueue \o sent
     /\ issued' = issued + Len(kinds)
     /\ UNCHANGED <<warnedSlow, socket>>

(* put_nowait of messages of the given kinds, then _check_backlog, which   *)
(* starts closing the socket of a client too far behind, once.             *)
Enqueue(kinds) ==
  LET sent == [i \in DOMAIN kinds |-> [kind |-> kinds[i], n |-> issued + i]]
      slow == Len(reliableQueue) + Len(kinds) > QueueLimit
  IN /\ issued + Len(kinds) <= MaxMessages
     /\ reliableQueue' = reliableQueue \o sent
     /\ issued' = issued + Len(kinds)
     /\ warnedSlow' = (warnedSlow \/ slow)
     /\ socket' = IF slow /\ ~warnedSlow /\ socket = "open" THEN "closing" ELSE socket

(* An event of the scan loop or of another client's request.               *)
Broadcast ==
  /\ handling
  /\ Enqueue(<<"event">>)
  /\ UNCHANGED <<slotVars, writerVars, subscribed, handling>>

(* A request: the events it causes are queued before its reply.            *)
Request ==
  /\ handling
  /\ \E events \in {<<>>, <<"event">>} : Enqueue(Append(events, "reply"))
  /\ UNCHANGED <<slotVars, writerVars, subscribed, handling>>

(* A new pump replaces the old one, which never pushes again.              *)
Subscribe ==
  /\ handling
  /\ Enqueue(<<"subscribed">>)
  /\ subscribed' = TRUE
  /\ UNCHANGED <<slotVars, writerVars, handling>>

Unsubscribe ==
  /\ handling
  /\ Enqueue(<<"unsubscribed">>)
  /\ subscribed' = FALSE
  /\ UNCHANGED <<slotVars, writerVars, handling>>

(* Mutant: only the writer is cancelled.                                   *)
CloseWriter ==
  /\ handling' = FALSE
  /\ writer' = "gone"
  /\ UNCHANGED <<slotVars, subscribed, reliableGet, stateGet, round, wire>>

(* ClientConnection.close.                                                 *)
Close ==
  /\ handling' = FALSE
  /\ subscribed' = FALSE
  /\ writer' = "gone"
  /\ UNCHANGED <<slotVars, reliableGet, stateGet, round, wire>>

(* A read of a value that is not finite: the reply cannot be encoded, the  *)
(* error escapes dispatch, and handle_client returns, closing the socket.  *)
RequestCrashes ==
  /\ handling
  /\ Close
  /\ socket' = "closed"
  /\ UNCHANGED queueVars

(* Mutant: a full slot keeps the old snapshot.                             *)
PushIfEmpty ==
  /\ subscribed /\ taken < MaxSnapshots
  /\ taken' = taken + 1
  /\ stateSlot' = IF stateSlot = Nothing THEN [kind |-> "state", n |-> taken + 1] ELSE stateSlot
  /\ UNCHANGED <<queueVars, writerVars, sessionVars>>

(* _pump_state: the latest snapshot replaces the one in the slot.          *)
Push ==
  /\ subscribed /\ taken < MaxSnapshots
  /\ taken' = taken + 1
  /\ stateSlot' = [kind |-> "state", n |-> taken + 1]
  /\ UNCHANGED <<queueVars, writerVars, sessionVars>>

(* The two getters are tasks of their own: each takes an item whatever the *)
(* writer is doing.                                                        *)
TakeReliable ==
  /\ writer # "gone" /\ reliableGet = Nothing /\ reliableQueue # <<>>
  /\ reliableGet' = Head(reliableQueue)
  /\ reliableQueue' = Tail(reliableQueue)
  /\ UNCHANGED <<issued, warnedSlow, slotVars, stateGet, writer, round, wire, sessionVars>>

TakeState ==
  /\ writer # "gone" /\ stateGet = Nothing /\ stateSlot # Nothing
  /\ stateGet' = stateSlot
  /\ stateSlot' = Nothing
  /\ UNCHANGED <<queueVars, taken, reliableGet, writer, round, wire, sessionVars>>

(* Mutant: the wait returns only once both getters are done.               *)
WakeWhenBoth ==
  /\ writer = "waiting"
  /\ reliableGet # Nothing /\ stateGet # Nothing
  /\ round' = {"reliable", "state"}
  /\ writer' = "reliable"
  /\ UNCHANGED <<queueVars, slotVars, reliableGet, stateGet, wire, sessionVars>>

(* asyncio.wait returns the getters that are done by now, and the writer   *)
(* starts sending, the reliable message first.                             *)
Wake ==
  /\ writer = "waiting"
  /\ round' = (IF reliableGet # Nothing THEN {"reliable"} ELSE {})
                \cup (IF stateGet # Nothing THEN {"state"} ELSE {})
  /\ round' # {}
  /\ writer' = IF "reliable" \in round' THEN "reliable" ELSE "state"
  /\ UNCHANGED <<queueVars, slotVars, reliableGet, stateGet, wire, sessionVars>>

(* Mutant: a new getter is made only when nothing else was done (an elif). *)
SentReliableAgain ==
  /\ writer = "reliable" /\ socket # "closed"
  /\ wire' = Append(wire, reliableGet)
  /\ reliableGet' = IF "state" \in round THEN reliableGet ELSE Nothing
  /\ writer' = IF "state" \in round THEN "state" ELSE "waiting"
  /\ UNCHANGED <<queueVars, slotVars, stateGet, round, sessionVars>>

(* A send that was under way when the socket started closing may succeed.  *)
SentReliable ==
  /\ writer = "reliable" /\ socket # "closed"
  /\ wire' = Append(wire, reliableGet)
  /\ reliableGet' = Nothing
  /\ writer' = IF "state" \in round THEN "state" ELSE "waiting"
  /\ UNCHANGED <<queueVars, slotVars, stateGet, round, sessionVars>>

SentState ==
  /\ writer = "state" /\ socket # "closed"
  /\ wire' = Append(wire, stateGet)
  /\ stateGet' = Nothing
  /\ writer' = "waiting"
  /\ UNCHANGED <<queueVars, slotVars, reliableGet, round, sessionVars>>

(* ConnectionClosed ends the writer.                                       *)
SendFails ==
  /\ writer \in {"reliable", "state"} /\ socket = "closed"
  /\ writer' = "gone"
  /\ UNCHANGED <<queueVars, slotVars, reliableGet, stateGet, round, wire, sessionVars>>

(* The peer leaves, or the close handshake or its timeout completes.       *)
SocketCloses ==
  /\ socket # "closed"
  /\ socket' = "closed"
  /\ UNCHANGED <<queueVars, slotVars, writerVars, subscribed, handling>>

HandlerEnds ==
  /\ handling /\ socket = "closed"
  /\ Close
  /\ UNCHANGED <<queueVars, socket>>

Next ==
  \/ Broadcast \/ Request \/ RequestCrashes \/ Subscribe \/ Unsubscribe
  \/ Push \/ TakeReliable \/ TakeState \/ Wake
  \/ SentReliable \/ SentState \/ SendFails
  \/ SocketCloses \/ HandlerEnds

Spec == Init /\ [][Next]_vars

(* The event loop runs every ready task.  A send completes or the socket   *)
(* closes: the websockets library pings its peers and drops silent ones.   *)
SendEnds == SentReliable \/ SentState \/ SendFails \/ SocketCloses
FairSpec ==
  /\ Spec
  /\ WF_vars(TakeReliable) /\ WF_vars(TakeState) /\ WF_vars(Wake)
  /\ WF_vars((writer \in {"reliable", "state"} \/ socket = "closing") /\ SendEnds)
  /\ WF_vars(HandlerEnds)
-----------------------------------------------------------------------------
(* Properties.                                                             *)

IsReliable(m) == m.kind # "state"
Messages == {i \in DOMAIN wire : IsReliable(wire[i])}    \* their places on the wire
States   == {i \in DOMAIN wire : ~IsReliable(wire[i])}

(* Replies and events leave in the order they were queued; none is lost,   *)
(* repeated or overtaken, through both getters and every suspended send    *)
(* (connection.py:4).                                                      *)
NothingDropped ==
  LET left == issued - Len(reliableQueue)
      done == IF reliableGet = Nothing THEN left ELSE left - 1
  IN /\ \A i \in DOMAIN reliableQueue : reliableQueue[i].n = left + i
     /\ reliableGet # Nothing => reliableGet.n = left
     /\ {wire[i].n : i \in Messages} = 1..done
     /\ \A i, j \in Messages : i < j => wire[i].n < wire[j].n

(* Snapshots only move forward, and the slot holds the newest one there    *)
(* is, so a slow client catches up in two sends (connection.py:8).         *)
LatestWins ==
  /\ \A i, j \in States : i < j => wire[i].n < wire[j].n
  /\ stateGet # Nothing => \A i \in States : wire[i].n < stateGet.n
  /\ stateSlot # Nothing =>
       /\ stateSlot.n = taken
       /\ stateGet # Nothing => stateGet.n < taken
       /\ \A i \in States : wire[i].n < taken
  /\ stateSlot = Nothing /\ taken > 0 /\ writer # "gone" =>
       stateGet.n = taken \/ \E i \in States : wire[i].n = taken

(* A connection that is gone has no task left that takes snapshots or      *)
(* sends, and a client found too slow never has an open socket again.      *)
GoneIsQuiet ==
  /\ ~handling => ~subscribed /\ writer = "gone" /\ socket = "closed"
  /\ warnedSlow => socket # "open"

(* Every reply and event reaches the client unless its connection goes,    *)
(* however many snapshots compete with them (no starvation).               *)
RepliesArrive ==
  \A n \in 1..MaxMessages :
    issued = n ~> \/ writer = "gone"
                  \/ \E i \in DOMAIN wire : IsReliable(wire[i]) /\ wire[i].n = n

(* A client that does not drain its queue is disconnected                  *)
(* (connection.py:76).                                                     *)
SlowConsumerLeaves == Len(reliableQueue) > QueueLimit ~> ~handling
=============================================================================
