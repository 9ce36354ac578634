-------------------------- MODULE ConnectionProofs --------------------------
(***************************************************************************)
(* Theorems about Connection, for every limit of the queue and every bound *)
(* on the number of messages.                                              *)
(***************************************************************************)
EXTENDS Connection, SequenceTheorems, TLAPS

-----------------------------------------------------------------------------
(* Queueing a message leaves the warning and the socket in step.           *)
LEMMA EnqueueWarns ==
  ASSUME NEW kinds, Enqueue(kinds), warnedSlow => socket # "open"
  PROVE  warnedSlow' => socket' # "open"
<1>1. CASE socket = "open" /\ ~warnedSlow
  BY <1>1 DEF Enqueue
<1>2. CASE socket # "open"
  BY <1>2 DEF Enqueue
<1> QED  BY <1>1, <1>2

LEMMA QuietInit == ASSUME Init PROVE GoneIsQuiet
BY DEF Init, GoneIsQuiet

(* The handler's own steps run while it handles; closing stops every task. *)
LEMMA QuietStep == ASSUME GoneIsQuiet, [Next]_vars PROVE GoneIsQuiet'
<1> USE DEF GoneIsQuiet
<1>1. CASE Broadcast
  BY <1>1, EnqueueWarns DEF Broadcast, Enqueue
<1>2. CASE Request
  <2>1. PICK events \in {<<>>, <<"event">>} : Enqueue(Append(events, "reply"))
    BY <1>2 DEF Request
  <2>2. warnedSlow' => socket' # "open"
    BY <2>1, EnqueueWarns
  <2> QED  BY <1>2, <2>2 DEF Request
<1>3. CASE RequestCrashes
  BY <1>3 DEF RequestCrashes, Close, queueVars
<1>4. CASE Subscribe
  BY <1>4, EnqueueWarns DEF Subscribe
<1>5. CASE Unsubscribe
  BY <1>5, EnqueueWarns DEF Unsubscribe
<1>6. CASE Push \/ TakeReliable \/ TakeState \/ Wake \/ SentReliable \/ SentState
  <2>1. UNCHANGED sessionVars
    BY <1>6 DEF Push, TakeReliable, TakeState, Wake, SentReliable, SentState
  <2>2. UNCHANGED warnedSlow
    BY <1>6 DEF Push, TakeReliable, TakeState, Wake, SentReliable, SentState, queueVars
  <2>3. writer = "gone" => UNCHANGED writer
    BY <1>6 DEF Push, TakeReliable, TakeState, Wake, SentReliable, SentState, writerVars
  <2> QED  BY <2>1, <2>2, <2>3 DEF sessionVars
<1>7. CASE SendFails
  BY <1>7 DEF SendFails, queueVars, sessionVars
<1>8. CASE SocketCloses
  BY <1>8 DEF SocketCloses, queueVars, writerVars
<1>9. CASE HandlerEnds
  BY <1>9 DEF HandlerEnds, Close, queueVars
<1>10. CASE UNCHANGED vars
  BY <1>10 DEF vars, queueVars, writerVars, sessionVars
<1> QED
  BY <1>1, <1>2, <1>3, <1>4, <1>5, <1>6, <1>7, <1>8, <1>9, <1>10 DEF Next

(* A connection that is gone has no task left that takes snapshots or      *)
(* sends, and a client found too slow never has an open socket again       *)
(* (ClientConnection.close, _check_backlog).                               *)
THEOREM GoneStaysQuiet == Spec => []GoneIsQuiet
BY QuietInit, QuietStep, PTL DEF Spec

-----------------------------------------------------------------------------
(* What every variable holds, and that the writer is only ever about to    *)
(* send something a getter has.                                            *)
TypeOK ==
  /\ reliableQueue \in Seq(Reliable) /\ reliableGet \in Reliable \cup {Nothing}
  /\ stateSlot \in Snapshot \cup {Nothing} /\ stateGet \in Snapshot \cup {Nothing}
  /\ issued \in 0..MaxMessages /\ taken \in 0..MaxSnapshots
  /\ wire \in Seq(Reliable \cup Snapshot)
  /\ writer = "reliable" => reliableGet # Nothing /\ ("state" \in round => stateGet # Nothing)
  /\ writer = "state" => stateGet # Nothing

LEMMA Distinct == Nothing \notin Reliable /\ Nothing \notin Snapshot
BY DEF Nothing, Reliable, Snapshot, Kinds

(* The queue after a request or an event.                                  *)
LEMMA Enqueued ==
  ASSUME TypeOK, NEW kinds \in Seq(Kinds), Enqueue(kinds)
  PROVE  /\ reliableQueue' \in Seq(Reliable) /\ issued' \in 0..MaxMessages
         /\ Len(reliableQueue') - Len(reliableQueue) = issued' - issued
         /\ \A i \in DOMAIN reliableQueue' :
              \/ i \in DOMAIN reliableQueue /\ reliableQueue'[i] = reliableQueue[i]
              \/ reliableQueue'[i].n = issued + (i - Len(reliableQueue))
<1> DEFINE sent == [i \in DOMAIN kinds |-> [kind |-> kinds[i], n |-> issued + i]]
<1>1. /\ issued + Len(kinds) <= MaxMessages
      /\ reliableQueue' = reliableQueue \o sent /\ issued' = issued + Len(kinds)
  BY DEF Enqueue
<1>2. issued \in Nat /\ MaxMessages \in Nat /\ Len(kinds) \in Nat /\ reliableQueue \in Seq(Reliable)
  BY BoundAssumption DEF TypeOK
<1>3. sent \in Seq(Reliable) /\ Len(sent) = Len(kinds) /\ \A i \in 1..Len(kinds) : sent[i].n = issued + i
  <2>1. \A i \in 1..Len(kinds) : [kind |-> kinds[i], n |-> issued + i] \in Reliable
    BY <1>1, <1>2 DEF Reliable
  <2> QED  BY <2>1
<1> HIDE DEF sent
<1>4. /\ reliableQueue \o sent \in Seq(Reliable)
      /\ Len(reliableQueue \o sent) = Len(reliableQueue) + Len(kinds)
      /\ \A i \in 1..Len(reliableQueue) + Len(kinds) :
           (reliableQueue \o sent)[i] = IF i <= Len(reliableQueue) THEN reliableQueue[i]
                                        ELSE sent[i - Len(reliableQueue)]
  <2>1. sent \in Seq(Reliable) /\ reliableQueue \in Seq(Reliable)
    BY <1>2, <1>3
  <2>2. /\ reliableQueue \o sent \in Seq(Reliable)
        /\ Len(reliableQueue \o sent) = Len(reliableQueue) + Len(sent)
        /\ \A i \in 1..Len(reliableQueue) + Len(sent) :
             (reliableQueue \o sent)[i] = IF i <= Len(reliableQueue) THEN reliableQueue[i]
                                          ELSE sent[i - Len(reliableQueue)]
    BY <2>1, ConcatProperties, Zenon
  <2> QED  BY <1>3, <2>2
<1>5. DOMAIN reliableQueue = 1..Len(reliableQueue) /\ Len(reliableQueue) \in Nat
  BY <1>2
<1>6. DOMAIN reliableQueue' = 1..Len(reliableQueue) + Len(kinds)
  BY <1>1, <1>4
<1> DEFINE both == reliableQueue \o sent
<1>7. \A i \in 1..Len(reliableQueue) + Len(kinds) :
        \/ i \in DOMAIN reliableQueue /\ both[i] = reliableQueue[i]
        \/ both[i].n = issued + (i - Len(reliableQueue))
  <2> TAKE i \in 1..Len(reliableQueue) + Len(kinds)
  <2> HIDE DEF both
  <2>1. both[i] = IF i <= Len(reliableQueue) THEN reliableQueue[i] ELSE sent[i - Len(reliableQueue)]
    BY <1>4 DEF both
  <2>2. CASE i <= Len(reliableQueue)
    BY <1>5, <2>1, <2>2
  <2>3. CASE ~(i <= Len(reliableQueue))
    <3>1. i - Len(reliableQueue) \in 1..Len(kinds)
      BY <1>2, <1>5, <2>3
    <3> QED  BY <1>3, <2>1, <2>3, <3>1
  <2> QED  BY <2>2, <2>3
<1> QED
  BY <1>1, <1>2, <1>4, <1>5, <1>6, <1>7

LEMMA Queues ==
  ASSUME TypeOK, Broadcast \/ Request \/ Subscribe \/ Unsubscribe
  PROVE  /\ \E kinds \in Seq(Kinds) : Enqueue(kinds)
         /\ UNCHANGED <<slotVars, writerVars>>
<1>0. /\ <<"event">> \in Seq(Kinds) /\ <<"subscribed">> \in Seq(Kinds) /\ <<"unsubscribed">> \in Seq(Kinds)
      /\ Append(<<>>, "reply") \in Seq(Kinds) /\ Append(<<"event">>, "reply") \in Seq(Kinds)
  BY DEF Kinds
<1>1. CASE Broadcast
  BY <1>0, <1>1 DEF Broadcast
<1>2. CASE Request
  <2>1. PICK events \in {<<>>, <<"event">>} : Enqueue(Append(events, "reply"))
    BY <1>2 DEF Request
  <2>2. Append(events, "reply") \in Seq(Kinds)
    BY <1>0
  <2> QED  BY <1>2, <2>1, <2>2 DEF Request
<1>3. CASE Subscribe
  BY <1>0, <1>3 DEF Subscribe
<1>4. CASE Unsubscribe
  BY <1>0, <1>4 DEF Unsubscribe
<1> QED
  BY <1>1, <1>2, <1>3, <1>4

(* The wire after a send.                                                  *)
LEMMA Grows ==
  ASSUME TypeOK, NEW m \in Reliable \cup Snapshot, wire' = Append(wire, m)
  PROVE  /\ wire' \in Seq(Reliable \cup Snapshot)
         /\ DOMAIN wire' = DOMAIN wire \cup {Len(wire) + 1} /\ Len(wire) + 1 \notin DOMAIN wire
         /\ DOMAIN wire \subseteq Nat /\ \A i \in DOMAIN wire : i < Len(wire) + 1
         /\ \A i \in DOMAIN wire : wire'[i] = wire[i]
         /\ wire'[Len(wire) + 1] = m
<1>1. wire \in Seq(Reliable \cup Snapshot) /\ Len(wire) \in Nat /\ DOMAIN wire = 1..Len(wire)
  BY DEF TypeOK
<1>2. /\ Append(wire, m) \in Seq(Reliable \cup Snapshot)
      /\ Len(Append(wire, m)) = Len(wire) + 1
      /\ \A i \in 1..Len(wire) : Append(wire, m)[i] = wire[i]
      /\ Append(wire, m)[Len(wire) + 1] = m
  BY <1>1
<1>3. DOMAIN wire' = 1..Len(wire) + 1
  BY <1>2
<1> QED
  BY <1>1, <1>2, <1>3

LEMMA SendsMessage ==
  ASSUME TypeOK, SentReliable
  PROVE  /\ reliableGet \in Reliable /\ Len(wire) + 1 \notin DOMAIN wire
         /\ Messages' = Messages \cup {Len(wire) + 1} /\ States' = States
         /\ DOMAIN wire \subseteq Nat /\ \A i \in DOMAIN wire : i < Len(wire) + 1 /\ wire'[i] = wire[i]
         /\ wire'[Len(wire) + 1] = reliableGet /\ wire' \in Seq(Reliable \cup Snapshot)
<1>1. reliableGet \in Reliable /\ wire' = Append(wire, reliableGet)
  BY DEF SentReliable, TypeOK
<1>2. IsReliable(reliableGet)
  BY <1>1 DEF IsReliable, Reliable, Kinds
<1> QED
  BY <1>1, <1>2, Grows DEF Messages, States

LEMMA SendsState ==
  ASSUME TypeOK, SentState
  PROVE  /\ stateGet \in Snapshot /\ Len(wire) + 1 \notin DOMAIN wire
         /\ States' = States \cup {Len(wire) + 1} /\ Messages' = Messages
         /\ DOMAIN wire \subseteq Nat /\ \A i \in DOMAIN wire : i < Len(wire) + 1 /\ wire'[i] = wire[i]
         /\ wire'[Len(wire) + 1] = stateGet /\ wire' \in Seq(Reliable \cup Snapshot)
<1>1. stateGet \in Snapshot /\ wire' = Append(wire, stateGet)
  BY DEF SentState, TypeOK
<1>2. ~IsReliable(stateGet)
  BY <1>1 DEF IsReliable, Snapshot
<1> QED
  BY <1>1, <1>2, Grows DEF Messages, States

(* The steps that touch no message.                                        *)
Idle == RequestCrashes \/ SendFails \/ SocketCloses \/ HandlerEnds \/ UNCHANGED vars

LEMMA IdleKeeps ==
  ASSUME Idle
  PROVE  /\ UNCHANGED <<reliableQueue, reliableGet, issued, stateSlot, stateGet, taken, wire, round>>
         /\ writer' = "gone" \/ writer' = writer
BY DEF Idle, RequestCrashes, SendFails, SocketCloses, HandlerEnds, Close, vars, queueVars, slotVars, writerVars

LEMMA TypeNext == TypeOK /\ [Next]_vars => TypeOK'
<1> SUFFICES ASSUME TypeOK, [Next]_vars PROVE TypeOK'
  OBVIOUS
<1>0. /\ reliableQueue \in Seq(Reliable) /\ reliableGet \in Reliable \cup {Nothing}
      /\ stateSlot \in Snapshot \cup {Nothing} /\ stateGet \in Snapshot \cup {Nothing}
      /\ issued \in 0..MaxMessages /\ taken \in 0..MaxSnapshots
      /\ wire \in Seq(Reliable \cup Snapshot)
      /\ writer = "reliable" => reliableGet # Nothing /\ ("state" \in round => stateGet # Nothing)
      /\ writer = "state" => stateGet # Nothing
  BY DEF TypeOK
<1>1. CASE Broadcast \/ Request \/ Subscribe \/ Unsubscribe
  <2>1. PICK kinds \in Seq(Kinds) : Enqueue(kinds)
    BY <1>1, Queues
  <2>2. UNCHANGED <<slotVars, writerVars>>
    BY <1>1, Queues
  <2>3. reliableQueue' \in Seq(Reliable) /\ issued' \in 0..MaxMessages
    BY <2>1, Enqueued
  <2> QED  BY <1>0, <2>2, <2>3 DEF TypeOK, slotVars, writerVars
<1>2. CASE Idle
  BY <1>0, <1>2, IdleKeeps DEF TypeOK
<1>3. CASE Push
  <2>1. stateSlot' \in Snapshot /\ taken' \in 0..MaxSnapshots
    BY <1>0, <1>3, BoundAssumption DEF Push, Snapshot
  <2> QED  BY <1>0, <1>3, <2>1 DEF Push, TypeOK, queueVars, writerVars
<1>4. CASE TakeReliable
  <2>1. reliableGet' \in Reliable /\ reliableQueue' \in Seq(Reliable)
    BY <1>0, <1>4, HeadTailProperties DEF TakeReliable
  <2> QED  BY <1>0, <1>4, <2>1 DEF TakeReliable, TypeOK, slotVars
<1>5. CASE TakeState
  BY <1>0, <1>5 DEF TakeState, TypeOK, queueVars
<1>6. CASE Wake
  BY <1>0, <1>6 DEF Wake, TypeOK, queueVars, slotVars
<1>7. CASE SentReliable
  BY <1>0, <1>7, SendsMessage DEF SentReliable, TypeOK, queueVars, slotVars
<1>8. CASE SentState
  BY <1>0, <1>8, SendsState DEF SentState, TypeOK, queueVars, slotVars
<1> QED
  BY <1>1, <1>2, <1>3, <1>4, <1>5, <1>6, <1>7, <1>8 DEF Next, Idle

LEMMA TypeInit == Init => TypeOK
BY BoundAssumption DEF Init, TypeOK

LEMMA TypeCorrect == Spec => []TypeOK
BY TypeInit, TypeNext, PTL DEF Spec

-----------------------------------------------------------------------------
LEMMA DroppedNext == TypeOK /\ NothingDropped /\ [Next]_vars => NothingDropped'
<1> SUFFICES ASSUME TypeOK, NothingDropped, [Next]_vars PROVE NothingDropped'
  OBVIOUS
<1> DEFINE left == issued - Len(reliableQueue)
           done == IF reliableGet = Nothing THEN left ELSE left - 1
<1>0. /\ \A i \in DOMAIN reliableQueue : reliableQueue[i].n = left + i
      /\ reliableGet # Nothing => reliableGet.n = left
      /\ {wire[i].n : i \in Messages} = 1..done
      /\ \A i, j \in Messages : i < j => wire[i].n < wire[j].n
  BY DEF NothingDropped
<1>t. /\ reliableQueue \in Seq(Reliable) /\ reliableGet \in Reliable \cup {Nothing}
      /\ issued \in Nat /\ Len(reliableQueue) \in Nat /\ DOMAIN reliableQueue = 1..Len(reliableQueue)
      /\ left \in Int
  BY DEF TypeOK
<1>1. CASE Broadcast \/ Request \/ Subscribe \/ Unsubscribe
  <2>1. PICK kinds \in Seq(Kinds) : Enqueue(kinds)
    BY <1>1, Queues
  <2>2. reliableGet' = reliableGet /\ wire' = wire
    BY <1>1, Queues DEF writerVars
  <2>3. /\ reliableQueue' \in Seq(Reliable) /\ issued' \in Nat
        /\ Len(reliableQueue') - Len(reliableQueue) = issued' - issued
        /\ \A i \in DOMAIN reliableQueue' :
             \/ i \in DOMAIN reliableQueue /\ reliableQueue'[i] = reliableQueue[i]
             \/ reliableQueue'[i].n = issued + (i - Len(reliableQueue))
    BY <2>1, Enqueued
  <2>4. left' = left
    BY <1>t, <2>3
  <2>5. done' = done
    BY <2>2, <2>4
  <2>6. \A i \in DOMAIN reliableQueue' : reliableQueue'[i].n = left + i
    BY <1>0, <1>t, <2>3
  <2>7. Messages' = Messages
    BY <2>2 DEF Messages
  <2> HIDE DEF left, done
  <2> QED  BY <1>0, <2>2, <2>4, <2>5, <2>6, <2>7 DEF NothingDropped, left, done
<1>2. CASE Idle \/ Push \/ TakeState \/ Wake
  <2>1. UNCHANGED <<reliableQueue, reliableGet, issued, wire>>
    BY <1>2, IdleKeeps DEF Push, TakeState, Wake, queueVars, slotVars, writerVars
  <2>2. Messages' = Messages
    BY <2>1 DEF Messages
  <2> QED  BY <1>0, <2>1, <2>2 DEF NothingDropped
<1>3. CASE TakeReliable
  <2>1. /\ reliableGet = Nothing /\ reliableQueue # <<>> /\ wire' = wire /\ issued' = issued
        /\ reliableGet' = Head(reliableQueue) /\ reliableQueue' = Tail(reliableQueue)
    BY <1>3 DEF TakeReliable
  <2>2. /\ Head(reliableQueue) \in Reliable /\ Head(reliableQueue) = reliableQueue[1] /\ 1 \in DOMAIN reliableQueue
        /\ Len(Tail(reliableQueue)) = Len(reliableQueue) - 1
        /\ DOMAIN Tail(reliableQueue) = 1..Len(reliableQueue) - 1
        /\ \A i \in 1..Len(reliableQueue) - 1 : Tail(reliableQueue)[i] = reliableQueue[i + 1]
    BY <1>t, <2>1
  <2>3. left' = left + 1 /\ reliableGet' # Nothing
    BY <1>t, <2>1, <2>2, Distinct
  <2>4. done' = done
    BY <1>t, <2>1, <2>3
  <2>5. reliableGet'.n = left'
    BY <1>0, <1>t, <2>1, <2>2, <2>3
  <2>6. \A i \in DOMAIN reliableQueue' : reliableQueue'[i].n = left' + i
    <3> TAKE i \in DOMAIN reliableQueue'
    <3>1. i \in 1..Len(reliableQueue) - 1 /\ i + 1 \in DOMAIN reliableQueue
      BY <1>t, <2>1, <2>2
    <3>2. reliableQueue'[i] = reliableQueue[i + 1]
      BY <2>1, <2>2, <3>1
    <3> QED  BY <1>0, <1>t, <2>3, <3>1, <3>2
  <2>7. Messages' = Messages
    BY <2>1 DEF Messages
  <2> HIDE DEF left, done
  <2> QED  BY <1>0, <2>1, <2>4, <2>5, <2>6, <2>7 DEF NothingDropped, left, done
<1>4. CASE SentReliable
  <2> DEFINE last == Len(wire) + 1
  <2>1. /\ reliableGet \in Reliable /\ last \notin DOMAIN wire
        /\ Messages' = Messages \cup {last}
        /\ \A i \in DOMAIN wire : i < last /\ wire'[i] = wire[i]
        /\ wire'[last] = reliableGet
    BY <1>4, SendsMessage
  <2>2. reliableGet' = Nothing /\ issued' = issued /\ reliableQueue' = reliableQueue
    BY <1>4 DEF SentReliable, queueVars
  <2>3. /\ reliableGet # Nothing /\ reliableGet.n = left /\ left \in Nat \ {0}
        /\ done = left - 1 /\ done' = left /\ left' = left
    <3>1. reliableGet # Nothing
      BY <2>1, Distinct
    <3>2. reliableGet.n = left /\ reliableGet.n \in Nat \ {0}
      BY <1>0, <2>1, <3>1 DEF Reliable
    <3>3. left' = left
      BY <2>2
    <3>4. done = left - 1 /\ done' = left
      BY <2>2, <3>1, <3>3
    <3> QED  BY <3>1, <3>2, <3>3, <3>4
  <2>4. Messages \subseteq DOMAIN wire /\ DOMAIN wire \subseteq Nat /\ last \in Nat
    BY DEF Messages, TypeOK
  <2> HIDE DEF last, left, done
  <2>5. \A i \in Messages : wire'[i].n = wire[i].n /\ wire[i].n \in 1..left - 1
    BY <1>0, <2>1, <2>3, <2>4
  <2>6. {wire'[i].n : i \in Messages'} = 1..done'
    <3>1. {wire'[i].n : i \in Messages'} = {wire[i].n : i \in Messages} \cup {left}
      BY <2>1, <2>3, <2>5
    <3>2. (1..left - 1) \cup {left} = 1..left
      BY <2>3
    <3> QED  BY <1>0, <2>3, <3>1, <3>2
  <2>7. \A i, j \in Messages' : i < j => wire'[i].n < wire'[j].n
    <3> TAKE i, j \in Messages'
    <3>1. CASE j = last
      BY <2>1, <2>3, <2>4, <2>5, <3>1
    <3>2. CASE i = last /\ j # last
      BY <2>1, <2>4, <3>2
    <3>3. CASE i # last /\ j # last
      BY <1>0, <2>1, <2>5, <3>3
    <3> QED  BY <3>1, <3>2, <3>3
  <2> QED  BY <1>0, <2>2, <2>3, <2>6, <2>7 DEF NothingDropped, left, done
<1>5. CASE SentState
  <2>1. /\ Messages' = Messages /\ \A i \in DOMAIN wire : wire'[i] = wire[i]
    BY <1>5, SendsState
  <2>2. reliableGet' = reliableGet /\ issued' = issued /\ reliableQueue' = reliableQueue
    BY <1>5 DEF SentState, queueVars
  <2>3. \A i \in Messages : wire'[i] = wire[i]
    BY <2>1 DEF Messages
  <2>4. {wire'[i].n : i \in Messages} = {wire[i].n : i \in Messages}
    BY <2>3
  <2> QED  BY <1>0, <2>1, <2>2, <2>3, <2>4 DEF NothingDropped
<1> QED
  BY <1>1, <1>2, <1>3, <1>4, <1>5 DEF Next, Idle

(* Replies and events leave in the order they were queued; none is lost,   *)
(* repeated or overtaken, for any limit and any number of messages         *)
(* (connection.py:4).                                                      *)
THEOREM NothingIsDropped == Spec => []NothingDropped
<1>1. Init => NothingDropped
  BY DEF Init, NothingDropped, Messages
<1> QED
  BY <1>1, DroppedNext, TypeCorrect, PTL DEF Spec

-----------------------------------------------------------------------------
(* LatestWins with what the next snapshot relies on: it is newer than all. *)
LatestInv ==
  /\ LatestWins
  /\ stateGet # Nothing => stateGet.n <= taken
  /\ \A i \in States : wire[i].n <= taken

LEMMA LatestNext == TypeOK /\ LatestInv /\ [Next]_vars => LatestInv'
<1> SUFFICES ASSUME TypeOK, LatestInv, [Next]_vars PROVE LatestInv'
  OBVIOUS
<1>0. /\ \A i, j \in States : i < j => wire[i].n < wire[j].n
      /\ stateGet # Nothing => \A i \in States : wire[i].n < stateGet.n
      /\ stateSlot # Nothing =>
           /\ stateSlot.n = taken
           /\ stateGet # Nothing => stateGet.n < taken
           /\ \A i \in States : wire[i].n < taken
      /\ stateSlot = Nothing /\ taken > 0 /\ writer # "gone" =>
           stateGet.n = taken \/ \E i \in States : wire[i].n = taken
      /\ stateGet # Nothing => stateGet.n <= taken
      /\ \A i \in States : wire[i].n <= taken
  BY DEF LatestInv, LatestWins
<1>t. /\ taken \in Nat /\ stateGet \in Snapshot \cup {Nothing} /\ stateSlot \in Snapshot \cup {Nothing}
      /\ stateGet.n \in Nat /\ stateSlot.n \in Nat /\ States \subseteq Nat
      /\ \A i \in States : wire[i].n \in Nat
  <2>1. \A i \in States : i \in Nat /\ wire[i] \in Reliable \cup Snapshot
    BY DEF States, TypeOK
  <2> QED  BY <2>1 DEF TypeOK, Snapshot, Reliable, Nothing
<1>1. CASE Broadcast \/ Request \/ Subscribe \/ Unsubscribe
  <2>1. UNCHANGED <<slotVars, writerVars>>
    BY <1>1, Queues
  <2> QED  BY <2>1 DEF LatestInv, LatestWins, States, slotVars, writerVars
<1>2. CASE Idle
  <2>1. UNCHANGED <<stateSlot, stateGet, taken, wire>> /\ (writer' = "gone" \/ writer' = writer)
    BY <1>2, IdleKeeps
  <2> QED  BY <2>1 DEF LatestInv, LatestWins, States
<1>3. CASE Push
  <2>1. /\ taken' = taken + 1 /\ stateSlot' = [kind |-> "state", n |-> taken + 1]
        /\ stateGet' = stateGet /\ wire' = wire
    BY <1>3 DEF Push, writerVars
  <2>2. stateSlot'.n = taken' /\ stateSlot' # Nothing
    BY <2>1 DEF Nothing
  <2>3. \A i \in States : wire[i].n < taken'
    BY <1>0, <1>t, <2>1
  <2>4. stateGet # Nothing => stateGet.n < taken'
    BY <1>0, <1>t, <2>1
  <2>5. States' = States
    BY <2>1 DEF States
  <2>6. /\ \A i \in States : wire[i].n <= taken'
        /\ stateGet # Nothing => stateGet.n <= taken'
    BY <1>0, <1>t, <2>1
  <2> QED  BY <1>0, <2>1, <2>2, <2>3, <2>4, <2>5, <2>6 DEF LatestInv, LatestWins
<1>4. CASE TakeState
  <2>1. /\ stateGet = Nothing /\ stateSlot # Nothing /\ stateGet' = stateSlot /\ stateSlot' = Nothing
        /\ taken' = taken /\ wire' = wire
    BY <1>4 DEF TakeState
  <2>2. stateGet'.n = taken /\ \A i \in States : wire[i].n < stateGet'.n
    BY <1>0, <1>t, <2>1
  <2>3. States' = States
    BY <2>1 DEF States
  <2>4. stateGet'.n <= taken
    BY <1>t, <2>2
  <2> QED  BY <1>0, <2>1, <2>2, <2>3, <2>4 DEF LatestInv, LatestWins
<1>5. CASE TakeReliable \/ Wake
  <2>1. UNCHANGED <<stateSlot, stateGet, taken, wire>> /\ writer # "gone"
    BY <1>5 DEF TakeReliable, Wake, slotVars
  <2> QED  BY <2>1 DEF LatestInv, LatestWins, States
<1>6. CASE SentReliable
  <2>1. States' = States /\ \A i \in DOMAIN wire : wire'[i] = wire[i]
    BY <1>6, SendsMessage
  <2>2. UNCHANGED <<stateSlot, stateGet, taken>> /\ writer # "gone"
    BY <1>6 DEF SentReliable, slotVars
  <2>3. \A i \in States : wire'[i] = wire[i]
    BY <2>1 DEF States
  <2> QED  BY <1>0, <2>1, <2>2, <2>3 DEF LatestInv, LatestWins
<1>7. CASE SentState
  <2> DEFINE last == Len(wire) + 1
  <2>1. /\ stateGet \in Snapshot /\ last \notin DOMAIN wire
        /\ States' = States \cup {last}
        /\ \A i \in DOMAIN wire : i < last /\ wire'[i] = wire[i]
        /\ wire'[last] = stateGet
    BY <1>7, SendsState
  <2>2. UNCHANGED <<stateSlot, taken>> /\ stateGet' = Nothing /\ writer # "gone" /\ stateGet # Nothing
    BY <1>7, <2>1, Distinct DEF SentState, slotVars
  <2>3. last \in Nat /\ \A i \in States : i < last /\ wire'[i] = wire[i]
    BY <2>1 DEF States, TypeOK
  <2> HIDE DEF last
  <2>4. \A i \in States' : wire'[i].n <= taken
    BY <1>0, <2>1, <2>2, <2>3
  <2>5. \A i, j \in States' : i < j => wire'[i].n < wire'[j].n
    <3> TAKE i, j \in States'
    <3>1. CASE j = last
      BY <1>0, <1>t, <2>1, <2>2, <2>3, <3>1
    <3>2. CASE i = last /\ j # last
      <4>1. j \in States /\ j < last /\ j \in Nat /\ last \in Nat
        BY <1>t, <2>1, <2>3, <3>2
      <4> QED  BY <3>2, <4>1
    <3>3. CASE i # last /\ j # last
      BY <1>0, <2>1, <2>3, <3>3
    <3> QED  BY <3>1, <3>2, <3>3
  <2>6. stateSlot # Nothing => \A i \in States' : wire'[i].n < taken
    BY <1>0, <2>1, <2>2, <2>3
  <2>7. stateSlot = Nothing /\ taken > 0 => \E i \in States' : wire'[i].n = taken
    BY <1>0, <2>1, <2>2, <2>3
  <2> QED  BY <1>0, <2>2, <2>4, <2>5, <2>6, <2>7 DEF LatestInv, LatestWins
<1> QED
  BY <1>1, <1>2, <1>3, <1>4, <1>5, <1>6, <1>7 DEF Next, Idle

(* Snapshots only move forward, and the newest one is in the slot, with    *)
(* the writer or sent, however long a send takes (connection.py:8).        *)
THEOREM LatestAlwaysWins == Spec => []LatestWins
<1>1. Init => LatestInv
  BY DEF Init, LatestInv, LatestWins, States
<1>2. LatestInv => LatestWins
  BY DEF LatestInv
<1> QED
  BY <1>1, <1>2, LatestNext, TypeCorrect, PTL DEF Spec
=============================================================================
