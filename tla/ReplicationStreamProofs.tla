----------------------- MODULE ReplicationStreamProofs -----------------------
(****************************************************************************)
(* Proofs about ReplicationStream, for every queue size and every number of *)
(* streams, messages and faults.                                            *)
(****************************************************************************)
EXTENDS ReplicationStream, SequenceTheorems, TLAPS

Items == Nat \cup {Exception}

LEMMA TakeFirst ==
  ASSUME NEW q \in Seq(Items), q # <<>>
  PROVE  /\ Head(q) \in Items /\ Tail(q) \in Seq(Items)
         /\ Len(Tail(q)) = Len(q) - 1 /\ Len(q) \in Nat /\ Len(q) > 0
         /\ q[1] = Head(q)
         /\ \A i \in 1..Len(Tail(q)) : Tail(q)[i] = q[i + 1]
  BY HeadTailProperties, LenProperties, EmptySeq

LEMMA PutLast ==
  ASSUME NEW q \in Seq(Items), NEW m \in Items
  PROVE  /\ Append(q, m) \in Seq(Items)
         /\ Len(q) \in Nat /\ Len(Append(q, m)) = Len(q) + 1
         /\ Append(q, m)[Len(q) + 1] = m
         /\ \A i \in 1..Len(q) : Append(q, m)[i] = q[i]
  BY AppendProperties, LenProperties

----------------------------------------------------------------------------
LEMMA BecomesFacts ==
  ASSUME stream \in [Streams -> Stream], NEW s \in Streams, NEW r \in Stream, Becomes(s, r)
  PROVE  /\ stream' \in [Streams -> Stream]
         /\ stream'[s] = r
         /\ \A t \in Streams : t # s => stream'[t] = stream[t]
  BY DEF Becomes

\* The reader threads keep the types.
LEMMA ReaderThreadType ==
  ASSUME TypeOK, ReaderInv, NEW s \in Streams, ReaderThread(s)
  PROVE  TypeOK'
<1> USE ValuesAssumption
<1>0. stream[s] \in Stream /\ wal \in Nat /\ confirmed \in 0..wal /\ stream[s].at <= wal
  BY DEF TypeOK
<1> DEFINE Same == UNCHANGED <<wal, consumer, shutdown, manager, faults>>
           Sends == \/ UNCHANGED <<todo, lost>>
                    \/ /\ todo' = (confirmed + 1)..wal
                       /\ lost' = lost \cup {m \in todo : m <= confirmed}
<1>1. ASSUME NEW r \in Stream, r.at <= wal, Becomes(s, r), Same,
             owner' \in {owner, s, None}, confirmed' \in 0..wal, Sends
      PROVE  TypeOK'
  <2>1. /\ stream' \in [Streams -> Stream]
        /\ \A t \in Streams : stream'[t].at <= wal
    BY <1>1, BecomesFacts DEF TypeOK
  <2>2. todo' \in SUBSET (1..wal) /\ lost' \in SUBSET (1..wal)
    <3>1. todo \in SUBSET (1..wal) /\ lost \in SUBSET (1..wal)
      BY DEF TypeOK
    <3>2. (confirmed + 1)..wal \in SUBSET (1..wal)
      BY <1>0
    <3>3. QED
      BY <1>1, <3>1, <3>2
  <2>3. QED
    BY <1>1, <2>1, <2>2 DEF TypeOK, consumer
<1>2. CASE ReaderReady(s)
  BY <1>0, <1>1, <1>2 DEF ReaderReady, slot, Stream, ReaderStates
<1>3. CASE Attach(s)
  <2> DEFINE r == [stream[s] EXCEPT !.state = "reading", !.at = confirmed]
  <2>0. confirmed \in Nat /\ confirmed <= wal
    BY <1>0
  <2>1. r \in Stream /\ r.at <= wal
    <3>1. r.at = confirmed
      BY <1>0 DEF Stream
    <3>2. r \in Stream
      BY <1>0, <2>0 DEF Stream, ReaderStates
    <3>3. QED
      BY <2>0, <3>1, <3>2
  <2>2. Becomes(s, r) /\ Same /\ owner' = s /\ confirmed' \in 0..wal /\ Sends
    BY <1>0, <1>3 DEF Attach
  <2>3. QED
    BY <1>1, <2>1, <2>2
<1>4. CASE ReaderRaises(s)
  BY <1>0, <1>1, <1>4 DEF ReaderRaises, slot, Stream, ReaderStates
<1>5. CASE Read(s)
  <2> DEFINE r == [stream[s] EXCEPT !.state = "putting", !.at = @ + 1,
                                    !.item = stream[s].at + 1]
             d == [stream[s] EXCEPT !.state = "ended"]
  <2>0. stream[s].at \in Nat /\ stream[s].at + 1 \in Nat
    BY <1>0 DEF Stream
  <2>1. r \in Stream /\ r.at <= wal /\ d \in Stream /\ d.at <= wal
    <3>1. r.at = stream[s].at + 1 /\ d.at = stream[s].at
      BY <1>0 DEF Stream
    <3>2. stream[s].at < wal
      BY <1>5 DEF Read
    <3>3. r \in Stream
      BY <1>0, <2>0 DEF Stream, ReaderStates
    <3>4. d \in Stream
      BY <1>0 DEF Stream, ReaderStates
    <3>5. QED
      BY <1>0, <2>0, <3>1, <3>2, <3>3, <3>4
  <2>2. /\ (Becomes(s, r) \/ Becomes(s, d)) /\ Same /\ owner' \in {owner, None}
        /\ UNCHANGED <<todo, lost>>
    BY <1>5 DEF Read
  <2>3. confirmed' \in 0..wal
    BY <1>0, <1>5, <2>0 DEF Read
  <2>4. QED
    BY <1>1, <2>1, <2>2, <2>3
<1>6. CASE Put(s)
  <2>1. stream[s].item \in Items
    BY <1>0, <1>6 DEF Put, ReaderInv, Stream, Items
  <2>2. Append(stream[s].queue, stream[s].item) \in Seq(Items)
    BY <1>0, <2>1, PutLast DEF Stream, Items
  <2>3. QED
    BY <1>0, <1>1, <1>6, <2>2 DEF Put, slot, Stream, ReaderStates, Items
<1>7. QED
  BY <1>2, <1>3, <1>4, <1>5, <1>6 DEF ReaderThread

\* So does the consumer thread.
LEMMA ConsumerThreadType ==
  ASSUME TypeOK, ConsumerInv, ConsumerThread
  PROVE  TypeOK'
<1> USE ValuesAssumption
<1> DEFINE Same == UNCHANGED <<slot, shutdown, manager>> /\ faults' \in [FaultKinds -> Nat]
           Labels == {"loop", "iterate", "starting", "probing", "putback", "poll", "message",
                      "failing", "joining", "closing", "closejoin", "sleep", "done", "raised"}
<1>0. /\ This \in Stream /\ wal \in Nat /\ This.at <= wal /\ retry_count \in Nat
      /\ hand \in Nat \cup {None} /\ reader \in BOOLEAN /\ cur \in Streams
      /\ Queue \in Seq(Items)
  BY DEF TypeOK, This, Queue, Stream, Items
<1>1. ASSUME \/ UNCHANGED stream
             \/ \E s \in Streams, r \in Stream : r.at <= wal /\ Becomes(s, r),
             Same, pc' \in Labels, cur' \in Streams, reader' \in BOOLEAN,
             hand' \in Nat \cup {None}, retry_count' \in Nat, todo' \in SUBSET todo,
             UNCHANGED lost
      PROVE  TypeOK'
  <2>1. /\ stream' \in [Streams -> Stream]
        /\ \A t \in Streams : stream'[t].at <= wal
    <3>1. CASE UNCHANGED stream
      BY <3>1 DEF TypeOK
    <3>2. ASSUME NEW s \in Streams, NEW r \in Stream, r.at <= wal, Becomes(s, r)
          PROVE  <2>1!1 /\ <2>1!2
      BY <3>2, BecomesFacts DEF TypeOK
    <3>3. QED
      BY <1>1, <3>1, <3>2
  <2>2. QED
    BY <1>1, <2>1 DEF TypeOK, slot
<1>2. ASSUME NEW k \in FaultKinds, Fault(k) PROVE faults' \in [FaultKinds -> Nat]
  BY <1>2 DEF Fault, TypeOK
<1>3. /\ UNCHANGED faults => faults' \in [FaultKinds -> Nat]
      /\ "start" \in FaultKinds /\ "handler" \in FaultKinds
  BY DEF TypeOK, FaultKinds
<1>4. CASE LoopEnds \/ LoopAgain \/ Sleep
  BY <1>0, <1>1, <1>3, <1>4 DEF LoopEnds, LoopAgain, Sleep, Goto
<1>5. ASSUME NEW s \in Streams, Connect(s) PROVE TypeOK'
  <2>1. NewStream \in Stream /\ NewStream.at <= wal
    BY <1>0, EmptySeq DEF NewStream, Stream, ReaderStates
  <2>2. QED
    BY <1>0, <1>1, <1>3, <1>5, <2>1 DEF Connect, Goto
<1>6. CASE Iterate
  <2> DEFINE r == [This EXCEPT !.state = "new"]
  <2>1. r \in Stream /\ r.at <= wal
    BY <1>0 DEF Stream, ReaderStates
  <2>2. QED
    BY <1>0, <1>1, <1>3, <1>6, <2>1 DEF Iterate, Goto
<1>7. CASE IterateNoReader
  BY <1>0, <1>1, <1>3, <1>7 DEF IterateNoReader, Raise, Goto
<1>8. CASE ReadyInTime \/ StartTimeout
  BY <1>0, <1>1, <1>2, <1>3, <1>8 DEF ReadyInTime, StartTimeout, Raise, Goto
<1>9. CASE ProbeEmpty
  <2> DEFINE r == [This EXCEPT !.connected = TRUE]
  <2>1. r \in Stream /\ r.at <= wal
    BY <1>0 DEF Stream, ReaderStates
  <2>2. QED
    BY <1>0, <1>1, <1>3, <1>9, <2>1 DEF ProbeEmpty, Goto
<1>10. CASE ProbeException \/ ProbeMessage \/ PollException \/ PollMessage
  <2> DEFINE r == [This EXCEPT !.queue = Tail(@)]
  <2>1. Queue # <<>> /\ Becomes(cur, r) /\ UNCHANGED <<cur, reader, faults, todo, lost>> /\ Same
    BY <1>3, <1>10
    DEF ProbeException, ProbeMessage, PollException, PollMessage, Raise, Goto
  <2>2. Tail(Queue) \in Seq(Items) /\ Head(Queue) \in Items
    BY <1>0, <2>1, TakeFirst
  <2>3. r \in Stream /\ r.at <= wal
    BY <1>0, <2>2 DEF Stream, Items, Queue
  <2>4. pc' \in Labels /\ retry_count' \in Nat /\ hand' \in Nat \cup {None}
    BY <1>0, <1>10, <2>2
    DEF ProbeException, ProbeMessage, PollException, PollMessage, Raise, Goto, Items
  <2>5. QED
    BY <1>0, <1>1, <2>1, <2>3, <2>4
<1>11. CASE PutBack
  <2> DEFINE r == [This EXCEPT !.queue = Append(@, hand), !.connected = TRUE]
  <2>1. hand \in Items
    BY <1>0, <1>11 DEF PutBack, ConsumerInv, Items
  <2>2. Append(Queue, hand) \in Seq(Items)
    BY <1>0, <2>1, PutLast
  <2>3. r \in Stream /\ r.at <= wal
    BY <1>0, <2>2 DEF Stream, Items, Queue
  <2>4. QED
    BY <1>0, <1>1, <1>3, <1>11, <2>3 DEF PutBack, Goto
<1>12. CASE PollStopped \/ BreakOnShutdown \/ Handle \/ HandlerRaises
  BY <1>0, <1>1, <1>2, <1>3, <1>12
  DEF PollStopped, BreakOnShutdown, Handle, HandlerRaises, Raise, Goto
<1>13. CASE Disconnect
  <2> DEFINE r == [This EXCEPT !.stop = @ \/ (reader /\ This.connected)]
  <2>1. r \in Stream /\ r.at <= wal
    BY <1>0 DEF Stream
  <2>2. QED
    BY <1>0, <1>1, <1>3, <1>13, <2>1 DEF Disconnect, Goto
<1>14. CASE Disconnected
  <2> DEFINE r == [This EXCEPT !.connected = @ /\ ~reader]
  <2>1. r \in Stream /\ r.at <= wal
    BY <1>0 DEF Stream
  <2>2. QED
    BY <1>0, <1>1, <1>3, <1>14, <2>1 DEF Disconnected, Goto
<1>15. QED
  BY <1>4, <1>5, <1>6, <1>7, <1>8, <1>9, <1>10, <1>11, <1>12, <1>13, <1>14
  DEF ConsumerThread
----------------------------------------------------------------------------
LEMMA EnvironmentType ==
  ASSUME TypeOK,
         \/ Commit \/ ConnectionLost \/ ServerNotices \/ Signal \/ StopStreaming
         \/ StreamingStopped \/ Restart \/ (\E s \in Streams : Confirm(s))
  PROVE  TypeOK'
<1> USE ValuesAssumption
<1>0. /\ This \in Stream /\ wal \in Nat /\ This.at <= wal /\ confirmed \in 0..wal
      /\ reader \in BOOLEAN /\ cur \in Streams
  BY DEF TypeOK, This
<1>1. ASSUME NEW k \in FaultKinds, Fault(k) PROVE faults' \in [FaultKinds -> Nat]
  BY <1>1 DEF Fault, TypeOK
<1>2. CASE Commit
  <2>1. wal' \in 0..MaxMessages /\ confirmed' \in 0..wal' /\ todo' \in SUBSET (1..wal')
        /\ \A s \in Streams : stream[s].at <= wal'
    <3>1. \A s \in Streams : stream[s].at \in Nat /\ stream[s].at <= wal
      BY DEF TypeOK, Stream
    <3>2. todo \in SUBSET (1..wal) /\ wal \in 0..MaxMessages
      BY DEF TypeOK
    <3>3. QED
      BY <1>0, <1>2, <3>1, <3>2, BoundsAssumption DEF Commit
  <2>2. lost' \in SUBSET (1..wal')
    <3>1. lost \in SUBSET (1..wal) /\ lost' = lost /\ wal' = wal + 1
      BY <1>2 DEF Commit, TypeOK
    <3>2. QED
      BY <1>0, <3>1
  <2>3. QED
    BY <1>2, <2>1, <2>2 DEF Commit, TypeOK, consumer
<1>3. ASSUME NEW s \in Streams, Confirm(s) PROVE TypeOK'
  <2>1. stream[s].at \in Nat /\ stream[s].at <= wal
    BY DEF TypeOK, Stream
  <2>2. confirmed' \in 0..wal
    BY <1>0, <1>3, <2>1 DEF Confirm
  <2>3. QED
    BY <1>3, <2>2 DEF Confirm, TypeOK, consumer
<1>4. CASE ConnectionLost
  BY <1>1, <1>4 DEF ConnectionLost, TypeOK, consumer, FaultKinds
<1>5. CASE ServerNotices
  BY <1>5 DEF ServerNotices, TypeOK, consumer
<1>6. CASE Signal
  BY <1>1, <1>6 DEF Signal, TypeOK, consumer, slot, FaultKinds
<1>7. ASSUME NEW s \in Streams, NEW r \in Stream, r.at <= wal, Becomes(s, r)
      PROVE  stream' \in [Streams -> Stream] /\ \A t \in Streams : stream'[t].at <= wal
  BY <1>7, BecomesFacts DEF TypeOK
<1>8. CASE StopStreaming
  <2> DEFINE r == [This EXCEPT !.stop = @ \/ (reader /\ This.connected)]
  <2>1. r \in Stream /\ r.at <= wal
    BY <1>0 DEF Stream
  <2>2. stream' \in [Streams -> Stream] /\ \A t \in Streams : stream'[t].at <= wal
    BY <1>0, <1>7, <1>8, <2>1 DEF StopStreaming
  <2>3. faults' \in [FaultKinds -> Nat]
    BY <1>1, <1>8 DEF StopStreaming, FaultKinds
  <2>4. QED
    BY <1>0, <1>8, <2>2, <2>3 DEF StopStreaming, TypeOK, consumer, slot
<1>9. CASE StreamingStopped
  <2> DEFINE m == manager.target
             r == [stream[m] EXCEPT !.connected = FALSE]
  <2>1. CASE m = None
    BY <1>9, <2>1 DEF StreamingStopped, TypeOK, slot
  <2>2. CASE m # None
    <3>1. m \in Streams
      BY <2>2 DEF TypeOK
    <3>2. stream[m] \in Stream /\ stream[m].at <= wal
      BY <3>1 DEF TypeOK
    <3>3. r \in Stream /\ r.at <= wal
      BY <3>2 DEF Stream
    <3>4. Becomes(m, r) /\ reader' = FALSE
      BY <1>9, <2>2 DEF StreamingStopped
    <3>5. stream' \in [Streams -> Stream] /\ \A t \in Streams : stream'[t].at <= wal
      BY <1>7, <3>1, <3>3, <3>4
    <3>6. QED
      BY <1>9, <3>4, <3>5 DEF StreamingStopped, TypeOK, slot
  <2>3. QED
    BY <2>1, <2>2
<1>10. CASE Restart
  <2>1. NewStream \in Stream /\ NewStream.at <= wal
    BY <1>0, EmptySeq DEF NewStream, Stream, ReaderStates
  <2>2. stream' \in [Streams -> Stream] /\ \A t \in Streams : stream'[t].at <= wal
    BY <1>10, <2>1 DEF Restart
  <2>3. faults' \in [FaultKinds -> Nat]
    BY <1>1, <1>10 DEF Restart, FaultKinds
  <2>4. QED
    BY <1>10, <2>2, <2>3 DEF Restart, TypeOK
<1>11. QED
  BY <1>2, <1>3, <1>4, <1>5, <1>6, <1>8, <1>9, <1>10

LEMMA NextType ==
  ASSUME TypeOK, ReaderInv, ConsumerInv, [Next]_vars
  PROVE  TypeOK'
<1>1. CASE UNCHANGED vars
  BY <1>1 DEF vars, slot, consumer, TypeOK
<1>2. QED
  BY <1>1, ReaderThreadType, ConsumerThreadType, EnvironmentType DEF Next

----------------------------------------------------------------------------
\* A reader thread's state and its stream agree.
ReaderOK(r) ==
    /\ r.state \in {"none", "new", "opening"} => r.queue = <<>> /\ r.at = 0
    /\ (r.state = "putting") <=> (r.item # None)

LEMMA BecomesReaderOK ==
  ASSUME TypeOK, ReaderInv, NEW s \in Streams, NEW r, Becomes(s, r), ReaderOK(r)
  PROVE  ReaderInv'
  BY DEF TypeOK, ReaderInv, ReaderOK, Becomes

LEMMA NewStreamOK == ReaderOK(NewStream)
  BY DEF ReaderOK, NewStream

LEMMA NextReaderInv ==
  ASSUME TypeOK, ReaderInv, ConsumerInv, [Next]_vars
  PROVE  ReaderInv'
<1> USE ValuesAssumption
<1>0. /\ cur \in Streams /\ \A s \in Streams : ReaderOK(stream[s]) /\ stream[s] \in Stream
      /\ This \in Stream /\ ReaderOK(This)
  BY DEF TypeOK, ReaderInv, ReaderOK, This
<1>1. ASSUME UNCHANGED stream PROVE ReaderInv'
  BY <1>1 DEF ReaderInv
<1>2. ASSUME NEW s \in Streams, ReaderThread(s) PROVE ReaderInv'
  <2>1. \E r : Becomes(s, r) /\ ReaderOK(r)
    <3>1. CASE ReaderReady(s)
      <4>1. ReaderOK([stream[s] EXCEPT !.state = "opening", !.ready = TRUE])
        BY <1>0, <3>1 DEF ReaderReady, ReaderOK, Stream
      <4>2. QED
        BY <3>1, <4>1 DEF ReaderReady
    <3>2. CASE Attach(s)
      <4>1. ReaderOK([stream[s] EXCEPT !.state = "reading", !.at = confirmed])
        BY <1>0, <3>2 DEF Attach, ReaderOK, Stream
      <4>2. QED
        BY <3>2, <4>1 DEF Attach
    <3>3. CASE ReaderRaises(s)
      <4>1. ReaderOK([stream[s] EXCEPT !.state = "putting", !.item = Exception])
        BY <1>0 DEF ReaderOK, Stream
      <4>2. QED
        BY <3>3, <4>1 DEF ReaderRaises
    <3>4. CASE Read(s)
      <4> DEFINE r == [stream[s] EXCEPT !.state = "putting", !.at = @ + 1,
                                        !.item = stream[s].at + 1]
                 d == [stream[s] EXCEPT !.state = "ended"]
      <4>1. stream[s].at \in Nat /\ stream[s].at + 1 # None
        BY <1>0 DEF Stream
      <4>2. stream[s].state = "reading" /\ (Becomes(s, r) \/ Becomes(s, d))
        BY <3>4 DEF Read
      <4>3. ReaderOK(d)
        BY <1>0, <4>2 DEF ReaderOK, Stream
      <4>4. r.state = "putting" /\ r.item = stream[s].at + 1
        BY <1>0 DEF Stream
      <4>5. ReaderOK(r)
        BY <4>1, <4>4 DEF ReaderOK
      <4>6. QED
        BY <4>2, <4>3, <4>5
    <3>5. CASE Put(s)
      <4> DEFINE r == [stream[s] EXCEPT
                          !.state = IF stream[s].item = Exception THEN "ended" ELSE "reading",
                          !.queue = Append(@, stream[s].item),
                          !.item = None]
      <4>1. ReaderOK(r)
        BY <1>0 DEF ReaderOK, Stream
      <4>2. QED
        BY <3>5, <4>1 DEF Put
    <3>6. QED
      BY <1>2, <3>1, <3>2, <3>3, <3>4, <3>5 DEF ReaderThread
  <2>2. QED
    BY <2>1, BecomesReaderOK
<1>3. ASSUME NEW s \in Streams, Connect(s) PROVE ReaderInv'
  BY <1>3, BecomesReaderOK, NewStreamOK DEF Connect
<1>4. CASE Iterate
  <2>1. ~This.connected => This.state = "none"
    BY <1>4 DEF Iterate, ConsumerInv
  <2>2. ~This.connected => ReaderOK([This EXCEPT !.state = "new"])
    BY <1>0, <2>1 DEF ReaderOK, Stream
  <2>3. QED
    BY <1>0, <1>1, <1>4, <2>2, BecomesReaderOK DEF Iterate
<1>5. CASE ProbeEmpty
  <2>1. ReaderOK([This EXCEPT !.connected = TRUE])
    BY <1>0 DEF ReaderOK, Stream
  <2>2. QED
    BY <1>0, <1>5, <2>1, BecomesReaderOK DEF ProbeEmpty
<1>6. CASE ProbeException \/ ProbeMessage \/ PollException \/ PollMessage
  <2>1. Queue # <<>> /\ Becomes(cur, [This EXCEPT !.queue = Tail(@)])
    BY <1>6 DEF ProbeException, ProbeMessage, PollException, PollMessage
  <2>2. ReaderOK([This EXCEPT !.queue = Tail(@)])
    BY <1>0, <2>1 DEF ReaderOK, Stream, Queue
  <2>3. QED
    BY <1>0, <2>1, <2>2, BecomesReaderOK
<1>7. CASE PutBack
  <2>1. ReaderOK([This EXCEPT !.queue = Append(@, hand), !.connected = TRUE])
    BY <1>0, <1>7 DEF PutBack, ConsumerInv, ReaderOK, Stream
  <2>2. QED
    BY <1>0, <1>7, <2>1, BecomesReaderOK DEF PutBack
<1>8. CASE Disconnect \/ StopStreaming
  <2>1. ReaderOK([This EXCEPT !.stop = @ \/ (reader /\ This.connected)])
    BY <1>0 DEF ReaderOK, Stream
  <2>2. QED
    BY <1>0, <1>8, <2>1, BecomesReaderOK DEF Disconnect, StopStreaming
<1>9. CASE Disconnected
  <2>1. ReaderOK([This EXCEPT !.connected = @ /\ ~reader])
    BY <1>0 DEF ReaderOK, Stream
  <2>2. QED
    BY <1>0, <1>9, <2>1, BecomesReaderOK DEF Disconnected
<1>10. CASE StreamingStopped
  <2>1. manager.target \in Streams \cup {None}
    BY DEF TypeOK
  <2>2. manager.target \in Streams =>
           ReaderOK([stream[manager.target] EXCEPT !.connected = FALSE])
    BY <1>0 DEF ReaderOK, Stream
  <2>3. QED
    BY <1>1, <1>10, <2>1, <2>2, BecomesReaderOK DEF StreamingStopped
<1>11. CASE Restart
  BY <1>11, NewStreamOK DEF Restart, ReaderInv, ReaderOK
<1>12. CASE \/ LoopEnds \/ LoopAgain \/ IterateNoReader \/ ReadyInTime \/ StartTimeout
            \/ PollStopped \/ BreakOnShutdown \/ Handle \/ HandlerRaises \/ Sleep
            \/ Commit \/ ConnectionLost \/ ServerNotices \/ Signal \/ UNCHANGED vars
  BY <1>1, <1>12
  DEF LoopEnds, LoopAgain, IterateNoReader, ReadyInTime, StartTimeout, PollStopped,
      BreakOnShutdown, Handle, HandlerRaises, Sleep, Commit, ConnectionLost, ServerNotices,
      Signal, vars
<1>13. ASSUME NEW s \in Streams, Confirm(s) PROVE ReaderInv'
  BY <1>1, <1>13 DEF Confirm
<1>14. QED
  BY <1>2, <1>3, <1>4, <1>5, <1>6, <1>7, <1>8, <1>9, <1>10, <1>11, <1>12, <1>13
  DEF Next, ConsumerThread
----------------------------------------------------------------------------
\* What the reader threads leave alone in a stream.
LEMMA ReaderThreadKeeps ==
  ASSUME TypeOK, NEW s \in Streams, ReaderThread(s)
  PROVE  /\ UNCHANGED consumer /\ UNCHANGED <<shutdown, manager>>
         /\ This'.connected = This.connected
         /\ This.state \notin {"none", "new", "opening"} =>
               This'.state \notin {"none", "new", "opening"}
         /\ This.state = "none" => This'.state = "none"
<1>0. stream[s] \in Stream /\ cur \in Streams
  BY DEF TypeOK
<1>1. UNCHANGED consumer /\ UNCHANGED <<shutdown, manager>>
  BY DEF ReaderThread, ReaderReady, Attach, ReaderRaises, Read, Put
<1>2. stream[s].state # "none"
  BY DEF ReaderThread, ReaderReady, Attach, ReaderRaises, Read, Put
<1>3. \E r : /\ Becomes(s, r) /\ r.connected = stream[s].connected
             /\ stream[s].state \notin {"none", "new", "opening"} =>
                   r.state \notin {"none", "new", "opening"}
  <2>1. CASE ReaderReady(s)
    <3>1. [stream[s] EXCEPT !.state = "opening", !.ready = TRUE].connected = stream[s].connected
      BY <1>0 DEF Stream
    <3>2. QED
      BY <2>1, <3>1 DEF ReaderReady
  <2>2. CASE Attach(s)
    <3> DEFINE r == [stream[s] EXCEPT !.state = "reading", !.at = confirmed]
    <3>1. r.connected = stream[s].connected /\ r.state = "reading"
      BY <1>0 DEF Stream
    <3>2. QED
      BY <2>2, <3>1 DEF Attach
  <2>3. CASE ReaderRaises(s)
    <3> DEFINE r == [stream[s] EXCEPT !.state = "putting", !.item = Exception]
    <3>1. r.connected = stream[s].connected /\ r.state = "putting"
      BY <1>0 DEF Stream
    <3>2. QED
      BY <2>3, <3>1 DEF ReaderRaises
  <2>4. CASE Read(s)
    <3> DEFINE r == [stream[s] EXCEPT !.state = "putting", !.at = @ + 1,
                                      !.item = stream[s].at + 1]
               d == [stream[s] EXCEPT !.state = "ended"]
    <3>1. /\ r.connected = stream[s].connected /\ r.state = "putting"
          /\ d.connected = stream[s].connected /\ d.state = "ended"
      BY <1>0 DEF Stream
    <3>2. QED
      BY <2>4, <3>1 DEF Read
  <2>5. CASE Put(s)
    <3> DEFINE r == [stream[s] EXCEPT
                        !.state = IF stream[s].item = Exception THEN "ended" ELSE "reading",
                        !.queue = Append(@, stream[s].item),
                        !.item = None]
    <3>1. r.connected = stream[s].connected /\ r.state \in {"ended", "reading"}
      BY <1>0 DEF Stream
    <3>2. QED
      BY <2>5, <3>1 DEF Put
  <2>6. QED
    BY <2>1, <2>2, <2>3, <2>4, <2>5 DEF ReaderThread
<1>4. PICK r : /\ Becomes(s, r) /\ r.connected = stream[s].connected
               /\ stream[s].state \notin {"none", "new", "opening"} =>
                     r.state \notin {"none", "new", "opening"}
  BY <1>3
<1>5. cur' = cur
  BY <1>1 DEF consumer
<1>6. stream'[cur] = IF s = cur THEN r ELSE stream[cur]
  BY <1>0, <1>4 DEF Becomes, TypeOK
<1>7. QED
  BY <1>1, <1>2, <1>4, <1>5, <1>6 DEF This

\* What the consumer does to its stream, field by field.
LEMMA ThisBecomes ==
  ASSUME TypeOK, UNCHANGED cur, NEW r, Becomes(cur, r)
  PROVE  This' = r
  BY DEF TypeOK, Becomes, This

LEMMA NextConsumerInv ==
  ASSUME TypeOK, ReaderInv, ConsumerInv, [Next]_vars
  PROVE  ConsumerInv'
<1> USE ValuesAssumption
<1>0. This \in Stream /\ cur \in Streams /\ hand \in Nat \cup {None}
  BY DEF TypeOK, This
<1>1. ASSUME UNCHANGED consumer,
             This'.connected = This.connected,
             This.state \notin {"none", "new", "opening"} =>
                   This'.state \notin {"none", "new", "opening"},
             This.state = "none" => This'.state = "none"
      PROVE  ConsumerInv'
  BY <1>1 DEF ConsumerInv, consumer
<1>2. ASSUME NEW s \in Streams, ReaderThread(s) PROVE ConsumerInv'
  BY <1>1, <1>2, ReaderThreadKeeps
<1>3. ASSUME NEW s \in Streams, Confirm(s) PROVE ConsumerInv'
  BY <1>1, <1>3 DEF Confirm, This, consumer
<1>4. CASE Commit \/ ConnectionLost \/ ServerNotices \/ Signal \/ UNCHANGED vars
  BY <1>1, <1>4 DEF Commit, ConnectionLost, ServerNotices, Signal, vars, consumer, This
<1>5. CASE LoopEnds \/ LoopAgain \/ Sleep
  BY <1>5 DEF LoopEnds, LoopAgain, Sleep, Goto, ConsumerInv, This
<1>6. ASSUME NEW s \in Streams, Connect(s) PROVE ConsumerInv'
  <2>1. This' = NewStream
    BY <1>6 DEF Connect, Becomes, TypeOK, This
  <2>2. QED
    BY <1>6, <2>1 DEF Connect, Goto, ConsumerInv, NewStream
<1>7. CASE Iterate
  BY <1>7 DEF Iterate, Goto, ConsumerInv, This
<1>8. CASE IterateNoReader \/ StartTimeout \/ HandlerRaises \/ ProbeException \/ PollException
  BY <1>8
  DEF IterateNoReader, StartTimeout, HandlerRaises, ProbeException, PollException, Raise, Goto,
      ConsumerInv
<1>9. CASE ReadyInTime
  BY <1>9 DEF ReadyInTime, Goto, ConsumerInv
<1>10. CASE ProbeEmpty
  <2>1. This' = [This EXCEPT !.connected = TRUE]
    BY <1>10, ThisBecomes DEF ProbeEmpty
  <2>2. This'.connected
    BY <1>0, <2>1 DEF Stream
  <2>3. QED
    BY <1>10, <2>2 DEF ProbeEmpty, Goto, ConsumerInv
<1>11. CASE ProbeMessage \/ PollMessage
  <2>1. Queue # <<>> /\ Head(Queue) # Exception /\ hand' = Head(Queue)
    BY <1>11 DEF ProbeMessage, PollMessage
  <2>2. Queue \in Seq(Items)
    BY <1>0 DEF Queue, Stream, Items
  <2>3. hand' \in Nat
    BY <2>1, <2>2, TakeFirst DEF Items
  <2>4. This.state \notin {"none", "new", "opening"}
    BY <1>0, <2>1 DEF ReaderInv, Queue, This
  <2>5. This' = [This EXCEPT !.queue = Tail(@)]
    BY <1>11, ThisBecomes DEF ProbeMessage, PollMessage
  <2>6. This'.state = This.state /\ This'.connected = This.connected
    BY <1>0, <2>5 DEF Stream
  <2>7. CASE ProbeMessage
    BY <2>3, <2>4, <2>6, <2>7 DEF ProbeMessage, Goto, ConsumerInv
  <2>8. CASE PollMessage
    BY <2>3, <2>4, <2>6, <2>8 DEF PollMessage, Goto, ConsumerInv
  <2>9. QED
    BY <1>11, <2>7, <2>8
<1>12. CASE PutBack
  <2>1. This' = [This EXCEPT !.queue = Append(@, hand), !.connected = TRUE]
    BY <1>12, ThisBecomes DEF PutBack
  <2>2. This'.connected
    BY <1>0, <2>1 DEF Stream
  <2>3. QED
    BY <1>12, <2>2 DEF PutBack, Goto, ConsumerInv
<1>13. CASE PollStopped \/ BreakOnShutdown \/ Handle
  BY <1>13 DEF PollStopped, BreakOnShutdown, Handle, Goto, ConsumerInv, This
<1>14. CASE Disconnect
  BY <1>14 DEF Disconnect, Goto, ConsumerInv
<1>15. CASE Disconnected
  BY <1>15 DEF Disconnected, Goto, ConsumerInv
<1>16. CASE StopStreaming
  <2>1. This' = [This EXCEPT !.stop = @ \/ (reader /\ This.connected)] /\ UNCHANGED consumer
    BY <1>16, ThisBecomes DEF StopStreaming, consumer
  <2>2. This'.state = This.state /\ This'.connected = This.connected
    BY <1>0, <2>1 DEF Stream
  <2>3. QED
    BY <1>1, <2>1, <2>2
<1>17. CASE StreamingStopped
  <2>1. CASE manager.target = None
    BY <1>1, <1>17, <2>1 DEF StreamingStopped, consumer, This
  <2>2. CASE manager.target # None
    <3> DEFINE m == manager.target
    <3>1. m \in Streams /\ stream[m] \in Stream
      BY <2>2 DEF TypeOK
    <3>2. Becomes(m, [stream[m] EXCEPT !.connected = FALSE]) /\ reader' = FALSE
      BY <1>17, <2>2 DEF StreamingStopped
    <3>3. UNCHANGED <<pc, cur, hand>>
      BY <1>17 DEF StreamingStopped
    <3>4. This'.state = This.state
      BY <1>0, <3>1, <3>2, <3>3 DEF Becomes, TypeOK, Stream, This
    <3>5. QED
      BY <3>2, <3>3, <3>4 DEF ConsumerInv
  <2>3. QED
    BY <2>1, <2>2
<1>18. CASE Restart
  BY <1>18 DEF Restart, ConsumerInv
<1>19. QED
  BY <1>2, <1>3, <1>4, <1>5, <1>6, <1>7, <1>8, <1>9, <1>10, <1>11, <1>12, <1>13, <1>14, <1>15,
     <1>16, <1>17, <1>18
  DEF Next, ConsumerThread
----------------------------------------------------------------------------
\* The line of messages before the consumer.

LEMMA LineWithoutHand ==
  ASSUME hand = None
  PROVE  Line = Queue
  BY DEF Line

LEMMA LineWithHand ==
  ASSUME NEW q \in Seq(Items), NEW h \in Nat
  PROVE  /\ <<h>> \o q \in Seq(Items)
         /\ Len(<<h>> \o q) = Len(q) + 1 /\ Len(q) \in Nat
         /\ (<<h>> \o q)[1] = h
         /\ \A i \in 1..Len(q) : (<<h>> \o q)[i + 1] = q[i]
<1>1. h \in Items /\ <<h>> \in Seq(Items) /\ Len(<<h>>) = 1 /\ <<h>>[1] = h
  BY DEF Items
<1>2. Len(q) \in Nat
  BY LenProperties
<1>3. QED
  BY <1>1, <1>2, ConcatProperties

LEMMA LineType ==
  ASSUME TypeOK
  PROVE  Line \in Seq(Items) /\ Len(Line) \in Nat /\ Queue \in Seq(Items)
<1>1. Queue \in Seq(Items) /\ hand \in Nat \cup {None}
  BY DEF TypeOK, Queue, This, Stream, Items
<1>2. Line \in Seq(Items)
  BY <1>1, LineWithHand DEF Line
<1>3. QED
  BY <1>1, <1>2, LenProperties

\* Moving the head of the queue to the hand leaves the line as it is.
LEMMA TakingKeepsLine ==
  ASSUME NEW q \in Seq(Items), q # <<>>, Head(q) \in Nat
  PROVE  <<Head(q)>> \o Tail(q) = q
<1> DEFINE l == <<Head(q)>> \o Tail(q)
<1>1. /\ Tail(q) \in Seq(Items) /\ Len(Tail(q)) = Len(q) - 1 /\ Len(q) \in Nat /\ Len(q) > 0
      /\ q[1] = Head(q) /\ \A i \in 1..Len(Tail(q)) : Tail(q)[i] = q[i + 1]
  BY TakeFirst
<1>2. /\ l \in Seq(Items) /\ Len(l) = Len(q) /\ l[1] = Head(q)
      /\ \A i \in 1..Len(Tail(q)) : l[i + 1] = Tail(q)[i]
  BY <1>1, LineWithHand
<1>3. ASSUME NEW i \in 1..Len(q) PROVE l[i] = q[i]
  <2>1. CASE i = 1
    BY <1>1, <1>2, <2>1
  <2>2. CASE i # 1
    <3>1. i - 1 \in 1..Len(Tail(q)) /\ (i - 1) + 1 = i
      BY <1>1, <1>3, <2>2
    <3>2. QED
      BY <1>1, <1>2, <3>1
  <2>3. QED
    BY <2>1, <2>2
<1>4. QED
  BY <1>2, <1>3, SeqEqual

\* Putting an item at the end of the queue puts it at the end of the line.
LEMMA PuttingExtendsLine ==
  ASSUME NEW q \in Seq(Items), NEW h \in Nat, NEW m \in Items
  PROVE  <<h>> \o Append(q, m) = Append(<<h>> \o q, m)
<1> DEFINE l == <<h>> \o Append(q, m)
           r == Append(<<h>> \o q, m)
<1>1. /\ Append(q, m) \in Seq(Items) /\ Len(q) \in Nat /\ Len(Append(q, m)) = Len(q) + 1
      /\ Append(q, m)[Len(q) + 1] = m
      /\ \A i \in 1..Len(q) : Append(q, m)[i] = q[i]
  BY PutLast
<1>2. /\ l \in Seq(Items) /\ Len(l) = Len(q) + 2 /\ l[1] = h
      /\ \A i \in 1..(Len(q) + 1) : l[i + 1] = Append(q, m)[i]
  BY <1>1, LineWithHand
<1>3. /\ <<h>> \o q \in Seq(Items) /\ Len(<<h>> \o q) = Len(q) + 1 /\ (<<h>> \o q)[1] = h
      /\ \A i \in 1..Len(q) : (<<h>> \o q)[i + 1] = q[i]
  BY LineWithHand
<1>4. /\ r \in Seq(Items) /\ Len(r) = Len(q) + 2 /\ r[Len(q) + 2] = m
      /\ \A i \in 1..(Len(q) + 1) : r[i] = (<<h>> \o q)[i]
  <2>1. /\ r \in Seq(Items) /\ Len(r) = Len(<<h>> \o q) + 1 /\ r[Len(<<h>> \o q) + 1] = m
        /\ \A i \in 1..Len(<<h>> \o q) : r[i] = (<<h>> \o q)[i]
    BY <1>3, PutLast
  <2>2. QED
    BY <1>1, <1>3, <2>1
<1>5. ASSUME NEW i \in 1..(Len(q) + 2) PROVE l[i] = r[i]
  <2>1. CASE i = 1
    BY <1>1, <1>2, <1>3, <1>4, <2>1
  <2>2. CASE i = Len(q) + 2
    <3>1. Len(q) + 1 \in 1..(Len(q) + 1) /\ (Len(q) + 1) + 1 = i
      BY <1>1, <2>2
    <3>2. QED
      BY <1>1, <1>2, <1>4, <2>2, <3>1
  <2>3. CASE i # 1 /\ i # Len(q) + 2
    <3>1. i - 1 \in 1..Len(q) /\ (i - 1) + 1 = i /\ i \in 1..(Len(q) + 1)
          /\ i - 1 \in 1..(Len(q) + 1)
      BY <1>1, <1>5, <2>3
    <3>2. l[i] = Append(q, m)[i - 1]
      BY <1>2, <3>1
    <3>3. r[i] = q[i - 1]
      BY <1>3, <1>4, <3>1
    <3>4. QED
      BY <1>1, <3>1, <3>2, <3>3
  <2>4. QED
    BY <2>1, <2>2, <2>3
<1>6. QED
  BY <1>2, <1>4, <1>5, SeqEqual
----------------------------------------------------------------------------
\* What the steps do to a line: pure facts.

\* The reader takes the next message.
LEMMA ReadNext ==
  ASSUME NEW line, NEW at \in Nat, NEW messages \in SUBSET Nat, NEW item, item \notin Nat,
         Accounts(line, item, at, messages), at + 1 \in messages
  PROVE  Accounts(line, at + 1, at + 1, messages)
<1>1. \A i \in 1..Len(line) : line[i] \in Nat =>
         line[i] \in messages /\ line[i] <= at + 1 /\ line[i] < at + 1
  BY DEF Accounts
<1>2. \A m \in messages : m <= at + 1 => m = at + 1 \/ \E i \in 1..Len(line) : line[i] = m
  <2>1. \A m \in messages : m <= at => \E i \in 1..Len(line) : line[i] = m
    BY DEF Accounts
  <2>2. \A m \in messages : m <= at + 1 => m <= at \/ m = at + 1
    OBVIOUS
  <2>3. QED
    BY <2>1, <2>2
<1>3. QED
  BY <1>1, <1>2 DEF Accounts

\* The reader puts what it has taken at the end of the line.
LEMMA PutInLine ==
  ASSUME NEW line \in Seq(Items), NEW at \in Nat, NEW messages \in SUBSET Nat,
         NEW item \in Items, Accounts(line, item, at, messages)
  PROVE  /\ Accounts(Append(line, item), None, at, messages)
         /\ AtMostOneOvertaken(line) => AtMostOneOvertaken(Append(line, item))
         /\ NoneOvertaken(line) => NoneOvertaken(Append(line, item))
<1> USE ValuesAssumption
<1> DEFINE l == Append(line, item)
           n == Len(line)
<1>1. n \in Nat /\ Len(l) = n + 1 /\ l[n + 1] = item /\ \A i \in 1..n : l[i] = line[i]
  BY PutLast
<1>2. \A i \in 1..(n + 1) : i \in 1..n \/ i = n + 1
  BY <1>1
<1> HIDE DEF l, n
<1>3. \A i \in 1..n : line[i] \in Nat =>
         line[i] \in messages /\ line[i] <= at /\ (item \in Nat => line[i] < at)
  BY DEF Accounts, n
<1>4. item \in Nat => item = at /\ item \in messages
  BY DEF Accounts
<1>5. \A i \in 1..Len(l) : l[i] \in Nat => l[i] \in messages /\ l[i] <= at
  BY <1>1, <1>2, <1>3, <1>4
<1>6. \A m \in messages : m <= at => \E i \in 1..Len(l) : l[i] = m
  <2>1. ASSUME NEW m \in messages, m <= at PROVE \E i \in 1..Len(l) : l[i] = m
    <3>1. CASE m = item
      BY <1>1, <3>1
    <3>2. CASE m # item
      <4>1. PICK i \in 1..n : line[i] = m
        BY <2>1, <3>2 DEF Accounts, n
      <4>2. i \in 1..Len(l) /\ l[i] = m
        BY <1>1, <4>1
      <4>3. QED
        BY <4>2
    <3>3. QED
      BY <3>1, <3>2
  <2>2. QED
    BY <2>1
<1>7. \A i, j \in 1..Len(l) : l[i] \in Nat /\ l[i] = l[j] => i = j
  <2>1. \A i, j \in 1..n : line[i] \in Nat /\ line[i] = line[j] => i = j
    BY DEF Accounts, n
  <2>2. QED
    BY <1>1, <1>2, <1>3, <1>4, <2>1
<1>8. \A j \in 1..Len(l) : Overtaken(l, j) => j \in 1..n /\ Overtaken(line, j)
  <2>1. ASSUME NEW j \in 1..Len(l), Overtaken(l, j) PROVE j \in 1..n /\ Overtaken(line, j)
    <3>1. PICK i \in 1..(j - 1) : l[i] \in Nat /\ l[j] \in Nat /\ l[i] > l[j]
      BY <2>1 DEF Overtaken
    <3>2. i \in 1..n
      BY <1>1
    <3>3. j # n + 1
      BY <1>1, <1>3, <1>4, <3>1, <3>2
    <3>4. j \in 1..n
      BY <1>1, <1>2, <3>3
    <3>5. QED
      BY <1>1, <3>1, <3>2, <3>4 DEF Overtaken
  <2>2. QED
    BY <2>1
<1>9. QED
  BY <1>5, <1>6, <1>7, <1>8 DEF Accounts, AtMostOneOvertaken, NoneOvertaken, l, n

\* The message in hand is handled: it leaves the line, and at most one message of
\* those to come is older.
LEMMA LeaveLine ==
  ASSUME NEW q \in Seq(Items), NEW h \in Nat, NEW at \in Nat, NEW item,
         NEW messages \in SUBSET Nat,
         Accounts(<<h>> \o q, item, at, messages), AtMostOneOvertaken(<<h>> \o q)
  PROVE  /\ h \in messages
         /\ \A j, k \in messages : j < h /\ k < h => j = k
         /\ Accounts(q, item, at, messages \ {h})
         /\ AtMostOneOvertaken(q)
<1> DEFINE l == <<h>> \o q
           n == Len(q)
<1>1. n \in Nat /\ Len(l) = n + 1 /\ l[1] = h /\ \A i \in 1..n : l[i + 1] = q[i]
  BY LineWithHand
<1>2. 1 \in 1..Len(l) /\ \A i \in 1..n : i + 1 \in 1..Len(l) /\ i + 1 # 1
  BY <1>1
<1>3. \A i \in 1..Len(l) : i = 1 \/ (i - 1 \in 1..n /\ (i - 1) + 1 = i)
  BY <1>1
<1> HIDE DEF l, n
<1>4. /\ \A i \in 1..Len(l) : l[i] \in Nat =>
            l[i] \in messages /\ l[i] <= at /\ (item \in Nat => l[i] < at)
      /\ item \in Nat => item = at /\ item \in messages
      /\ \A m \in messages : m <= at => m = item \/ \E i \in 1..Len(l) : l[i] = m
      /\ \A i, j \in 1..Len(l) : l[i] \in Nat /\ l[i] = l[j] => i = j
  BY DEF Accounts, l
<1>5. h \in messages /\ h <= at /\ (item \in Nat => h < at)
  BY <1>1, <1>2, <1>4
<1>6. ASSUME NEW m \in messages, m < h
      PROVE  \E i \in 1..Len(l) : l[i] = m /\ Overtaken(l, i)
  <2>1. m <= at /\ m # item
    BY <1>4, <1>5, <1>6
  <2>2. PICK i \in 1..Len(l) : l[i] = m
    BY <1>4, <2>1
  <2>3. i # 1
    BY <1>1, <1>6, <2>2
  <2>4. 1 \in 1..(i - 1)
    BY <1>1, <2>2, <2>3
  <2>5. Overtaken(l, i)
    BY <1>1, <1>6, <2>2, <2>4 DEF Overtaken
  <2>6. QED
    BY <2>2, <2>5
<1>7. \A j, k \in messages : j < h /\ k < h => j = k
  <2>1. \A i, j \in 1..Len(l) : Overtaken(l, i) /\ Overtaken(l, j) => i = j
    BY DEF AtMostOneOvertaken, l
  <2>2. QED
    BY <1>6, <2>1
<1>8. Accounts(q, item, at, messages \ {h})
  <2>1. \A i \in 1..n : q[i] \in Nat =>
           q[i] \in messages \ {h} /\ q[i] <= at /\ (item \in Nat => q[i] < at)
    BY <1>1, <1>2, <1>4
  <2>2. item \in Nat => item = at /\ item \in messages \ {h}
    BY <1>4, <1>5
  <2>3. ASSUME NEW m \in messages \ {h}, m <= at, m # item PROVE \E i \in 1..n : q[i] = m
    <3>1. PICK i \in 1..Len(l) : l[i] = m
      BY <1>4, <2>3
    <3>2. i - 1 \in 1..n /\ (i - 1) + 1 = i
      BY <1>1, <1>3, <2>3, <3>1
    <3>3. QED
      BY <1>1, <3>1, <3>2
  <2>4. \A i, j \in 1..n : q[i] \in Nat /\ q[i] = q[j] => i = j
    <3>1. ASSUME NEW i \in 1..n, NEW j \in 1..n, q[i] \in Nat, q[i] = q[j] PROVE i = j
      <4>1. l[i + 1] \in Nat /\ l[i + 1] = l[j + 1]
        BY <1>1, <3>1
      <4>2. i + 1 = j + 1
        BY <1>2, <1>4, <4>1
      <4>3. QED
        BY <1>1, <4>2
    <3>2. QED
      BY <3>1
  <2>5. QED
    BY <2>1, <2>2, <2>3, <2>4 DEF Accounts, n
<1>9. AtMostOneOvertaken(q)
  <2>1. ASSUME NEW j \in 1..n, Overtaken(q, j) PROVE Overtaken(l, j + 1)
    <3>1. PICK i \in 1..(j - 1) : q[i] \in Nat /\ q[j] \in Nat /\ q[i] > q[j]
      BY <2>1 DEF Overtaken
    <3>2. i \in 1..n /\ i + 1 \in 1..((j + 1) - 1)
      BY <1>1
    <3>3. QED
      BY <1>1, <3>1, <3>2 DEF Overtaken
  <2>2. ASSUME NEW j \in 1..n, NEW k \in 1..n, Overtaken(q, j), Overtaken(q, k) PROVE j = k
    <3>1. j + 1 = k + 1
      BY <1>2, <2>1, <2>2 DEF AtMostOneOvertaken, l
    <3>2. QED
      BY <1>1, <3>1
  <2>3. QED
    BY <2>2 DEF AtMostOneOvertaken, n
<1>10. QED
  BY <1>5, <1>7, <1>8, <1>9

\* The first message goes to the end of the line: the others overtake it.
LEMMA PutBackInLine ==
  ASSUME NEW q \in Seq(Items), NEW h \in Nat, NEW at \in Nat, NEW item,
         NEW messages \in SUBSET Nat,
         Accounts(<<h>> \o q, item, at, messages), NoneOvertaken(<<h>> \o q)
  PROVE  Accounts(Append(q, h), item, at, messages) /\ AtMostOneOvertaken(Append(q, h))
<1> DEFINE l == <<h>> \o q
           n == Len(q)
           r == Append(q, h)
<1>1. n \in Nat /\ Len(l) = n + 1 /\ l[1] = h /\ \A i \in 1..n : l[i + 1] = q[i]
  BY LineWithHand
<1>2. Len(r) = n + 1 /\ r[n + 1] = h /\ \A i \in 1..n : r[i] = q[i]
  BY PutLast DEF Items
<1> HIDE DEF l, n, r
<1>3. /\ 1 \in 1..Len(l) /\ \A i \in 1..n : i + 1 \in 1..Len(l) /\ i + 1 # 1
      /\ \A i \in 1..Len(l) : i = 1 \/ (i - 1 \in 1..n /\ (i - 1) + 1 = i)
      /\ \A i \in 1..Len(r) : i = n + 1 \/ i \in 1..n
      /\ n + 1 \in 1..Len(r) /\ \A i \in 1..n : i \in 1..Len(r) /\ i # n + 1
  BY <1>1, <1>2
<1>4. /\ \A i \in 1..Len(l) : l[i] \in Nat =>
            l[i] \in messages /\ l[i] <= at /\ (item \in Nat => l[i] < at)
      /\ item \in Nat => item = at /\ item \in messages
      /\ \A m \in messages : m <= at => m = item \/ \E i \in 1..Len(l) : l[i] = m
      /\ \A i, j \in 1..Len(l) : l[i] \in Nat /\ l[i] = l[j] => i = j
  BY DEF Accounts, l
<1>5. \A i \in 1..Len(r) : r[i] \in Nat =>
         r[i] \in messages /\ r[i] <= at /\ (item \in Nat => r[i] < at)
  BY <1>1, <1>2, <1>3, <1>4
<1>6. ASSUME NEW m \in messages, m <= at, m # item PROVE \E i \in 1..Len(r) : r[i] = m
  <2>1. PICK i \in 1..Len(l) : l[i] = m
    BY <1>4, <1>6
  <2>2. CASE i = 1
    BY <1>1, <1>2, <1>3, <2>1, <2>2
  <2>3. CASE i # 1
    <3>1. i - 1 \in 1..n /\ (i - 1) + 1 = i
      BY <1>3, <2>1, <2>3
    <3>2. r[i - 1] = m /\ i - 1 \in 1..Len(r)
      BY <1>1, <1>2, <1>3, <2>1, <3>1
    <3>3. QED
      BY <3>2
  <2>4. QED
    BY <2>2, <2>3
<1>7. \A i, j \in 1..Len(r) : r[i] \in Nat /\ r[i] = r[j] => i = j
  <2>1. \A i, j \in 1..n : q[i] \in Nat /\ q[i] = q[j] => i = j
    <3>1. ASSUME NEW i \in 1..n, NEW j \in 1..n, q[i] \in Nat, q[i] = q[j] PROVE i = j
      <4>1. l[i + 1] \in Nat /\ l[i + 1] = l[j + 1]
        BY <1>1, <3>1
      <4>2. i + 1 = j + 1
        BY <1>3, <1>4, <4>1
      <4>3. QED
        BY <1>1, <4>2
    <3>2. QED
      BY <3>1
  <2>2. \A i \in 1..n : q[i] # h
    <3>1. ASSUME NEW i \in 1..n, q[i] = h PROVE FALSE
      <4>1. l[i + 1] = l[1] /\ l[1] \in Nat
        BY <1>1, <3>1
      <4>2. i + 1 = 1
        BY <1>3, <1>4, <4>1
      <4>3. QED
        BY <1>3, <4>2
    <3>2. QED
      BY <3>1
  <2>3. QED
    BY <1>2, <1>3, <2>1, <2>2
<1>8. \A j \in 1..n : ~Overtaken(r, j)
  <2>1. ASSUME NEW j \in 1..n, Overtaken(r, j) PROVE FALSE
    <3>1. PICK i \in 1..(j - 1) : r[i] \in Nat /\ r[j] \in Nat /\ r[i] > r[j]
      BY <2>1 DEF Overtaken
    <3>2. i \in 1..n /\ i + 1 \in 1..((j + 1) - 1)
      BY <1>1
    <3>3. l[i + 1] \in Nat /\ l[j + 1] \in Nat /\ l[i + 1] > l[j + 1]
      BY <1>1, <1>2, <3>1, <3>2
    <3>4. Overtaken(l, j + 1)
      BY <3>2, <3>3 DEF Overtaken
    <3>5. QED
      BY <1>3, <3>4 DEF NoneOvertaken, l
  <2>2. QED
    BY <2>1
<1>9. AtMostOneOvertaken(r)
  BY <1>3, <1>8 DEF AtMostOneOvertaken
<1>10. QED
  BY <1>4, <1>5, <1>6, <1>7, <1>9 DEF Accounts, r
\* No item is being added: None and an exception count the same.
LEMMA NoItem ==
  ASSUME NEW line, NEW at \in Nat, NEW messages \in SUBSET Nat, NEW a, NEW b,
         a \notin Nat, b \notin Nat, Accounts(line, a, at, messages)
  PROVE  Accounts(line, b, at, messages)
  BY DEF Accounts

\* An empty line, when all that must be handled is newer.
LEMMA EmptyLine ==
  ASSUME NEW at \in Nat, NEW messages \in SUBSET Nat, NEW item, item \notin Nat,
         \A m \in messages : m > at
  PROVE  /\ Accounts(<<>>, item, at, messages)
         /\ AtMostOneOvertaken(<<>>) /\ NoneOvertaken(<<>>)
  BY EmptySeq DEF Accounts, AtMostOneOvertaken, NoneOvertaken

----------------------------------------------------------------------------
\* The consumer's stream after a step, by way of the values the line depends on.
LEMMA ThisAfter ==
  ASSUME TypeOK, NEW r \in Stream, Becomes(cur, r), cur' = cur
  PROVE  This' = r /\ Queue' = r.queue
  BY DEF TypeOK, Becomes, This, Queue

\* A step that leaves the line and what must be handled alone.
LEMMA LineFrame ==
  ASSUME LineInv, UNCHANGED <<todo, wal, hand>>,
         This'.queue = This.queue, This'.item = This.item, This'.at = This.at,
         This'.state = "reading" => This.state = "reading",
         pc' \in {"starting", "probing", "putback"} => pc \in {"starting", "probing", "putback"}
  PROVE  LineInv'
<1>1. Line' = Line
  BY DEF Line, Queue
<1>2. QED
  BY <1>1 DEF LineInv

LEMMA ReaderThreadLine ==
  ASSUME TypeOK, StreamInv, NEW s \in Streams, ReaderThread(s), Working'
  PROVE  LineInv'
<1> USE ValuesAssumption
<1>0. /\ cur \in Streams /\ This \in Stream /\ stream[s] \in Stream /\ wal \in Nat
      /\ confirmed \in Nat /\ confirmed <= wal /\ This.at \in Nat /\ This.at <= wal
      /\ todo \in SUBSET (1..wal) /\ todo \in SUBSET Nat
      /\ hand \in Nat \cup {None} /\ Queue \in Seq(Items) /\ Line \in Seq(Items)
  BY LineType DEF TypeOK, This, Stream
<1>1. UNCHANGED <<pc, cur, reader, hand, shutdown>>
  BY ReaderThreadKeeps DEF consumer
<1>2. LineInv
  BY <1>1 DEF StreamInv, Working
<1>3. CASE s # cur
  <2>1. UNCHANGED <<wal, todo>> /\ This' = This
    BY <1>0, <1>1, <1>3
    DEF ReaderThread, ReaderReady, Attach, ReaderRaises, Read, Put, Becomes, slot, This, TypeOK
  <2>2. QED
    BY <1>1, <1>2, <2>1, LineFrame
<1>4. ASSUME s = cur PROVE LineInv'
  <2>0. stream[s] = This /\ ReaderOK(This)
    BY <1>0, <1>4 DEF This, StreamInv, ReaderInv, ReaderOK
  <2>1. ASSUME NEW r \in Stream, Becomes(s, r) PROVE This' = r /\ Queue' = r.queue
    BY <1>1, <1>4, <2>1, ThisAfter
  <2>2. CASE ReaderReady(s)
    <3> DEFINE r == [This EXCEPT !.state = "opening", !.ready = TRUE]
    <3>1. /\ r \in Stream /\ r.queue = This.queue /\ r.item = This.item /\ r.at = This.at
          /\ r.state = "opening"
      BY <1>0 DEF Stream, ReaderStates
    <3>2. Becomes(s, r) /\ UNCHANGED <<wal, todo>>
      BY <2>0, <2>2 DEF ReaderReady, slot
    <3>3. This' = r
      BY <2>1, <3>1, <3>2
    <3>4. QED
      BY <1>1, <1>2, <3>1, <3>2, <3>3, LineFrame
  <2>3. CASE Attach(s)
    <3> DEFINE r == [This EXCEPT !.state = "reading", !.at = confirmed]
    <3>1. /\ This.state = "opening" /\ Becomes(s, r) /\ wal' = wal
          /\ todo' = (confirmed + 1)..wal
      BY <1>4, <2>0, <2>3 DEF Attach
    <3>2. This.queue = <<>> /\ This.at = 0 /\ This.item = None
      BY <2>0, <3>1 DEF ReaderOK
    <3>3. /\ r \in Stream /\ r.queue = <<>> /\ r.item = None /\ r.at = confirmed
      BY <1>0, <3>2 DEF Stream, ReaderStates
    <3>4. hand = None
      <4>1. ASSUME hand # None PROVE FALSE
        <5>1. hand \in Nat /\ Line = <<hand>> \o Queue
          BY <1>0, <4>1 DEF Line
        <5>2. Line[1] = hand /\ 1 \in 1..Len(Line)
          BY <1>0, <5>1, LineWithHand
        <5>3. hand \in todo /\ hand <= 0
          BY <1>2, <3>2, <5>1, <5>2 DEF LineInv, Accounts
        <5>4. QED
          BY <1>0, <5>1, <5>3
      <4>2. QED
        BY <4>1
    <3>5. This' = r /\ Queue' = <<>>
      BY <2>1, <3>1, <3>3
    <3>6. Line' = <<>>
      BY <1>1, <3>4, <3>5 DEF Line
    <3>7. todo' \in SUBSET Nat /\ \A m \in todo' : m > confirmed
      BY <1>0, <3>1
    <3>8. Accounts(<<>>, None, confirmed, todo') /\ AtMostOneOvertaken(<<>>)
          /\ NoneOvertaken(<<>>)
      BY <1>0, <3>7, EmptyLine
    <3>9. \A m \in (confirmed + 1)..wal : m \in todo'
      BY <3>1
    <3>10. QED
      BY <3>1, <3>3, <3>5, <3>6, <3>8, <3>9 DEF LineInv
  <2>4. CASE ReaderRaises(s)
    <3> DEFINE r == [This EXCEPT !.state = "putting", !.item = Exception]
    <3>1. This.state \in {"opening", "reading"} /\ Becomes(s, r) /\ UNCHANGED <<wal, todo>>
      BY <2>0, <2>4 DEF ReaderRaises, slot
    <3>2. This.item = None
      BY <2>0, <3>1 DEF ReaderOK
    <3>3. /\ r \in Stream /\ r.queue = This.queue /\ r.item = Exception /\ r.at = This.at
          /\ r.state = "putting"
      BY <1>0 DEF Stream, ReaderStates
    <3>4. This' = r /\ Queue' = Queue
      BY <2>1, <3>1, <3>3 DEF Queue
    <3>5. Line' = Line
      BY <1>1, <3>4 DEF Line
    <3>6. Accounts(Line, Exception, This.at, todo)
      BY <1>0, <1>2, <3>2, NoItem DEF LineInv
    <3>7. QED
      BY <1>1, <1>2, <3>1, <3>3, <3>4, <3>5, <3>6 DEF LineInv
  <2>5. CASE Read(s)
    <3> DEFINE r == [This EXCEPT !.state = "putting", !.at = @ + 1, !.item = This.at + 1]
               d == [This EXCEPT !.state = "ended"]
    <3>1. /\ This.state = "reading" /\ This.at < wal /\ UNCHANGED <<wal, todo>>
          /\ Becomes(s, d) \/ Becomes(s, r)
      BY <2>0, <2>5 DEF Read
    <3>2. CASE Becomes(s, d)
      <4>1. /\ d \in Stream /\ d.queue = This.queue /\ d.item = This.item /\ d.at = This.at
            /\ d.state = "ended"
        BY <1>0 DEF Stream, ReaderStates
      <4>2. This' = d
        BY <2>1, <3>2, <4>1
      <4>3. QED
        BY <1>1, <1>2, <3>1, <4>1, <4>2, LineFrame
    <3>3. CASE Becomes(s, r)
      <4>1. /\ r \in Stream /\ r.queue = This.queue /\ r.item = This.at + 1
            /\ r.at = This.at + 1 /\ r.state = "putting"
        <5>1. This.at + 1 \in Nat
          BY <1>0
        <5>2. QED
          BY <1>0, <5>1 DEF Stream, ReaderStates
      <4>2. This' = r /\ Queue' = Queue
        BY <2>1, <3>3, <4>1 DEF Queue
      <4>3. Line' = Line
        BY <1>1, <4>2 DEF Line
      <4>4. \A m \in (This.at + 1)..wal : m \in todo
        BY <1>2, <3>1 DEF LineInv
      <4>5. This.item \notin Nat
        BY <2>0, <3>1 DEF ReaderOK
      <4>6. Accounts(Line, This.at + 1, This.at + 1, todo)
        <5>1. This.at + 1 \in todo
          BY <1>0, <3>1, <4>4
        <5>2. QED
          BY <1>0, <1>2, <4>5, <5>1, ReadNext DEF LineInv
      <4>7. \A m \in ((This.at + 1) + 1)..wal : m \in todo
        BY <1>0, <4>4
      <4>8. QED
        BY <1>1, <1>2, <3>1, <4>1, <4>2, <4>3, <4>6, <4>7 DEF LineInv
    <3>4. QED
      BY <3>1, <3>2, <3>3
  <2>6. CASE Put(s)
    <3> DEFINE item == This.item
               r == [This EXCEPT !.state = IF This.item = Exception THEN "ended" ELSE "reading",
                                 !.queue = Append(@, This.item),
                                 !.item = None]
    <3>1. This.state = "putting" /\ Becomes(s, r) /\ UNCHANGED <<wal, todo>>
      BY <2>0, <2>6 DEF Put, slot
    <3>2. item \in Items
      BY <1>0, <2>0, <3>1 DEF ReaderOK, Stream, Items
    <3>3. Append(Queue, item) \in Seq(Items)
      BY <1>0, <3>2, PutLast
    <3>4. /\ r \in Stream /\ r.queue = Append(Queue, item) /\ r.item = None /\ r.at = This.at
          /\ r.state = "reading" => item \in Nat
      BY <1>0, <3>2, <3>3 DEF Stream, ReaderStates, Queue, Items
    <3>5. This' = r /\ Queue' = Append(Queue, item)
      BY <2>1, <3>1, <3>4
    <3>6. Line' = Append(Line, item)
      <4>1. CASE hand = None
        BY <1>1, <3>5, <4>1 DEF Line
      <4>2. CASE hand # None
        <5>1. hand \in Nat
          BY <1>0, <4>2
        <5>2. Line = <<hand>> \o Queue /\ Line' = <<hand>> \o Append(Queue, item)
          BY <1>1, <3>5, <4>2 DEF Line
        <5>3. QED
          BY <1>0, <3>2, <5>1, <5>2, PuttingExtendsLine
      <4>3. QED
        BY <4>1, <4>2
    <3>7. /\ Accounts(Line, item, This.at, todo) /\ AtMostOneOvertaken(Line)
          /\ pc \in {"starting", "probing", "putback"} => NoneOvertaken(Line)
          /\ item \in Nat => \A m \in (This.at + 1)..wal : m \in todo
      BY <1>2 DEF LineInv
    <3>8. /\ Accounts(Append(Line, item), None, This.at, todo)
          /\ AtMostOneOvertaken(Append(Line, item))
          /\ NoneOvertaken(Line) => NoneOvertaken(Append(Line, item))
      BY <1>0, <3>2, <3>7, PutInLine
    <3>9. QED
      BY <1>1, <3>1, <3>4, <3>5, <3>6, <3>7, <3>8 DEF LineInv
  <2>7. QED
    BY <2>2, <2>3, <2>4, <2>5, <2>6 DEF ReaderThread
<1>5. QED
  BY <1>3, <1>4
LEMMA ConsumerThreadLine ==
  ASSUME TypeOK, StreamInv, ConsumerThread, Working'
  PROVE  LineInv'
<1> USE ValuesAssumption
<1>0. /\ cur \in Streams /\ This \in Stream /\ wal \in Nat /\ This.at \in Nat
      /\ todo \in SUBSET (1..wal) /\ todo \in SUBSET Nat
      /\ hand \in Nat \cup {None} /\ Queue \in Seq(Items) /\ Line \in Seq(Items)
      /\ ReaderInv /\ ConsumerInv /\ ReaderOK(This)
  BY LineType DEF TypeOK, This, Stream, StreamInv, ReaderInv, ReaderOK
<1>1. pc' \notin {"failing", "joining", "closing", "closejoin", "sleep", "done", "raised"}
  BY DEF Working
<1>2. pc' = "loop" => reader' /\ ~shutdown'
  BY DEF Working
<1>3. ASSUME NEW r \in Stream, Becomes(cur, r), UNCHANGED cur
      PROVE  This' = r /\ Queue' = r.queue
  BY <1>3, ThisAfter
<1>4. CASE LoopEnds \/ IterateNoReader \/ StartTimeout \/ ProbeException \/ PollException
           \/ HandlerRaises \/ Disconnect \/ Disconnected
  BY <1>1, <1>4
  DEF LoopEnds, IterateNoReader, StartTimeout, ProbeException, PollException, HandlerRaises,
      Disconnect, Disconnected, Raise, Goto
<1>5. CASE BreakOnShutdown \/ Sleep
  BY <1>0, <1>2, <1>5 DEF BreakOnShutdown, Sleep, Goto, ConsumerInv
<1>6. CASE LoopAgain \/ ReadyInTime \/ PollStopped
  <2>1. /\ UNCHANGED <<todo, wal, hand>> /\ This' = This /\ Working
        /\ pc' \in {"starting", "probing", "putback"} => pc \in {"starting", "probing", "putback"}
    BY <1>2, <1>6 DEF LoopAgain, ReadyInTime, PollStopped, Goto, slot, This, Working
  <2>2. QED
    BY <2>1, LineFrame DEF StreamInv
<1>7. ASSUME NEW s \in Streams, Connect(s) PROVE LineInv'
  <2>1. NewStream \in Stream /\ NewStream.queue = <<>> /\ NewStream.item = None
        /\ NewStream.at = 0 /\ NewStream.state = "none"
    BY EmptySeq DEF NewStream, Stream, ReaderStates
  <2>2. This' = NewStream
    BY <1>7 DEF Connect, Becomes, This, TypeOK
  <2>3. hand' = None /\ UNCHANGED <<todo, wal>> /\ pc' = "iterate"
    BY <1>0, <1>7 DEF Connect, Goto, slot, ConsumerInv
  <2>4. Line' = <<>>
    BY <2>1, <2>2, <2>3 DEF Line, Queue
  <2>5. Accounts(<<>>, None, 0, todo) /\ AtMostOneOvertaken(<<>>)
    BY <1>0, EmptyLine
  <2>6. QED
    BY <2>1, <2>2, <2>3, <2>4, <2>5 DEF LineInv
<1>8. CASE Iterate
  <2>1. UNCHANGED <<todo, wal, hand, cur>> /\ Working /\ pc = "iterate"
    BY <1>8 DEF Iterate, Goto, slot, Working
  <2>2. CASE This.connected
    <3>1. This' = This /\ pc' = "poll"
      BY <1>8, <2>2 DEF Iterate, Goto, This
    <3>2. QED
      BY <2>1, <3>1, LineFrame DEF StreamInv
  <2>3. CASE ~This.connected
    <3> DEFINE r == [This EXCEPT !.state = "new"]
    <3>1. Becomes(cur, r) /\ pc' = "starting" /\ This.state = "none" /\ hand = None
      BY <1>0, <1>8, <2>3 DEF Iterate, Goto, ConsumerInv
    <3>2. This.queue = <<>> /\ This.item = None
      BY <1>0, <3>1 DEF ReaderOK
    <3>3. /\ r \in Stream /\ r.queue = <<>> /\ r.item = None /\ r.at = This.at
          /\ r.state = "new"
      BY <1>0, <3>2 DEF Stream, ReaderStates
    <3>4. This' = r /\ Queue' = <<>>
      BY <1>3, <2>1, <3>1, <3>3
    <3>5. Line' = <<>> /\ Line = <<>>
      BY <2>1, <3>1, <3>2, <3>4 DEF Line, Queue
    <3>6. Accounts(<<>>, None, This.at, todo) /\ AtMostOneOvertaken(<<>>)
      BY <2>1, <3>2, <3>5 DEF StreamInv, LineInv
    <3>7. NoneOvertaken(<<>>)
      BY EmptySeq DEF NoneOvertaken
    <3>8. QED
      BY <2>1, <3>3, <3>4, <3>5, <3>6, <3>7 DEF LineInv
  <2>4. QED
    BY <2>2, <2>3
<1>9. CASE ProbeEmpty
  <2> DEFINE r == [This EXCEPT !.connected = TRUE]
  <2>1. UNCHANGED <<todo, wal, hand, cur>> /\ Working /\ pc' = "poll" /\ Becomes(cur, r)
    BY <1>9 DEF ProbeEmpty, Goto, slot, Working
  <2>2. /\ r \in Stream /\ r.queue = This.queue /\ r.item = This.item /\ r.at = This.at
        /\ r.state = This.state
    BY <1>0 DEF Stream
  <2>3. This' = r
    BY <1>3, <2>1, <2>2
  <2>4. QED
    BY <2>1, <2>2, <2>3, LineFrame DEF StreamInv
<1>10. CASE ProbeMessage \/ PollMessage
  <2> DEFINE r == [This EXCEPT !.queue = Tail(@)]
  <2>1. /\ UNCHANGED <<todo, wal, cur>> /\ Working /\ hand = None /\ hand' = Head(Queue)
        /\ Queue # <<>> /\ Head(Queue) # Exception /\ Becomes(cur, r)
        /\ pc' \in {"starting", "probing", "putback"} => pc \in {"starting", "probing", "putback"}
    BY <1>0, <1>10 DEF ProbeMessage, PollMessage, Goto, slot, Working, ConsumerInv
  <2>2. Head(Queue) \in Nat /\ Tail(Queue) \in Seq(Items)
    BY <1>0, <2>1, TakeFirst DEF Items
  <2>3. /\ r \in Stream /\ r.queue = Tail(Queue) /\ r.item = This.item /\ r.at = This.at
        /\ r.state = This.state
    BY <1>0, <2>2 DEF Stream, Queue, Items
  <2>4. This' = r /\ Queue' = Tail(Queue)
    BY <1>3, <2>1, <2>3
  <2>5. Line = Queue /\ Line' = <<Head(Queue)>> \o Tail(Queue)
    BY <2>1, <2>2, <2>4 DEF Line
  <2>6. Line' = Line
    BY <1>0, <2>1, <2>2, <2>5, TakingKeepsLine
  <2>7. QED
    BY <2>1, <2>3, <2>4, <2>6 DEF StreamInv, LineInv
<1>11. CASE PutBack
  <2> DEFINE r == [This EXCEPT !.queue = Append(@, hand), !.connected = TRUE]
  <2>1. /\ UNCHANGED <<todo, wal, cur>> /\ Working /\ hand \in Nat /\ hand' = None
        /\ Becomes(cur, r) /\ pc = "putback" /\ pc' = "poll"
    BY <1>0, <1>11 DEF PutBack, Goto, slot, Working, ConsumerInv
  <2>2. Append(Queue, hand) \in Seq(Items)
    BY <1>0, <2>1, PutLast DEF Items
  <2>3. /\ r \in Stream /\ r.queue = Append(Queue, hand) /\ r.item = This.item
        /\ r.at = This.at /\ r.state = This.state
    BY <1>0, <2>2 DEF Stream, Queue, Items
  <2>4. This' = r /\ Queue' = Append(Queue, hand)
    BY <1>3, <2>1, <2>3
  <2>5. Line = <<hand>> \o Queue /\ Line' = Append(Queue, hand)
    BY <2>1, <2>4 DEF Line
  <2>6. Accounts(<<hand>> \o Queue, This.item, This.at, todo) /\ NoneOvertaken(<<hand>> \o Queue)
    BY <2>1, <2>5 DEF StreamInv, LineInv
  <2>7. /\ Accounts(Append(Queue, hand), This.item, This.at, todo)
        /\ AtMostOneOvertaken(Append(Queue, hand))
    BY <1>0, <2>1, <2>6, PutBackInLine
  <2>8. QED
    BY <2>1, <2>3, <2>4, <2>5, <2>7 DEF StreamInv, LineInv
<1>12. CASE Handle
  <2>1. /\ UNCHANGED <<wal, stream, cur>> /\ Working /\ hand \in Nat /\ hand' = None
        /\ todo' = todo \ {hand} /\ pc' = "poll"
    BY <1>0, <1>12 DEF Handle, Goto, slot, Working, ConsumerInv
  <2>2. This' = This /\ Line = <<hand>> \o Queue /\ Line' = Queue
    BY <2>1 DEF Line, Queue, This
  <2>3. Accounts(Line, This.item, This.at, todo) /\ AtMostOneOvertaken(Line)
    BY <2>1 DEF StreamInv, LineInv
  <2>4. Accounts(Queue, This.item, This.at, todo \ {hand}) /\ AtMostOneOvertaken(Queue)
    BY <1>0, <2>1, <2>2, <2>3, LeaveLine
  <2>5. hand <= This.at
    <3>1. Line[1] = hand /\ 1 \in 1..Len(Line)
      BY <1>0, <2>1, <2>2, LineWithHand
    <3>2. QED
      BY <2>1, <2>3, <3>1 DEF Accounts
  <2>6. This.state = "reading" \/ This.item \in Nat =>
           \A m \in (This.at + 1)..wal : m \in todo \ {hand}
    BY <1>0, <2>1, <2>5 DEF StreamInv, LineInv
  <2>7. QED
    BY <2>1, <2>2, <2>4, <2>6 DEF LineInv
<1>13. QED
  BY <1>4, <1>5, <1>6, <1>7, <1>8, <1>9, <1>10, <1>11, <1>12 DEF ConsumerThread

LEMMA EnvironmentLine ==
  ASSUME TypeOK, StreamInv, Working',
         \/ Commit \/ ConnectionLost \/ ServerNotices \/ Signal \/ StopStreaming
         \/ StreamingStopped \/ Restart \/ (\E s \in Streams : Confirm(s)) \/ UNCHANGED vars
  PROVE  LineInv'
<1> USE ValuesAssumption
<1>0. /\ cur \in Streams /\ This \in Stream /\ wal \in Nat /\ This.at \in Nat
      /\ This.at <= wal /\ reader \in BOOLEAN
      /\ todo \in SUBSET (1..wal) /\ todo \in SUBSET Nat /\ Line \in Seq(Items)
  BY LineType DEF TypeOK, This, Stream
<1>1. ASSUME UNCHANGED <<todo, wal, hand, pc>>, Working, This'.queue = This.queue,
             This'.item = This.item, This'.at = This.at, This'.state = This.state
      PROVE  LineInv'
  BY <1>1, LineFrame DEF StreamInv
<1>2. CASE Commit
  <2>1. /\ UNCHANGED <<hand, pc>> /\ This' = This /\ wal' = wal + 1
        /\ todo' = todo \cup {wal + 1} /\ Working
    BY <1>2 DEF Commit, consumer, This, Working
  <2>2. Line' = Line
    BY <2>1 DEF Line, Queue
  <2>3. Accounts(Line, This.item, This.at, todo)
    BY <2>1 DEF StreamInv, LineInv
  <2>4. Accounts(Line, This.item, This.at, todo \cup {wal + 1})
    BY <1>0, <2>3 DEF Accounts
  <2>5. This.state = "reading" \/ This.item \in Nat =>
           \A m \in (This.at + 1)..(wal + 1) : m \in todo \cup {wal + 1}
    BY <1>0, <2>1 DEF StreamInv, LineInv
  <2>6. QED
    BY <2>1, <2>2, <2>4, <2>5 DEF StreamInv, LineInv
<1>3. CASE ConnectionLost \/ ServerNotices \/ (\E s \in Streams : Confirm(s)) \/ UNCHANGED vars
  <2>1. UNCHANGED <<todo, wal, stream, consumer, shutdown>>
    BY <1>3 DEF ConnectionLost, ServerNotices, Confirm, vars, slot
  <2>2. This' = This /\ Working
    BY <2>1 DEF consumer, This, Working
  <2>3. QED
    BY <1>1, <2>1, <2>2 DEF consumer
<1>4. CASE Signal
  <2>1. UNCHANGED <<todo, wal, stream, consumer>> /\ shutdown' = TRUE
    BY <1>4 DEF Signal, slot
  <2>2. This' = This /\ Working
    BY <2>1 DEF consumer, This, Working
  <2>3. QED
    BY <1>1, <2>1, <2>2 DEF consumer
<1>5. CASE StopStreaming
  <2> DEFINE r == [This EXCEPT !.stop = @ \/ (reader /\ This.connected)]
  <2>1. UNCHANGED <<todo, wal, consumer, shutdown>> /\ Becomes(cur, r)
    BY <1>5 DEF StopStreaming, slot
  <2>2. /\ r \in Stream /\ r.queue = This.queue /\ r.item = This.item /\ r.at = This.at
        /\ r.state = This.state
    BY <1>0 DEF Stream
  <2>3. This' = r /\ Working
    BY <2>1, <2>2, ThisAfter DEF consumer, Working
  <2>4. QED
    BY <1>1, <2>1, <2>2, <2>3 DEF consumer
<1>6. CASE StreamingStopped
  <2>1. UNCHANGED <<todo, wal, hand, pc, cur, shutdown>>
    BY <1>6 DEF StreamingStopped, slot
  <2>2. CASE manager.target = None
    <3>1. This' = This /\ Working
      BY <1>6, <2>1, <2>2 DEF StreamingStopped, This, Working
    <3>2. QED
      BY <1>1, <2>1, <3>1
  <2>3. CASE manager.target # None
    <3> DEFINE m == manager.target
               r == [stream[m] EXCEPT !.connected = FALSE]
    <3>1. m \in Streams /\ stream[m] \in Stream
      BY <2>3 DEF TypeOK
    <3>2. Becomes(m, r) /\ reader' = FALSE
      BY <1>6, <2>3 DEF StreamingStopped
    <3>3. Working
      BY <2>1, <3>2 DEF Working
    <3>4. /\ r.queue = stream[m].queue /\ r.item = stream[m].item /\ r.at = stream[m].at
          /\ r.state = stream[m].state
      BY <3>1 DEF Stream
    <3>5. /\ This'.queue = This.queue /\ This'.item = This.item /\ This'.at = This.at
          /\ This'.state = This.state
      BY <1>0, <2>1, <3>1, <3>2, <3>4 DEF Becomes, TypeOK, This
    <3>6. QED
      BY <1>1, <2>1, <3>3, <3>5
  <2>4. QED
    BY <2>2, <2>3
<1>7. CASE Restart
  BY <1>7 DEF Restart, Working
<1>8. QED
  BY <1>2, <1>3, <1>4, <1>5, <1>6, <1>7
----------------------------------------------------------------------------
(* The theorems.                                                            *)

TypeInv == TypeOK /\ ReaderInv /\ ConsumerInv

LEMMA InitTypeInv == Init => TypeInv
<1> SUFFICES ASSUME Init PROVE TypeInv
  OBVIOUS
<1> USE ValuesAssumption
<1>1. NewStream \in Stream /\ NewStream.at = 0 /\ ReaderOK(NewStream)
  BY EmptySeq, NewStreamOK DEF NewStream, Stream, ReaderStates
<1>2. 0 \in 0..MaxMessages /\ 0 \in 0..0 /\ {} \in SUBSET (1..0)
  BY BoundsAssumption
<1>3. TypeOK
  <2>1. stream \in [Streams -> Stream] /\ \A s \in Streams : stream[s].at <= 0
    BY <1>1 DEF Init
  <2>2. /\ faults \in [FaultKinds -> Nat]
        /\ manager \in [state : {"idle", "joining", "returned"}, target : Streams \cup {None}]
    BY DEF Init
  <2>3. QED
    BY <1>2, <2>1, <2>2 DEF Init, TypeOK
<1>4. ReaderInv
  BY <1>1 DEF Init, ReaderInv, ReaderOK
<1>5. ConsumerInv
  BY DEF Init, ConsumerInv
<1>6. QED
  BY <1>3, <1>4, <1>5 DEF TypeInv

LEMMA AlwaysTypeInv == Spec => []TypeInv
<1>1. TypeInv /\ [Next]_vars => TypeInv'
  BY NextType, NextReaderInv, NextConsumerInv DEF TypeInv
<1>2. QED
  BY InitTypeInv, <1>1, PTL DEF Spec

\* The variables keep their types; in particular no reader thread is ahead of
\* the log, and a stream's queue holds messages and exceptions only.
THEOREM TypeCorrect == Spec => []TypeOK
<1>1. TypeInv => TypeOK
  BY DEF TypeInv
<1>2. QED
  BY AlwaysTypeInv, <1>1, PTL

LEMMA AlwaysStreamInv == Spec => [](TypeOK /\ StreamInv)
<1>1. Init => TypeOK /\ StreamInv
  <2>1. Init => ~Working
    BY DEF Init, Working
  <2>2. QED
    BY <2>1, InitTypeInv DEF TypeInv, StreamInv
<1>2. TypeOK /\ StreamInv /\ [Next]_vars => (TypeOK /\ StreamInv)'
  <2> SUFFICES ASSUME TypeOK, StreamInv, [Next]_vars PROVE (TypeOK /\ StreamInv)'
    OBVIOUS
  <2>1. ReaderInv /\ ConsumerInv
    BY DEF StreamInv
  <2>2. TypeOK' /\ ReaderInv' /\ ConsumerInv'
    BY <2>1, NextType, NextReaderInv, NextConsumerInv
  <2>3. Working' => LineInv'
    BY ReaderThreadLine, ConsumerThreadLine, EnvironmentLine DEF Next
  <2>4. QED
    BY <2>2, <2>3 DEF StreamInv
<1>3. QED
  BY <1>1, <1>2, PTL DEF Spec

\* The messages before the consumer, and the one its reader is about to put in
\* the queue, are at every moment exactly those taken from the slot and still to
\* be handled, each once, and at most one of them has been overtaken: the
\* messages of an earlier stream are never mixed with them.
THEOREM StreamInvariant == Spec => []StreamInv
  BY AlwaysStreamInv, PTL

\* While the consumer works on its stream, no message that was taken from the
\* slot is lost between the two threads.
THEOREM NoneDropped == Spec => []NothingDropped
<1>1. TypeOK /\ StreamInv => NothingDropped
  <2> SUFFICES ASSUME TypeOK, StreamInv, Consuming, NEW m \in todo, m <= This.at
               PROVE  m \in Held
    BY DEF NothingDropped
  <2>1. m = This.item \/ \E i \in 1..Len(Line) : Line[i] = m
    BY DEF StreamInv, LineInv, Accounts, Consuming, Working
  <2>2. hand \in Nat \cup {None} /\ Queue \in Seq(Items)
    BY LineType DEF TypeOK
  <2>3. ASSUME NEW i \in 1..Len(Line), Line[i] = m
        PROVE  m = hand \/ \E j \in 1..Len(Queue) : Queue[j] = m
    <3>1. CASE hand = None
      BY <2>3, <3>1 DEF Line
    <3>2. CASE hand # None
      <4>1. hand \in Nat /\ Line = <<hand>> \o Queue
        BY <2>2, <3>2 DEF Line
      <4>2. /\ Len(Line) = Len(Queue) + 1 /\ Len(Queue) \in Nat /\ Line[1] = hand
            /\ \A j \in 1..Len(Queue) : Line[j + 1] = Queue[j]
        BY <2>2, <4>1, LineWithHand
      <4>3. CASE i = 1
        BY <2>3, <4>2, <4>3
      <4>4. CASE i # 1
        <5>1. i - 1 \in 1..Len(Queue) /\ (i - 1) + 1 = i
          BY <4>2, <4>4
        <5>2. QED
          BY <2>3, <4>2, <5>1
      <4>5. QED
        BY <4>3, <4>4
    <3>3. QED
      BY <3>1, <3>2
  <2>4. QED
    BY <2>1, <2>3 DEF Held
<1>2. QED
  BY AlwaysStreamInv, <1>1, PTL

\* The stream implements Delivery, whatever the library confirms and when: through
\* reconnections, lost connections, signals and restarts the routing engine is
\* handed the changes in the order of the log except for one, and the only changes
\* it is never handed are those confirmed before it had handled them when the slot
\* next resumes.
THEOREM Implements == Spec => Delivers
<1>1. Init => D!Init
  BY DEF Init, D!Init
<1>2. TypeOK /\ StreamInv /\ [Next]_vars => [D!Next]_<<wal, todo, lost>>
  <2> SUFFICES ASSUME TypeOK, StreamInv, [Next]_vars PROVE D!Next \/ UNCHANGED <<wal, todo, lost>>
    OBVIOUS
  <2> USE ValuesAssumption
  <2>0. /\ wal \in Nat /\ confirmed \in 0..wal /\ todo \in SUBSET (1..wal)
        /\ todo \in SUBSET Nat /\ Queue \in Seq(Items) /\ hand \in Nat \cup {None}
        /\ This.at \in Nat /\ cur \in Streams
    BY LineType DEF TypeOK, This, Stream
  <2>1. CASE Commit
    BY <2>1 DEF Commit, D!Next, D!Send
  <2>2. ASSUME NEW s \in Streams, ReaderThread(s) PROVE D!Next \/ UNCHANGED <<wal, todo, lost>>
    <3>1. CASE Attach(s) /\ s = cur
      <4>1. /\ todo' = {k \in 1..wal : k > confirmed} /\ wal' = wal
            /\ lost' = lost \cup {k \in todo : k <= confirmed}
        BY <2>0, <3>1 DEF Attach
      <4>2. D!Redeliver(confirmed)
        BY <4>1 DEF D!Redeliver
      <4>3. QED
        BY <2>0, <4>2 DEF D!Next
    <3>2. CASE ~(Attach(s) /\ s = cur)
      BY <2>2, <3>2 DEF ReaderThread, ReaderReady, Attach, ReaderRaises, Read, Put, slot
    <3>3. QED
      BY <3>1, <3>2
  <2>3. CASE Handle
    <3>1. hand \in Nat /\ Line = <<hand>> \o Queue /\ Working
      BY <2>0, <2>3 DEF Handle, StreamInv, ConsumerInv, Line, Working
    <3>2. Accounts(<<hand>> \o Queue, This.item, This.at, todo)
          /\ AtMostOneOvertaken(<<hand>> \o Queue)
      BY <3>1 DEF StreamInv, LineInv
    <3>3. hand \in todo /\ \A j, k \in todo : j < hand /\ k < hand => j = k
      <4> DEFINE item == This.item
                 at == This.at
                 q == Queue
      <4>1. at \in Nat /\ q \in Seq(Items) /\ hand \in Nat /\ todo \in SUBSET Nat
        BY <2>0, <3>1
      <4>2. Accounts(<<hand>> \o q, item, at, todo) /\ AtMostOneOvertaken(<<hand>> \o q)
        BY <3>2
      <4> HIDE DEF item, at, q
      <4>3. /\ hand \in todo /\ \A j, k \in todo : j < hand /\ k < hand => j = k
            /\ Accounts(q, item, at, todo \ {hand}) /\ AtMostOneOvertaken(q)
        BY <4>1, <4>2, LeaveLine
      <4>4. QED
        BY <4>3
    <3>4. D!HandOver(hand)
      BY <2>3, <3>3 DEF Handle, Goto, slot, D!HandOver, D!OvertakesAtMostOne
    <3>5. QED
      BY <2>0, <3>3, <3>4 DEF D!Next
  <2>4. CASE ConsumerThread /\ ~Handle
    BY <2>4
    DEF ConsumerThread, LoopEnds, LoopAgain, Connect, Iterate, IterateNoReader, ReadyInTime,
        StartTimeout, ProbeEmpty, ProbeException, ProbeMessage, PutBack, PollStopped,
        PollException, PollMessage, BreakOnShutdown, HandlerRaises, Disconnect,
        Disconnected, Sleep, Raise, Goto, slot
  <2>5. CASE \/ ConnectionLost \/ ServerNotices \/ Signal \/ StopStreaming \/ StreamingStopped
             \/ Restart \/ (\E s \in Streams : Confirm(s)) \/ UNCHANGED vars
    BY <2>5
    DEF ConnectionLost, ServerNotices, Signal, StopStreaming, StreamingStopped, Restart,
        Confirm, vars, slot
  <2>6. QED
    BY <2>1, <2>2, <2>3, <2>4, <2>5 DEF Next
<1>3. QED
  BY AlwaysStreamInv, <1>1, <1>2, PTL DEF Spec, Delivers, D!Spec, D!vars

----------------------------------------------------------------------------
(* What the repository does not see to and the library would have to.       *)

\* The library confirms no message that must still be handled.
AcksWait == [][confirmed' # confirmed => \A m \in todo : confirmed' < m]_vars

Ahead == \A m \in todo : m > confirmed

\* If the library waited with its confirmations until a message was handled, no
\* message would be lost: confirming too early is the only way to lose one.
THEOREM NothingLostIfAcksWait == Spec /\ AcksWait => []NothingLost
<1> DEFINE Waits == confirmed' # confirmed => \A m \in todo : confirmed' < m
<1>1. Init => Ahead /\ NothingLost
  BY DEF Init, Ahead, NothingLost
<1>2. TypeOK /\ TypeOK' /\ Ahead /\ NothingLost /\ [Next]_vars /\ [Waits]_vars
         => (Ahead /\ NothingLost)'
  <2> SUFFICES ASSUME TypeOK, TypeOK', Ahead, NothingLost, [Next]_vars, [Waits]_vars
               PROVE  (Ahead /\ NothingLost)'
    OBVIOUS
  <2>0. /\ wal \in Nat /\ confirmed \in Nat /\ confirmed <= wal /\ confirmed' \in Nat
        /\ todo \in SUBSET (1..wal) /\ todo \in SUBSET Nat
    <3>1. /\ wal \in 0..MaxMessages /\ confirmed \in 0..wal /\ todo \in SUBSET (1..wal)
          /\ wal' \in 0..MaxMessages /\ confirmed' \in 0..wal'
      BY DEF TypeOK
    <3>2. QED
      BY <3>1, BoundsAssumption
  <2>1. ASSUME UNCHANGED <<confirmed, lost>>,
               todo' \in SUBSET (todo \cup ((confirmed + 1)..(wal + 1)))
        PROVE  (Ahead /\ NothingLost)'
    BY <2>0, <2>1 DEF Ahead, NothingLost
  <2>2. CASE Commit
    BY <2>0, <2>1, <2>2 DEF Commit
  <2>3. ASSUME confirmed' # confirmed, UNCHANGED <<todo, lost>>
        PROVE  (Ahead /\ NothingLost)'
    <3>1. Waits
      BY <2>3 DEF vars, slot
    <3>2. QED
      BY <2>0, <2>3, <3>1 DEF Ahead, NothingLost
  <2>4. ASSUME NEW s \in Streams, Confirm(s) \/ Read(s) PROVE (Ahead /\ NothingLost)'
    <3>1. UNCHANGED <<todo, lost>>
      BY <2>4 DEF Confirm, Read
    <3>2. QED
      BY <2>1, <2>3, <3>1
  <2>5. ASSUME NEW s \in Streams, Attach(s) PROVE (Ahead /\ NothingLost)'
    <3>1. CASE s = cur
      <4>1. /\ todo' = (confirmed + 1)..wal /\ confirmed' = confirmed
            /\ lost' = lost \cup {m \in todo : m <= confirmed}
        BY <2>5, <3>1 DEF Attach
      <4>2. \A m \in todo : ~(m <= confirmed)
        BY <2>0 DEF Ahead
      <4>3. lost' = {}
        BY <4>1, <4>2 DEF NothingLost
      <4>4. QED
        BY <2>0, <4>1, <4>3 DEF Ahead, NothingLost
    <3>2. CASE s # cur
      BY <2>1, <2>5, <3>2 DEF Attach
    <3>3. QED
      BY <3>1, <3>2
  <2>6. ASSUME NEW s \in Streams, ReaderReady(s) \/ ReaderRaises(s) \/ Put(s)
        PROVE  (Ahead /\ NothingLost)'
    BY <2>1, <2>6 DEF ReaderReady, ReaderRaises, Put, slot
  <2>7. CASE ConsumerThread
    BY <2>1, <2>7
    DEF ConsumerThread, LoopEnds, LoopAgain, Connect, Iterate, IterateNoReader, ReadyInTime,
        StartTimeout, ProbeEmpty, ProbeException, ProbeMessage, PutBack, PollStopped,
        PollException, PollMessage, BreakOnShutdown, Handle, HandlerRaises, Disconnect,
        Disconnected, Sleep, Raise, Goto, slot
  <2>8. CASE \/ ConnectionLost \/ ServerNotices \/ Signal \/ StopStreaming
             \/ StreamingStopped \/ Restart \/ UNCHANGED vars
    BY <2>1, <2>8
    DEF ConnectionLost, ServerNotices, Signal, StopStreaming, StreamingStopped, Restart,
        vars, slot
  <2>9. QED
    BY <2>2, <2>4, <2>5, <2>6, <2>7, <2>8 DEF Next, ReaderThread
<1>3. QED
  BY TypeCorrect, <1>1, <1>2, PTL DEF Spec, AcksWait

----------------------------------------------------------------------------
\* retry_count starts again with every stream object, and a stream object does
\* not outlive an exception.
RetriesStartOver ==
    /\ retry_count \in {0, 1}
    /\ retry_count = 1 =>
          \/ pc \in {"failing", "joining", "closing", "closejoin", "done", "raised"}
          \/ pc \in {"sleep", "loop"} /\ ~reader
NeverGivesUp == RetriesStartOver /\ (MaxRetries > 1 => pc # "raised")

\* Why GivesUp is refuted not only in the run's instance: unless max_retries is 1,
\* "Max retries exceeded, giving up" (replication_consumer.py:219) is never
\* reached, whatever fails and however often, as every connect() starts the
\* counter again.
THEOREM MaximumNeverReached == Spec => [](MaxRetries > 1 => pc # "raised")
<1> DEFINE Spent == {"failing", "joining", "closing", "closejoin", "done"}
<1>1. Init => NeverGivesUp
  BY DEF Init, NeverGivesUp, RetriesStartOver
<1>2. NeverGivesUp /\ [Next]_vars => NeverGivesUp'
  <2> SUFFICES ASSUME NeverGivesUp, [Next]_vars PROVE NeverGivesUp'
    OBVIOUS
  <2>0. retry_count \in {0, 1} /\ MaxRetries \in Nat \ {0}
    BY BoundsAssumption DEF NeverGivesUp, RetriesStartOver
  <2>1. ASSUME UNCHANGED <<pc, retry_count>>, reader' = reader \/ reader' = FALSE
        PROVE  NeverGivesUp'
    BY <2>1 DEF NeverGivesUp, RetriesStartOver
  <2>2. ASSUME UNCHANGED retry_count, retry_count = 0, pc' # "raised"
        PROVE  NeverGivesUp'
    BY <2>2 DEF NeverGivesUp, RetriesStartOver
  <2>3. ASSUME UNCHANGED retry_count, pc' \in Spent
        PROVE  NeverGivesUp'
    BY <2>3 DEF NeverGivesUp, RetriesStartOver
  <2>4. ASSUME retry_count = 0, Raise
        PROVE  NeverGivesUp'
    BY <2>4 DEF Raise, Goto, NeverGivesUp, RetriesStartOver
  <2>5. CASE Commit \/ ConnectionLost \/ ServerNotices \/ Signal \/ StopStreaming
             \/ (\E s \in Streams : Confirm(s) \/ ReaderThread(s)) \/ UNCHANGED vars
    BY <2>1, <2>5
    DEF Commit, ConnectionLost, ServerNotices, Signal, StopStreaming, Confirm, vars,
        ReaderThread, ReaderReady, Attach, ReaderRaises, Read, Put, consumer
  <2>6. CASE StreamingStopped
    BY <2>1, <2>6 DEF StreamingStopped
  <2>7. CASE Restart
    BY <2>7 DEF Restart, NeverGivesUp, RetriesStartOver
  <2>8. CASE LoopEnds \/ Disconnect
    BY <2>3, <2>8 DEF LoopEnds, Disconnect, Goto
  <2>9. ASSUME NEW s \in Streams, Connect(s) PROVE NeverGivesUp'
    BY <2>9 DEF Connect, Goto, NeverGivesUp, RetriesStartOver
  <2>10. CASE \/ LoopAgain \/ Iterate \/ ReadyInTime \/ ProbeEmpty \/ ProbeMessage \/ PutBack
              \/ PollStopped \/ PollMessage \/ BreakOnShutdown \/ Handle
    <3>1. retry_count = 0
      BY <2>0, <2>10
      DEF NeverGivesUp, RetriesStartOver, LoopAgain, Iterate, ReadyInTime, ProbeEmpty,
          ProbeMessage, PutBack, PollStopped, PollMessage, BreakOnShutdown, Handle
    <3>2. UNCHANGED retry_count /\ pc' # "raised"
      BY <2>10
      DEF LoopAgain, Iterate, ReadyInTime, ProbeEmpty, ProbeMessage, PutBack, PollStopped,
          PollMessage, BreakOnShutdown, Handle, Goto
    <3>3. QED
      BY <2>2, <3>1, <3>2
  <2>11. CASE \/ IterateNoReader \/ StartTimeout \/ ProbeException \/ PollException
              \/ HandlerRaises
    <3>1. retry_count = 0
      BY <2>0, <2>11
      DEF NeverGivesUp, RetriesStartOver, IterateNoReader, StartTimeout, ProbeException,
          PollException, HandlerRaises
    <3>2. QED
      BY <2>4, <2>11, <3>1
      DEF IterateNoReader, StartTimeout, ProbeException, PollException, HandlerRaises
  <2>12. CASE Disconnected
    <3>1. UNCHANGED retry_count /\ reader' = FALSE
      BY <2>12 DEF Disconnected
    <3>2. CASE pc = "closejoin"
      BY <2>3, <2>12, <3>1, <3>2 DEF Disconnected, Goto
    <3>3. CASE pc = "joining" /\ retry_count < MaxRetries
      <4>1. pc' = "sleep"
        BY <2>12, <3>3 DEF Disconnected, Goto
      <4>2. QED
        BY <2>0, <3>1, <4>1 DEF NeverGivesUp, RetriesStartOver
    <3>4. CASE pc = "joining" /\ ~(retry_count < MaxRetries)
      <4>1. pc' = "raised" /\ MaxRetries = 1
        BY <2>0, <2>12, <3>4 DEF Disconnected, Goto
      <4>2. QED
        BY <2>0, <3>1, <4>1 DEF NeverGivesUp, RetriesStartOver
    <3>5. QED
      BY <2>12, <3>2, <3>3, <3>4 DEF Disconnected
  <2>13. CASE Sleep
    BY <2>13 DEF Sleep, Goto, NeverGivesUp, RetriesStartOver
  <2>14. QED
    BY <2>5, <2>6, <2>7, <2>8, <2>9, <2>10, <2>11, <2>12, <2>13
    DEF Next, ConsumerThread
<1>3. NeverGivesUp => (MaxRetries > 1 => pc # "raised")
  BY DEF NeverGivesUp
<1>4. QED
  BY <1>1, <1>2, <1>3, PTL DEF Spec

----------------------------------------------------------------------------
(* Why an abandoned reader thread has been told to stop.                    *)

ExceptionLast(r) ==
    (\E i \in 1..Len(r.queue) : r.queue[i] = Exception) => r.state = "ended"
ExceptionsLast == \A s \in Streams : ExceptionLast(stream[s])

Undisturbed == faults["start"] = 0 /\ faults["stop"] = 0
AtWork == {"iterate", "starting", "probing", "putback", "poll", "message"}
Left == {"joining", "closejoin", "sleep", "done", "raised"}
Running(r) == r.state \notin {"none", "ended"}

\* The rest of LeavingInv, one definition for each thing a step can disturb.
HasReader == manager.state = "idle" /\ (pc \in AtWork => reader)
Holds(r) ==
    /\ reader /\ pc \notin Left
    /\ r.connected \/ pc \in {"starting", "probing", "putback"}
HoldsCur == Alive(cur) /\ ~This.stop => Holds(This)
OthersStop == \A s \in Streams : s # cur /\ Alive(s) => stream[s].stop

LEMMA LeavingParts ==
  /\ LeavingInv <=> ExceptionsLast /\ (Undisturbed => HasReader /\ HoldsCur /\ OthersStop)
  /\ LeavingInv' <=> ExceptionsLast' /\ (Undisturbed' => HasReader' /\ HoldsCur' /\ OthersStop')
<1>1. LeavingInv <=> ExceptionsLast /\ (Undisturbed => HasReader /\ HoldsCur /\ OthersStop)
  BY DEF LeavingInv, ExceptionsLast, ExceptionLast, Undisturbed, HasReader, HoldsCur, Holds,
         OthersStop, AtWork, Left
<1>2. QED
  BY <1>1, PTL

LEMMA FaultFacts ==
  ASSUME TypeOK, NEW kind \in FaultKinds, Fault(kind)
  PROVE  /\ faults'[kind] # 0
         /\ \A k \in FaultKinds : k # kind => faults'[k] = faults[k]
  BY DEF TypeOK, Fault

LEMMA BecomesExceptionsLast ==
  ASSUME TypeOK, ExceptionsLast, NEW s \in Streams, NEW r, Becomes(s, r), ExceptionLast(r)
  PROVE  ExceptionsLast'
  BY DEF TypeOK, ExceptionsLast, ExceptionLast, Becomes

LEMMA NextExceptionsLast ==
  ASSUME TypeOK, ReaderInv, ConsumerInv, ExceptionsLast, [Next]_vars
  PROVE  ExceptionsLast'
<1> USE ValuesAssumption
<1>0. /\ cur \in Streams /\ This \in Stream /\ ExceptionLast(This)
      /\ \A s \in Streams : stream[s] \in Stream /\ ExceptionLast(stream[s])
      /\ Queue \in Seq(Items) /\ Queue = This.queue
  BY DEF TypeOK, ExceptionsLast, This, Queue, Stream, Items
<1>1. ASSUME UNCHANGED stream PROVE ExceptionsLast'
  BY <1>1 DEF ExceptionsLast, ExceptionLast
<1>2. ASSUME NEW s \in Streams, NEW r, Becomes(s, r), r.queue = stream[s].queue,
             stream[s].state # "ended" \/ r.state = stream[s].state
      PROVE  ExceptionsLast'
  <2>1. ExceptionLast(r)
    BY <1>0, <1>2 DEF ExceptionLast
  <2>2. QED
    BY <1>2, <2>1, BecomesExceptionsLast
<1>3. ASSUME NEW s \in Streams, ReaderThread(s) PROVE ExceptionsLast'
  <2>1. CASE ReaderReady(s)
    <3> DEFINE r == [stream[s] EXCEPT !.state = "opening", !.ready = TRUE]
    <3>1. Becomes(s, r) /\ r.queue = stream[s].queue /\ stream[s].state # "ended"
      BY <1>0, <2>1 DEF ReaderReady, Stream
    <3>2. QED
      BY <1>2, <3>1
  <2>2. CASE Attach(s)
    <3> DEFINE r == [stream[s] EXCEPT !.state = "reading", !.at = confirmed]
    <3>1. Becomes(s, r) /\ r.queue = stream[s].queue /\ stream[s].state # "ended"
      BY <1>0, <2>2 DEF Attach, Stream
    <3>2. QED
      BY <1>2, <3>1
  <2>3. CASE ReaderRaises(s)
    <3> DEFINE r == [stream[s] EXCEPT !.state = "putting", !.item = Exception]
    <3>1. Becomes(s, r) /\ r.queue = stream[s].queue /\ stream[s].state # "ended"
      BY <1>0, <2>3 DEF ReaderRaises, Stream
    <3>2. QED
      BY <1>2, <3>1
  <2>4. CASE Read(s)
    <3> DEFINE d == [stream[s] EXCEPT !.state = "ended"]
               r == [stream[s] EXCEPT !.state = "putting", !.at = @ + 1,
                                      !.item = stream[s].at + 1]
    <3>1. stream[s].state # "ended" /\ d.queue = stream[s].queue /\ r.queue = stream[s].queue
      BY <1>0, <2>4 DEF Read, Stream
    <3>2. Becomes(s, d) \/ Becomes(s, r)
      BY <2>4 DEF Read
    <3>3. CASE Becomes(s, d)
      BY <1>2, <3>1, <3>3
    <3>4. CASE Becomes(s, r)
      BY <1>2, <3>1, <3>4
    <3>5. QED
      BY <3>2, <3>3, <3>4
  <2>5. CASE Put(s)
    <3> DEFINE r == [stream[s] EXCEPT
                       !.state = IF stream[s].item = Exception THEN "ended" ELSE "reading",
                       !.queue = Append(@, stream[s].item),
                       !.item = None]
    <3>1. /\ Becomes(s, r) /\ r.queue = Append(stream[s].queue, stream[s].item)
          /\ r.state = IF stream[s].item = Exception THEN "ended" ELSE "reading"
      BY <1>0, <2>5 DEF Put, Stream
    <3>2. stream[s].item \in Items /\ stream[s].queue \in Seq(Items)
      BY <1>0, <2>5 DEF Put, ReaderInv, Stream, Items
    <3>3. stream[s].item # Exception =>
            \A i \in 1..Len(r.queue) : r.queue[i] # Exception
      <4> SUFFICES ASSUME stream[s].item # Exception, NEW i \in 1..Len(r.queue)
                   PROVE  r.queue[i] # Exception
        OBVIOUS
      <4>1. \A k \in 1..Len(stream[s].queue) : stream[s].queue[k] # Exception
        BY <1>0, <2>5 DEF Put, ExceptionLast
      <4>2. i \in 1..Len(stream[s].queue) \/ i = Len(stream[s].queue) + 1
        BY <3>1, <3>2, PutLast
      <4>3. QED
        BY <3>1, <3>2, <4>1, <4>2, PutLast
    <3>4. ExceptionLast(r)
      BY <3>1, <3>3 DEF ExceptionLast
    <3>5. QED
      BY <3>1, <3>4, BecomesExceptionsLast
  <2>6. QED
    BY <1>3, <2>1, <2>2, <2>3, <2>4, <2>5 DEF ReaderThread
<1>4. ExceptionLast(NewStream)
  BY EmptySeq DEF ExceptionLast, NewStream
<1>5. ASSUME NEW s \in Streams, Connect(s) PROVE ExceptionsLast'
  BY <1>4, <1>5, BecomesExceptionsLast DEF Connect
<1>6. CASE Restart
  BY <1>4, <1>6 DEF Restart, ExceptionsLast
<1>7. CASE Iterate
  <2>1. CASE This.connected
    BY <1>1, <1>7, <2>1 DEF Iterate
  <2>2. CASE ~This.connected
    <3> DEFINE r == [This EXCEPT !.state = "new"]
    <3>1. This.state = "none"
      BY <1>7, <2>2 DEF Iterate, ConsumerInv
    <3>2. Becomes(cur, r) /\ r.queue = stream[cur].queue /\ stream[cur].state # "ended"
      BY <1>0, <1>7, <2>2, <3>1 DEF Iterate, Stream, This
    <3>3. QED
      BY <1>0, <1>2, <3>2
  <2>3. QED
    BY <2>1, <2>2
<1>8. CASE ProbeException \/ ProbeMessage \/ PollException \/ PollMessage
  <2> DEFINE r == [This EXCEPT !.queue = Tail(@)]
  <2>1. Queue # <<>> /\ Becomes(cur, r)
    BY <1>8 DEF ProbeException, ProbeMessage, PollException, PollMessage
  <2>2. r.queue = Tail(Queue) /\ r.state = This.state
    BY <1>0 DEF Stream
  <2>3. \A i \in 1..Len(Tail(Queue)) : Tail(Queue)[i] = Queue[i + 1] /\ i + 1 \in 1..Len(Queue)
    BY <1>0, <2>1, TakeFirst
  <2>4. ExceptionLast(r)
    BY <1>0, <2>2, <2>3 DEF ExceptionLast
  <2>5. QED
    BY <1>0, <2>1, <2>4, BecomesExceptionsLast
<1>9. CASE PutBack
  <2> DEFINE r == [This EXCEPT !.queue = Append(@, hand), !.connected = TRUE]
  <2>1. Becomes(cur, r) /\ r.queue = Append(Queue, hand) /\ r.state = This.state
    BY <1>0, <1>9 DEF PutBack, Stream
  <2>2. hand \in Items /\ hand # Exception
    BY <1>9 DEF PutBack, ConsumerInv, TypeOK, Items
  <2>3. \A i \in 1..Len(r.queue) : r.queue[i] = Exception =>
            i \in 1..Len(Queue) /\ Queue[i] = Exception
    BY <1>0, <2>1, <2>2, PutLast
  <2>4. ExceptionLast(r)
    BY <1>0, <2>1, <2>3 DEF ExceptionLast
  <2>5. QED
    BY <1>0, <2>1, <2>4, BecomesExceptionsLast
<1>10. CASE ProbeEmpty
  <2> DEFINE r == [This EXCEPT !.connected = TRUE]
  <2>1. Becomes(cur, r) /\ r.queue = stream[cur].queue /\ r.state = stream[cur].state
    BY <1>0, <1>10 DEF ProbeEmpty, Stream, This
  <2>2. QED
    BY <1>0, <1>2, <2>1
<1>11. CASE Disconnect \/ StopStreaming
  <2> DEFINE r == [This EXCEPT !.stop = @ \/ (reader /\ This.connected)]
  <2>1. Becomes(cur, r) /\ r.queue = stream[cur].queue /\ r.state = stream[cur].state
    BY <1>0, <1>11 DEF Disconnect, StopStreaming, Stream, This
  <2>2. QED
    BY <1>0, <1>2, <2>1
<1>12. CASE Disconnected
  <2> DEFINE r == [This EXCEPT !.connected = @ /\ ~reader]
  <2>1. Becomes(cur, r) /\ r.queue = stream[cur].queue /\ r.state = stream[cur].state
    BY <1>0, <1>12 DEF Disconnected, Stream, This
  <2>2. QED
    BY <1>0, <1>2, <2>1
<1>13. CASE StreamingStopped
  <2> DEFINE m == manager.target
             r == [stream[m] EXCEPT !.connected = FALSE]
  <2>1. CASE m = None
    BY <1>1, <1>13, <2>1 DEF StreamingStopped
  <2>2. CASE m # None
    <3>1. m \in Streams
      BY <2>2 DEF TypeOK
    <3>2. Becomes(m, r) /\ r.queue = stream[m].queue /\ r.state = stream[m].state
      BY <1>0, <1>13, <2>2, <3>1 DEF StreamingStopped, Stream
    <3>3. QED
      BY <1>2, <3>1, <3>2
  <2>3. QED
    BY <2>1, <2>2
<1>14. CASE \/ Commit \/ ConnectionLost \/ ServerNotices \/ Signal
            \/ (\E s \in Streams : Confirm(s)) \/ UNCHANGED vars
            \/ LoopEnds \/ LoopAgain \/ IterateNoReader \/ ReadyInTime \/ StartTimeout
            \/ PollStopped \/ BreakOnShutdown \/ Handle \/ HandlerRaises \/ Sleep
  BY <1>1, <1>14
  DEF Commit, ConnectionLost, ServerNotices, Signal, Confirm, vars, LoopEnds, LoopAgain,
      IterateNoReader, ReadyInTime, StartTimeout, PollStopped, BreakOnShutdown, Handle,
      HandlerRaises, Sleep
<1>15. QED
  BY <1>3, <1>5, <1>6, <1>7, <1>8, <1>9, <1>10, <1>11, <1>12, <1>13, <1>14
  DEF Next, ConsumerThread

\* A step that does not touch the streams, as the consumer goes from pc to pc'.
LEMMA NoStreamLeft ==
  ASSUME HoldsCur, OthersStop, UNCHANGED <<stream, cur, reader>>,
         \/ pc \in Left
         \/ pc' \notin Left /\ (pc \in {"starting", "probing", "putback"} =>
                                    pc' \in {"starting", "probing", "putback"})
  PROVE  HoldsCur' /\ OthersStop'
<1>1. This' = This /\ \A s \in Streams : Alive(s)' = Alive(s) /\ stream'[s] = stream[s]
  BY DEF This, Alive
<1>2. Alive(cur)' = Alive(cur)
  BY DEF Alive
<1>3. OthersStop'
  BY <1>1 DEF OthersStop
<1>4. HoldsCur'
  BY <1>1, <1>2 DEF HoldsCur, Holds
<1>5. QED
  BY <1>3, <1>4

\* A step that replaces one stream.
LEMMA OneStreamLeft ==
  ASSUME TypeOK, OthersStop, cur' = cur, NEW s \in Streams, NEW r, Becomes(s, r),
         s # cur /\ Running(r) => r.stop,
         s # cur => HoldsCur /\ UNCHANGED <<pc, reader>>,
         s = cur /\ Running(r) /\ ~r.stop =>
             /\ reader' /\ pc' \notin Left
             /\ r.connected \/ pc' \in {"starting", "probing", "putback"}
  PROVE  HoldsCur' /\ OthersStop'
<1>0. /\ \A t \in Streams : stream'[t] = IF t = s THEN r ELSE stream[t]
      /\ cur \in Streams
  BY DEF TypeOK, Becomes
<1>1. OthersStop'
  BY <1>0 DEF OthersStop, Alive, Running
<1>2. CASE s = cur
  <2>1. This' = r /\ (Alive(cur)' <=> Running(r))
    BY <1>0, <1>2 DEF This, Alive, Running
  <2>2. QED
    BY <1>1, <1>2, <2>1 DEF HoldsCur, Holds
<1>3. CASE s # cur
  <2>1. This' = This /\ Alive(cur)' = Alive(cur)
    BY <1>0, <1>3 DEF This, Alive
  <2>2. QED
    BY <1>1, <1>3, <2>1 DEF HoldsCur, Holds
<1>4. QED
  BY <1>2, <1>3

\* Faults are counted, never forgotten.
LEMMA StaysUndisturbed ==
  ASSUME TypeOK, [Next]_vars, Undisturbed'
  PROVE  Undisturbed /\ ~StartTimeout /\ ~StopStreaming
<1>0. "start" \in FaultKinds /\ "stop" \in FaultKinds /\ "network" \in FaultKinds
      /\ "handler" \in FaultKinds /\ "restart" \in FaultKinds /\ "shutdown" \in FaultKinds
  BY DEF FaultKinds
<1>1. \A k \in FaultKinds : Fault(k) => Undisturbed /\ k # "start" /\ k # "stop"
  BY <1>0, FaultFacts DEF Undisturbed
<1>2. ~StartTimeout /\ ~StopStreaming
  BY <1>0, <1>1 DEF StartTimeout, StopStreaming
<1>3. UNCHANGED faults \/ \E k \in FaultKinds : Fault(k)
  <2>1. CASE \/ ConnectionLost \/ HandlerRaises \/ Signal \/ Restart
             \/ StartTimeout \/ StopStreaming
    BY <1>0, <2>1
    DEF ConnectionLost, HandlerRaises, Signal, Restart, StartTimeout, StopStreaming
  <2>2. CASE \/ Commit \/ ServerNotices \/ StreamingStopped \/ UNCHANGED vars
             \/ \E s \in Streams : Confirm(s) \/ ReaderThread(s)
    BY <2>2
    DEF Commit, ServerNotices, StreamingStopped, vars, Confirm, ReaderThread, ReaderReady,
        Attach, ReaderRaises, Read, Put
  <2>3. CASE ConsumerThread /\ ~HandlerRaises /\ ~StartTimeout
    BY <2>3
    DEF ConsumerThread, LoopEnds, LoopAgain, Connect, Iterate, IterateNoReader, ReadyInTime,
        ProbeEmpty, ProbeException, ProbeMessage, PutBack, PollStopped, PollException,
        PollMessage, BreakOnShutdown, Handle, Disconnect, Disconnected, Sleep
  <2>4. QED
    BY <2>1, <2>2, <2>3 DEF Next
<1>4. QED
  BY <1>1, <1>2, <1>3 DEF Undisturbed

LEMMA NextLeaving ==
  ASSUME TypeOK, ReaderInv, ConsumerInv, LeavingInv, [Next]_vars
  PROVE  LeavingInv'
<1>1. ExceptionsLast
  BY LeavingParts
<1>2. ExceptionsLast'
  BY <1>1, NextExceptionsLast
<1>3. SUFFICES ASSUME Undisturbed'
               PROVE  HasReader' /\ HoldsCur' /\ OthersStop'
  BY <1>2, LeavingParts
<1>4. Undisturbed /\ ~StartTimeout /\ ~StopStreaming
  BY <1>3, StaysUndisturbed
<1>5. HasReader /\ HoldsCur /\ OthersStop
  BY <1>4, LeavingParts
<1>0. /\ cur \in Streams /\ This \in Stream /\ This = stream[cur]
      /\ \A s \in Streams : stream[s] \in Stream
      /\ (Alive(cur) <=> Running(This))
      /\ \A s \in Streams : Alive(s) <=> Running(stream[s])
  BY DEF TypeOK, This, Alive, Running
<1>6. ASSUME UNCHANGED <<stream, pc, cur, reader, manager>>
      PROVE  HasReader' /\ HoldsCur' /\ OthersStop'
  <2>1. HasReader'
    BY <1>5, <1>6 DEF HasReader
  <2>2. pc \in Left \/ pc' \notin Left
    BY <1>6
  <2>3. QED
    BY <1>5, <1>6, <2>1, <2>2, NoStreamLeft
<1>7. CASE \/ Commit \/ ConnectionLost \/ ServerNotices \/ Signal
           \/ (\E s \in Streams : Confirm(s)) \/ UNCHANGED vars
  BY <1>6, <1>7
  DEF Commit, ConnectionLost, ServerNotices, Signal, Confirm, vars, consumer
<1>8. ASSUME NEW s \in Streams, ReaderThread(s)
      PROVE  HasReader' /\ HoldsCur' /\ OthersStop'
  <2>1. UNCHANGED <<pc, cur, reader, manager>>
    BY <1>8 DEF ReaderThread, ReaderReady, Attach, ReaderRaises, Read, Put, consumer
  <2>2. HasReader'
    BY <1>5, <2>1 DEF HasReader
  <2>3. ASSUME NEW r, Becomes(s, r), r.stop = stream[s].stop,
               r.connected = stream[s].connected, Running(stream[s])
        PROVE  HoldsCur' /\ OthersStop'
    <3>1. s # cur /\ Running(r) => r.stop
      BY <1>0, <1>5, <2>3 DEF OthersStop
    <3>2. s = cur /\ Running(r) /\ ~r.stop =>
             /\ reader' /\ pc' \notin Left
             /\ r.connected \/ pc' \in {"starting", "probing", "putback"}
      BY <1>0, <1>5, <2>1, <2>3 DEF HoldsCur, Holds
    <3>3. QED
      BY <1>5, <2>1, <2>3, <3>1, <3>2, OneStreamLeft
  <2>4. CASE ReaderReady(s)
    <3> DEFINE r == [stream[s] EXCEPT !.state = "opening", !.ready = TRUE]
    <3>1. /\ Becomes(s, r) /\ r.stop = stream[s].stop /\ r.connected = stream[s].connected
          /\ Running(stream[s])
      BY <1>0, <2>4 DEF ReaderReady, Stream, Running
    <3>2. QED
      BY <2>2, <2>3, <3>1
  <2>5. CASE Attach(s)
    <3> DEFINE r == [stream[s] EXCEPT !.state = "reading", !.at = confirmed]
    <3>1. /\ Becomes(s, r) /\ r.stop = stream[s].stop /\ r.connected = stream[s].connected
          /\ Running(stream[s])
      BY <1>0, <2>5 DEF Attach, Stream, Running
    <3>2. QED
      BY <2>2, <2>3, <3>1
  <2>6. CASE ReaderRaises(s)
    <3> DEFINE r == [stream[s] EXCEPT !.state = "putting", !.item = Exception]
    <3>1. /\ Becomes(s, r) /\ r.stop = stream[s].stop /\ r.connected = stream[s].connected
          /\ Running(stream[s])
      BY <1>0, <2>6 DEF ReaderRaises, Stream, Running
    <3>2. QED
      BY <2>2, <2>3, <3>1
  <2>7. CASE Read(s)
    <3> DEFINE d == [stream[s] EXCEPT !.state = "ended"]
               r == [stream[s] EXCEPT !.state = "putting", !.at = @ + 1,
                                      !.item = stream[s].at + 1]
    <3>1. /\ d.stop = stream[s].stop /\ d.connected = stream[s].connected
          /\ r.stop = stream[s].stop /\ r.connected = stream[s].connected
          /\ Running(stream[s])
      BY <1>0, <2>7 DEF Read, Stream, Running
    <3>2. Becomes(s, d) \/ Becomes(s, r)
      BY <2>7 DEF Read
    <3>3. CASE Becomes(s, d)
      BY <2>2, <2>3, <3>1, <3>3
    <3>4. CASE Becomes(s, r)
      BY <2>2, <2>3, <3>1, <3>4
    <3>5. QED
      BY <3>2, <3>3, <3>4
  <2>8. CASE Put(s)
    <3> DEFINE r == [stream[s] EXCEPT
                       !.state = IF stream[s].item = Exception THEN "ended" ELSE "reading",
                       !.queue = Append(@, stream[s].item),
                       !.item = None]
    <3>1. Becomes(s, r)
      BY <2>8 DEF Put
    <3>2. r.stop = stream[s].stop /\ r.connected = stream[s].connected /\ Running(stream[s])
      BY <1>0, <2>8 DEF Put, Stream, Running
    <3>3. QED
      BY <2>2, <2>3, <3>1, <3>2
  <2>9. QED
    BY <1>8, <2>4, <2>5, <2>6, <2>7, <2>8 DEF ReaderThread
<1>9. CASE \/ LoopEnds \/ LoopAgain \/ ReadyInTime \/ PollStopped \/ BreakOnShutdown
           \/ Handle \/ HandlerRaises \/ Sleep
  <2>1. UNCHANGED <<stream, cur, reader, manager>>
    BY <1>9
    DEF LoopEnds, LoopAgain, ReadyInTime, PollStopped, BreakOnShutdown, Handle, HandlerRaises,
        Sleep, Raise, Goto
  <2>2. pc' \in AtWork => reader
    BY <1>5, <1>9
    DEF LoopEnds, LoopAgain, ReadyInTime, PollStopped, BreakOnShutdown, Handle, HandlerRaises,
        Sleep, Raise, Goto, HasReader, AtWork
  <2>3. \/ pc \in Left
        \/ pc' \notin Left /\ (pc \in {"starting", "probing", "putback"} =>
                                   pc' \in {"starting", "probing", "putback"})
    BY <1>9
    DEF LoopEnds, LoopAgain, ReadyInTime, PollStopped, BreakOnShutdown, Handle, HandlerRaises,
        Sleep, Raise, Goto, Left
  <2>4. HasReader'
    BY <1>5, <2>1, <2>2 DEF HasReader
  <2>5. QED
    BY <1>5, <2>1, <2>3, <2>4, NoStreamLeft
<1>10. CASE IterateNoReader
  BY <1>5, <1>10 DEF IterateNoReader, HasReader, AtWork
<1>11. ASSUME NEW s \in Streams, Connect(s)
       PROVE  HasReader' /\ HoldsCur' /\ OthersStop'
  <2>1. /\ \A t \in Streams : stream'[t] = IF t = s THEN NewStream ELSE stream[t]
        /\ cur' = s /\ reader' = TRUE /\ pc' = "iterate" /\ manager' = manager /\ pc = "loop"
        /\ ~reader
    BY <1>11 DEF Connect, Goto, TypeOK, Becomes
  <2>2. ~Running(NewStream)
    BY DEF Running, NewStream
  <2>3. Alive(cur) => This.stop
    BY <1>5, <2>1 DEF HoldsCur, Holds
  <2>4. HasReader'
    BY <1>5, <2>1 DEF HasReader
  <2>5. HoldsCur'
    <3>1. This' = NewStream /\ (Alive(cur)' <=> Running(NewStream))
      BY <2>1 DEF This, Alive, Running
    <3>2. QED
      BY <2>2, <3>1 DEF HoldsCur
  <2>6. OthersStop'
    BY <1>0, <1>5, <2>1, <2>3 DEF OthersStop, Alive, This
  <2>7. QED
    BY <2>4, <2>5, <2>6
<1>12. ASSUME NEW r, Becomes(cur, r), UNCHANGED <<cur, manager>>,
              pc' \in AtWork => reader',
              Running(r) /\ ~r.stop =>
                 /\ reader' /\ pc' \notin Left
                 /\ r.connected \/ pc' \in {"starting", "probing", "putback"}
       PROVE  HasReader' /\ HoldsCur' /\ OthersStop'
  <2>1. HasReader'
    BY <1>5, <1>12 DEF HasReader
  <2>2. HoldsCur' /\ OthersStop'
    BY <1>0, <1>5, <1>12, OneStreamLeft
  <2>3. QED
    BY <2>1, <2>2
<1>13. CASE Iterate
  <2>1. pc = "iterate" /\ reader /\ UNCHANGED <<cur, reader, manager>>
    BY <1>13 DEF Iterate, Goto
  <2>2. CASE This.connected
    <3>1. UNCHANGED stream /\ pc' = "poll"
      BY <1>13, <2>2 DEF Iterate, Goto
    <3>2. HasReader'
      BY <1>5, <2>1 DEF HasReader
    <3>3. pc' \notin Left /\ pc \notin {"starting", "probing", "putback"}
      BY <2>1, <3>1 DEF Left
    <3>4. QED
      BY <1>5, <2>1, <3>1, <3>2, <3>3, NoStreamLeft
  <2>3. CASE ~This.connected
    <3>1. Becomes(cur, [This EXCEPT !.state = "new"]) /\ pc' = "starting"
      BY <1>13, <2>3 DEF Iterate, Goto
    <3>2. pc' \notin Left
      BY <3>1 DEF Left
    <3>3. QED
      BY <1>12, <2>1, <3>1, <3>2
  <2>4. QED
    BY <2>2, <2>3
<1>14. CASE ProbeEmpty \/ PutBack
  <2> DEFINE e == [This EXCEPT !.connected = TRUE]
             p == [This EXCEPT !.queue = Append(@, hand), !.connected = TRUE]
  <2>1. e.connected /\ p.connected
    BY <1>0 DEF Stream
  <2>2. /\ pc \in {"probing", "putback"} /\ pc' = "poll" /\ UNCHANGED <<cur, reader, manager>>
        /\ Becomes(cur, e) \/ Becomes(cur, p)
    BY <1>14 DEF ProbeEmpty, PutBack, Goto
  <2>3. reader' /\ pc' \notin Left
    BY <1>5, <2>2 DEF HasReader, AtWork, Left
  <2>4. CASE Becomes(cur, e)
    BY <1>12, <2>1, <2>2, <2>3, <2>4
  <2>5. CASE Becomes(cur, p)
    BY <1>12, <2>1, <2>2, <2>3, <2>5
  <2>6. QED
    BY <2>2, <2>4, <2>5
<1>15. CASE ProbeException \/ ProbeMessage \/ PollException \/ PollMessage
  <2> DEFINE r == [This EXCEPT !.queue = Tail(@)]
  <2>1. /\ Becomes(cur, r) /\ UNCHANGED <<cur, reader, manager>>
        /\ r.state = This.state /\ r.stop = This.stop /\ r.connected = This.connected
    BY <1>0, <1>15
    DEF ProbeException, ProbeMessage, PollException, PollMessage, Raise, Goto, Stream
  <2>2. pc' \in AtWork => reader'
    BY <1>5, <1>15, <2>1
    DEF ProbeException, ProbeMessage, PollException, PollMessage, Raise, Goto, HasReader,
        AtWork
  <2>3. CASE ProbeException
    <3>1. Queue # <<>> /\ Head(Queue) = Exception /\ Queue \in Seq(Items)
      BY <1>0, <2>3 DEF ProbeException, Queue, Stream, Items
    <3>2. 1 \in 1..Len(This.queue) /\ This.queue[1] = Exception
      BY <3>1, TakeFirst DEF Queue
    <3>3. This.state = "ended"
      BY <1>0, <1>1, <3>2 DEF ExceptionsLast, ExceptionLast
    <3>4. ~Running(r)
      BY <2>1, <3>3 DEF Running
    <3>5. QED
      BY <1>12, <2>1, <2>2, <3>4
  <2>4. CASE ProbeMessage \/ PollException \/ PollMessage
    <3>1. \/ pc = "probing" /\ pc' = "putback"
          \/ pc = "poll" /\ pc' \in {"failing", "message"}
      BY <2>4 DEF ProbeMessage, PollException, PollMessage, Raise, Goto
    <3>2. pc' \notin Left
      BY <3>1 DEF Left
    <3>3. Running(r) /\ ~r.stop => Holds(This)
      BY <1>0, <1>5, <2>1 DEF HoldsCur, Running
    <3>4. Running(r) /\ ~r.stop =>
            /\ reader' /\ pc' \notin Left
            /\ r.connected \/ pc' \in {"starting", "probing", "putback"}
      BY <2>1, <3>1, <3>2, <3>3 DEF Holds
    <3>5. QED
      BY <1>12, <2>1, <2>2, <3>4
  <2>5. QED
    BY <1>15, <2>3, <2>4
<1>16. CASE Disconnect
  <2> DEFINE r == [This EXCEPT !.stop = @ \/ (reader /\ This.connected)]
  <2>1. /\ Becomes(cur, r) /\ UNCHANGED <<cur, reader, manager>>
        /\ r.state = This.state
        /\ r.stop = (This.stop \/ (reader /\ This.connected))
        /\ pc \in {"failing", "closing"} /\ pc' \in {"joining", "closejoin"}
    BY <1>0, <1>16 DEF Disconnect, Goto, Stream
  <2>2. Running(r) => r.stop
    BY <1>0, <1>5, <2>1 DEF HoldsCur, Holds, Running
  <2>3. pc' \notin AtWork
    BY <2>1 DEF AtWork
  <2>4. QED
    BY <1>12, <2>1, <2>2, <2>3
<1>17. CASE Disconnected
  <2> DEFINE r == [This EXCEPT !.connected = @ /\ ~reader]
  <2>1. /\ Becomes(cur, r) /\ UNCHANGED <<cur, manager>>
        /\ r.state = This.state /\ r.stop = This.stop
        /\ pc \in Left
    BY <1>0, <1>17 DEF Disconnected, Goto, Stream, Left
  <2>2. pc' \in {"done", "sleep", "raised"}
    BY <1>17 DEF Disconnected, Goto
  <2>3. Running(r) => r.stop
    BY <1>0, <1>5, <2>1 DEF HoldsCur, Holds, Running
  <2>4. pc' \notin AtWork
    BY <2>2 DEF AtWork
  <2>5. QED
    BY <1>12, <2>1, <2>3, <2>4
<1>18. CASE StreamingStopped
  BY <1>5, <1>18 DEF StreamingStopped, HasReader
<1>19. CASE Restart
  <2>1. /\ \A t \in Streams : stream'[t] = NewStream
        /\ cur' = cur /\ pc' = "loop" /\ manager'.state = "idle"
    BY <1>19 DEF Restart
  <2>2. \A t \in Streams : ~Alive(t)'
    BY <2>1 DEF Alive, NewStream
  <2>3. HasReader' /\ OthersStop'
    BY <2>1, <2>2 DEF HasReader, OthersStop, AtWork
  <2>4. ~Alive(cur)'
    BY <1>0, <2>1 DEF Alive, NewStream
  <2>5. QED
    BY <2>3, <2>4 DEF HoldsCur
<1>20. QED
  BY <1>4, <1>7, <1>8, <1>9, <1>10, <1>11, <1>13, <1>14, <1>15, <1>16, <1>17, <1>18, <1>19
  DEF Next, ConsumerThread

LEMMA InitLeaving == Init => LeavingInv
<1> SUFFICES ASSUME Init PROVE LeavingInv
  OBVIOUS
<1>1. \A s \in Streams : stream[s] = NewStream
  BY DEF Init
<1>2. ExceptionsLast
  BY <1>1, EmptySeq DEF ExceptionsLast, ExceptionLast, NewStream
<1>3. \A s \in Streams : ~Alive(s)
  BY <1>1 DEF Alive, NewStream
<1>4. HasReader /\ HoldsCur /\ OthersStop
  BY <1>3 DEF Init, HasReader, HoldsCur, OthersStop, AtWork
<1>5. QED
  BY <1>2, <1>4, LeavingParts

\* While no start has timed out and nobody has called stop_streaming, the consumer
\* leaves a stream only after it has told the reader thread to stop, or the thread
\* has ended: an exception is the last thing a reader thread puts in its queue.
THEOREM LeavingInvariant == Spec => []LeavingInv
<1>1. TypeInv /\ LeavingInv /\ [Next]_vars => LeavingInv'
  BY NextLeaving DEF TypeInv
<1>2. QED
  BY InitLeaving, AlwaysTypeInv, <1>1, PTL DEF Spec

\* Hence no reader thread that may still hold the slot is left behind unstopped.
THEOREM AbandonedStopped == Spec => []AbandonedIsStopped
<1>1. LeavingInv => AbandonedIsStopped
  BY DEF LeavingInv, AbandonedIsStopped
<1>2. QED
  BY LeavingInvariant, <1>1, PTL
=============================================================================
