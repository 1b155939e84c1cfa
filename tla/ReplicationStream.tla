--------------------------- MODULE ReplicationStream ---------------------------
(****************************************************************************)
(* How a change gets from the replication slot to the routing engine.       *)
(*                                                                          *)
(* The consumer thread runs ReplicationConsumer.start_streaming             *)
(* (replication_consumer.py).  Each connect() makes a                       *)
(* LogicalReplicationStream (logical_replication_stream.py), whose reader   *)
(* thread takes messages from the replication slot and puts them in the     *)
(* stream's bounded queue; the consumer takes them from there.  The signal  *)
(* handler sets shutdown_requested, and another thread may call             *)
(* StreamingManager.stop_streaming (streaming.py).  The slot, the server    *)
(* and the pgoutput_decoder library are external.                           *)
(*                                                                          *)
(* A message is its number in the log.  What the engine does with it is     *)
(* modelled in Tracker; here it is handled or the handler raises.           *)
(****************************************************************************)
EXTENDS Integers, Sequences, FiniteSets

CONSTANTS
    Streams,            \* the stream objects of which threads may be alive at one time
    Capacity,           \* maxsize of a stream's queue
    MaxRetries,         \* max_retries
    Unreachable,        \* TRUE iff no connection to the server ever succeeds
    Exception, None,
    MaxMessages,        \* bound on the length of the log
    MaxFaults,          \* bound on each kind of fault
    MaxKinds            \* bound on the kinds of fault in one history

FaultKinds == {"network", "handler", "start", "restart", "shutdown", "stop"}

ASSUME BoundsAssumption ==
    /\ Capacity \in Nat \ {0} /\ MaxRetries \in Nat \ {0} /\ MaxMessages \in Nat
    /\ MaxFaults \in [FaultKinds -> Nat] /\ MaxKinds \in Nat
ASSUME FlagsAssumption == Unreachable \in BOOLEAN
ASSUME ValuesAssumption ==
    /\ Exception \notin Nat /\ None \notin Nat /\ Exception # None /\ None \notin Streams

VARIABLES
    wal,        \* the number of messages in the log
    confirmed,  \* the slot: the messages up to here are not sent again
    owner,      \* the slot: the stream whose connection holds it, None, or "lost"
    stream,     \* the stream objects with their reader threads
    pc,         \* where the consumer thread is
    cur,        \* the stream the consumer made last
    reader,     \* ReplicationConsumer.reader: is it set (to cur)?
    hand,       \* the message the consumer thread holds, or None
    retry_count,
    shutdown,   \* shutdown_requested
    manager,    \* the thread that calls stop_streaming
    faults,     \* faults so far, by kind
    todo,       \* history: the messages that must still be handled
    lost        \* history: those that were not when the slot had stopped sending them

slot == <<wal, confirmed, owner>>
consumer == <<pc, cur, reader, hand, retry_count>>
vars == <<slot, stream, consumer, shutdown, manager, faults, todo, lost>>

Messages == 1..MaxMessages

\* The life of a reader thread: not started; constructing the library's reader;
\* about to connect; reading; putting item in the queue; ended.
ReaderStates == {"none", "new", "opening", "reading", "putting", "ended"}
Stream == [state : ReaderStates, queue : Seq(Nat \cup {Exception}),
           item : Nat \cup {Exception, None}, at : Nat,
           stop : BOOLEAN, ready : BOOLEAN, connected : BOOLEAN]

\* LogicalReplicationStream.__init__
NewStream == [state |-> "none", queue |-> <<>>, item |-> None, at |-> 0,
              stop |-> FALSE, ready |-> FALSE, connected |-> FALSE]

Alive(s) == stream[s].state \notin {"none", "ended"}
This == stream[cur]
Queue == This.queue

Becomes(s, new) == stream' = [stream EXCEPT ![s] = new]

Init ==
    /\ wal = 0 /\ confirmed = 0 /\ owner = None
    /\ stream = [s \in Streams |-> NewStream]
    /\ pc = "loop" /\ cur \in Streams /\ reader = FALSE /\ hand = None /\ retry_count = 0
    /\ shutdown = FALSE
    /\ manager = [state |-> "idle", target |-> None]
    /\ faults = [k \in FaultKinds |-> 0]
    /\ todo = {} /\ lost = {}

Fault(kind) ==
    /\ faults[kind] < MaxFaults[kind]
    /\ Cardinality({k \in FaultKinds : faults[k] > 0} \cup {kind}) <= MaxKinds
    /\ faults' = [faults EXCEPT ![kind] = @ + 1]

----------------------------------------------------------------------------
(* The database server (external).                                          *)

Commit ==
    /\ wal < MaxMessages
    /\ wal' = wal + 1
    /\ todo' = todo \cup {wal + 1}
    /\ UNCHANGED <<confirmed, owner, stream, consumer, shutdown, manager, faults, lost>>

\* The library tells the slot that messages need not be sent again: when, and up
\* to which of those it has handed out, is its own affair, as nobody tells it which
\* of them were handled.
Confirm(s) ==
    /\ owner = s
    /\ confirmed' \in (confirmed + 1)..stream[s].at
    /\ UNCHANGED <<wal, owner, stream, consumer, shutdown, manager, faults, todo, lost>>

\* The connection breaks; the slot stays active until the server notices.
ConnectionLost ==
    /\ owner \in Streams
    /\ Fault("network")
    /\ owner' = "lost"
    /\ UNCHANGED <<wal, confirmed, stream, consumer, shutdown, manager, todo, lost>>

ServerNotices ==
    /\ owner = "lost"
    /\ owner' = None
    /\ UNCHANGED <<wal, confirmed, stream, consumer, shutdown, manager, faults, todo, lost>>

----------------------------------------------------------------------------
(* The reader thread of stream s: _async_reader_thread.                     *)

\* ready_event.set(): before the connection is made.
ReaderReady(s) ==
    /\ stream[s].state = "new"
    /\ Becomes(s, [stream[s] EXCEPT !.state = "opening", !.ready = TRUE])
    /\ UNCHANGED <<slot, consumer, shutdown, manager, faults, todo, lost>>

\* "async for": the slot sends from the confirmed position.  What it sends to
\* the consumer's stream must be handled, again if it was; what was not handled and
\* is not sent now is lost.
Attach(s) ==
    /\ stream[s].state = "opening" /\ ~Unreachable /\ owner = None
    /\ owner' = s
    /\ Becomes(s, [stream[s] EXCEPT !.state = "reading", !.at = confirmed])
    /\ IF s = cur
       THEN /\ todo' = (confirmed + 1)..wal
            /\ lost' = lost \cup {m \in todo : m <= confirmed}
       ELSE UNCHANGED <<todo, lost>>
    /\ UNCHANGED <<wal, confirmed, consumer, shutdown, manager, faults>>

\* Fault: the reader logs the exception and ends.
ReaderRaisesQuietly(s) ==
    /\ \/ stream[s].state = "opening" /\ (Unreachable \/ owner # None)
       \/ stream[s].state = "reading" /\ owner # s
    /\ Becomes(s, [stream[s] EXCEPT !.state = "ended"])
    /\ UNCHANGED <<slot, consumer, shutdown, manager, faults, todo, lost>>

\* "except Exception as e: message_queue.put(e)".  No connection, the slot is
\* active, or the connection broke.
ReaderRaises(s) ==
    /\ \/ stream[s].state = "opening" /\ (Unreachable \/ owner # None)
       \/ stream[s].state = "reading" /\ owner # s
    /\ Becomes(s, [stream[s] EXCEPT !.state = "putting", !.item = Exception])
    /\ UNCHANGED <<slot, consumer, shutdown, manager, faults, todo, lost>>

\* The next message.  When the stop event is set the loop breaks: the message is
\* dropped, confirmed or not, and the slot released.  (at counts the messages that
\* are not dropped.)
Read(s) ==
    /\ stream[s].state = "reading" /\ owner = s /\ stream[s].at < wal
    /\ IF stream[s].stop
       THEN /\ Becomes(s, [stream[s] EXCEPT !.state = "ended"])
            /\ owner' = None
            /\ confirmed' \in {confirmed, stream[s].at + 1}
       ELSE /\ Becomes(s, [stream[s] EXCEPT !.state = "putting", !.at = @ + 1,
                                            !.item = stream[s].at + 1])
            /\ UNCHANGED <<owner, confirmed>>
    /\ UNCHANGED <<wal, consumer, shutdown, manager, faults, todo, lost>>

\* message_queue.put: waits while the queue is full.
Put(s) ==
    /\ stream[s].state = "putting" /\ Len(stream[s].queue) < Capacity
    /\ Becomes(s, [stream[s] EXCEPT
          !.state = IF stream[s].item = Exception THEN "ended" ELSE "reading",
          !.queue = Append(@, stream[s].item),
          !.item = None])
    /\ UNCHANGED <<slot, consumer, shutdown, manager, faults, todo, lost>>

ReaderThread(s) == ReaderReady(s) \/ Attach(s) \/ ReaderRaises(s) \/ Read(s) \/ Put(s)

----------------------------------------------------------------------------
(* The consumer thread.                                                     *)

Goto(label) == pc' = label /\ UNCHANGED <<slot, shutdown, manager>>

\* An exception reaches start_streaming: "retry_count += 1", then disconnect().
Raise == Goto("failing") /\ retry_count' = retry_count + 1 /\ hand' = None

\* "while not shutdown_requested and retry_count < self.max_retries"
LoopEnds ==
    /\ pc = "loop" /\ (shutdown \/ retry_count >= MaxRetries)
    /\ Goto("closing")
    /\ UNCHANGED <<stream, cur, reader, hand, retry_count, faults, todo, lost>>

\* Fault: connect() goes on with the queue of the stream before.
ConnectSharedQueue(s) ==
    /\ pc = "loop" /\ ~shutdown /\ retry_count < MaxRetries /\ ~reader
    /\ ~Alive(s) /\ manager.target # s
    /\ Becomes(s, [NewStream EXCEPT !.queue = Queue])
    /\ cur' = s /\ reader' = TRUE /\ retry_count' = 0
    /\ Goto("iterate")
    /\ UNCHANGED <<hand, faults, todo, lost>>

\* connect(): a new stream object, in the place of one nobody uses.
Connect(s) ==
    /\ pc = "loop" /\ ~shutdown /\ retry_count < MaxRetries /\ ~reader
    /\ ~Alive(s) /\ manager.target # s
    /\ Becomes(s, NewStream)
    /\ cur' = s /\ reader' = TRUE /\ retry_count' = 0
    /\ Goto("iterate")
    /\ UNCHANGED <<hand, faults, todo, lost>>

LoopAgain ==
    /\ pc = "loop" /\ ~shutdown /\ retry_count < MaxRetries /\ reader
    /\ Goto("iterate")
    /\ UNCHANGED <<stream, cur, reader, hand, retry_count, faults, todo, lost>>

\* "for message in self.reader": __iter__ starts the reader thread unless the
\* stream is connected.
Iterate ==
    /\ pc = "iterate" /\ reader
    /\ IF This.connected
       THEN Goto("poll") /\ UNCHANGED stream
       ELSE Goto("starting") /\ Becomes(cur, [This EXCEPT !.state = "new"])
    /\ UNCHANGED <<cur, reader, hand, retry_count, faults, todo, lost>>

\* "Reader not initialized": stop_streaming has taken the reader away.
IterateNoReader ==
    /\ pc = "iterate" /\ ~reader
    /\ Raise
    /\ UNCHANGED <<stream, cur, reader, faults, todo, lost>>

\* start_replication: wait for ready_event, ten seconds at most.
ReadyInTime ==
    /\ pc = "starting" /\ This.ready
    /\ Goto("probing")
    /\ UNCHANGED <<stream, cur, reader, hand, retry_count, faults, todo, lost>>

StartTimeout ==
    /\ pc = "starting" /\ ~This.ready
    /\ Fault("start")
    /\ Raise
    /\ UNCHANGED <<stream, cur, reader, todo, lost>>

\* "Check if there was an error during startup": the first item of the queue, if
\* there is one within a tenth of a second.
ProbeEmpty ==
    /\ pc = "probing" /\ Queue = <<>>
    /\ Becomes(cur, [This EXCEPT !.connected = TRUE])
    /\ Goto("poll")
    /\ UNCHANGED <<cur, reader, hand, retry_count, faults, todo, lost>>

ProbeException ==
    /\ pc = "probing" /\ Queue # <<>> /\ Head(Queue) = Exception
    /\ Becomes(cur, [This EXCEPT !.queue = Tail(@)])
    /\ Raise
    /\ UNCHANGED <<cur, reader, faults, todo, lost>>

\* Fault: a valid message is not put back.
ProbeMessageTaken ==
    /\ pc = "probing" /\ Queue # <<>> /\ Head(Queue) # Exception
    /\ Becomes(cur, [This EXCEPT !.queue = Tail(@), !.connected = TRUE])
    /\ Goto("poll")
    /\ UNCHANGED <<cur, reader, hand, retry_count, faults, todo, lost>>

ProbeMessage ==
    /\ pc = "probing" /\ Queue # <<>> /\ Head(Queue) # Exception
    /\ hand' = Head(Queue)
    /\ Becomes(cur, [This EXCEPT !.queue = Tail(@)])
    /\ Goto("putback")
    /\ UNCHANGED <<cur, reader, retry_count, faults, todo, lost>>

\* "Put it back if it's a valid message": at the end of the queue, waiting while
\* the queue is full.
PutBack ==
    /\ pc = "putback" /\ Len(Queue) < Capacity
    /\ Becomes(cur, [This EXCEPT !.queue = Append(@, hand), !.connected = TRUE])
    /\ hand' = None
    /\ Goto("poll")
    /\ UNCHANGED <<cur, reader, retry_count, faults, todo, lost>>

\* __iter__: "while not self._stop_event.is_set()"
PollStopped ==
    /\ pc = "poll" /\ This.stop
    /\ Goto("loop")
    /\ UNCHANGED <<stream, cur, reader, hand, retry_count, faults, todo, lost>>

PollException ==
    /\ pc = "poll" /\ ~This.stop /\ Queue # <<>> /\ Head(Queue) = Exception
    /\ Becomes(cur, [This EXCEPT !.queue = Tail(@)])
    /\ Raise
    /\ UNCHANGED <<cur, reader, faults, todo, lost>>

\* Fault: an exception from the reader is yielded like a message.
PollUnchecked ==
    /\ pc = "poll" /\ ~This.stop /\ Queue # <<>>
    /\ hand' = Head(Queue)
    /\ Becomes(cur, [This EXCEPT !.queue = Tail(@)])
    /\ Goto("message")
    /\ UNCHANGED <<cur, reader, retry_count, faults, todo, lost>>

PollMessage ==
    /\ pc = "poll" /\ ~This.stop /\ Queue # <<>> /\ Head(Queue) # Exception
    /\ hand' = Head(Queue)
    /\ Becomes(cur, [This EXCEPT !.queue = Tail(@)])
    /\ Goto("message")
    /\ UNCHANGED <<cur, reader, retry_count, faults, todo, lost>>

\* "if shutdown_requested: break": the message in hand is not handled.
BreakOnShutdown ==
    /\ pc = "message" /\ shutdown
    /\ hand' = None
    /\ Goto("loop")
    /\ UNCHANGED <<stream, cur, reader, retry_count, faults, todo, lost>>

\* Fault: shutdown_requested is looked at in start_streaming only.
HandleAnyway ==
    /\ pc = "message"
    /\ todo' = todo \ {hand}
    /\ hand' = None
    /\ Goto("poll")
    /\ UNCHANGED <<stream, cur, reader, retry_count, faults, lost>>

Handle ==
    /\ pc = "message" /\ ~shutdown
    /\ todo' = todo \ {hand}
    /\ hand' = None
    /\ Goto("poll")
    /\ UNCHANGED <<stream, cur, reader, retry_count, faults, lost>>

HandlerRaises ==
    /\ pc = "message" /\ ~shutdown
    /\ Fault("handler")
    /\ Raise
    /\ UNCHANGED <<stream, cur, reader, todo, lost>>

\* Fault: the stop event is not set.
DisconnectQuietly ==
    /\ pc \in {"failing", "closing"}
    /\ UNCHANGED stream
    /\ Goto(IF pc = "failing" THEN "joining" ELSE "closejoin")
    /\ UNCHANGED <<cur, reader, hand, retry_count, faults, todo, lost>>

\* disconnect() calls close(), which is stop(): nothing unless the stream is
\* connected.  (__iter__ has called stop() when the exception was its own; the
\* second call then does nothing.)
Disconnect ==
    /\ pc \in {"failing", "closing"}
    /\ Becomes(cur, [This EXCEPT !.stop = @ \/ (reader /\ This.connected)])
    /\ Goto(IF pc = "failing" THEN "joining" ELSE "closejoin")
    /\ UNCHANGED <<cur, reader, hand, retry_count, faults, todo, lost>>

\* join(timeout=5) returns, whether the thread has ended or not; then
\* "_connected = False" and "self.reader = None".
Disconnected ==
    /\ pc \in {"joining", "closejoin"}
    /\ Becomes(cur, [This EXCEPT !.connected = @ /\ ~reader])
    /\ reader' = FALSE
    /\ Goto(CASE pc = "closejoin" -> "done"
              [] pc = "joining" /\ retry_count < MaxRetries -> "sleep"
              [] OTHER -> "raised")
    /\ UNCHANGED <<cur, hand, retry_count, faults, todo, lost>>

Sleep ==
    /\ pc = "sleep"
    /\ Goto("loop")
    /\ UNCHANGED <<stream, cur, reader, hand, retry_count, faults, todo, lost>>

ConsumerThread ==
    \/ LoopEnds \/ LoopAgain \/ \E s \in Streams : Connect(s)
    \/ Iterate \/ IterateNoReader
    \/ ReadyInTime \/ StartTimeout \/ ProbeEmpty \/ ProbeException \/ ProbeMessage \/ PutBack
    \/ PollStopped \/ PollException \/ PollMessage
    \/ BreakOnShutdown \/ Handle \/ HandlerRaises
    \/ Disconnect \/ Disconnected \/ Sleep

----------------------------------------------------------------------------
(* From outside.                                                            *)

\* signal_handler, on SIGTERM and SIGINT.
Signal ==
    /\ ~shutdown
    /\ Fault("shutdown")
    /\ shutdown' = TRUE
    /\ UNCHANGED <<slot, stream, consumer, manager, todo, lost>>

\* stop_streaming: disconnect() from the manager's thread ...
StopStreaming ==
    /\ manager.state = "idle"
    /\ Fault("stop")
    /\ manager' = [state |-> "joining", target |-> IF reader THEN cur ELSE None]
    /\ Becomes(cur, [This EXCEPT !.stop = @ \/ (reader /\ This.connected)])
    /\ UNCHANGED <<slot, consumer, shutdown, todo, lost>>

\* ... which takes whatever reader the consumer has by then; the consumer's
\* thread is waited for five seconds.
StreamingStopped ==
    /\ manager.state = "joining"
    /\ manager' = [state |-> "returned", target |-> None]
    /\ IF manager.target = None
       THEN UNCHANGED <<stream, reader>>
       ELSE /\ Becomes(manager.target, [stream[manager.target] EXCEPT !.connected = FALSE])
            /\ reader' = FALSE
    /\ UNCHANGED <<slot, pc, cur, hand, retry_count, shutdown, faults, todo, lost>>

\* The process dies and is started again; its connection closes.
Restart ==
    /\ Fault("restart")
    /\ owner' = IF owner = None THEN None ELSE "lost"
    /\ stream' = [s \in Streams |-> NewStream]
    /\ pc' = "loop" /\ cur' = cur /\ reader' = FALSE /\ hand' = None /\ retry_count' = 0
    /\ shutdown' = FALSE
    /\ manager' = [state |-> "idle", target |-> None]
    /\ UNCHANGED <<wal, confirmed, todo, lost>>

Next ==
    \/ Commit \/ ConnectionLost \/ ServerNotices
    \/ \E s \in Streams : Confirm(s) \/ ReaderThread(s)
    \/ ConsumerThread
    \/ Signal \/ StopStreaming \/ StreamingStopped \/ Restart

Spec == Init /\ [][Next]_vars

\* Threads run, timeouts expire, and the server notices a broken connection.
FairSpec ==
    /\ Spec
    /\ \A s \in Streams : WF_vars(ReaderThread(s))
    /\ WF_vars(ConsumerThread) /\ WF_vars(StreamingStopped) /\ WF_vars(ServerNotices)

----------------------------------------------------------------------------
TypeOK ==
    /\ wal \in 0..MaxMessages /\ confirmed \in 0..wal
    /\ owner \in Streams \cup {None, "lost"}
    /\ stream \in [Streams -> Stream]
    /\ \A s \in Streams : stream[s].at <= wal
    /\ pc \in {"loop", "iterate", "starting", "probing", "putback", "poll", "message",
               "failing", "joining", "closing", "closejoin", "sleep", "done", "raised"}
    /\ cur \in Streams /\ reader \in BOOLEAN /\ shutdown \in BOOLEAN
    /\ hand \in Nat \cup {None}
    /\ retry_count \in Nat
    /\ manager \in [state : {"idle", "joining", "returned"}, target : Streams \cup {None}]
    /\ faults \in [FaultKinds -> Nat]
    /\ todo \in SUBSET (1..wal) /\ lost \in SUBSET (1..wal)

\* The stream implements what the tracker relies on.
D == INSTANCE Delivery WITH sent <- wal
Delivers == D!Spec

\* The consumer is at work on its stream, which nobody has stopped.
Consuming ==
    /\ pc \in {"iterate", "starting", "probing", "putback", "poll", "message"}
    /\ ~This.stop

\* The messages this process holds and is going to hand to the routing engine.
Held ==
    IF Consuming
    THEN {hand, This.item} \cup {Queue[i] : i \in 1..Len(Queue)}
    ELSE {}

\* While the consumer works on a stream, every message its reader has taken is
\* handled or on its way: the queue, the put-back and the threads lose nothing.
NothingDropped ==
    Consuming => \A m \in todo : m <= This.at => m \in Held

\* What the consumer has before it: the message in hand, then the queue.
Line == IF hand = None THEN Queue ELSE <<hand>> \o Queue

\* Where the consumer may still take messages from its stream.
Working ==
    \/ pc \in {"iterate", "starting", "probing", "putback", "poll", "message"}
    \/ pc = "loop" /\ reader /\ ~shutdown

\* The messages of a line, and the one the reader is about to add, are those
\* taken so far (up to at) that must still be handled, each once; the one being
\* added is the newest.
Accounts(line, item, at, messages) ==
    /\ \A i \in 1..Len(line) : line[i] \in Nat =>
          line[i] \in messages /\ line[i] <= at /\ (item \in Nat => line[i] < at)
    /\ item \in Nat => item = at /\ item \in messages
    /\ \A m \in messages : m <= at => m = item \/ \E i \in 1..Len(line) : line[i] = m
    /\ \A i, j \in 1..Len(line) : line[i] \in Nat /\ line[i] = line[j] => i = j

\* A newer message stands before the j-th.
Overtaken(line, j) ==
    \E i \in 1..(j - 1) : line[i] \in Nat /\ line[j] \in Nat /\ line[i] > line[j]
AtMostOneOvertaken(line) ==
    \A j, k \in 1..Len(line) : Overtaken(line, j) /\ Overtaken(line, k) => j = k
NoneOvertaken(line) == \A j \in 1..Len(line) : ~Overtaken(line, j)

LineInv ==
    /\ Accounts(Line, This.item, This.at, todo)
    /\ AtMostOneOvertaken(Line)
    /\ pc \in {"starting", "probing", "putback"} => NoneOvertaken(Line)
    /\ This.state = "reading" \/ This.item \in Nat => \A m \in (This.at + 1)..wal : m \in todo

\* How a reader thread's state shows in its stream, and the consumer's in its own.
ReaderInv ==
    \A s \in Streams :
        /\ stream[s].state \in {"none", "new", "opening"} =>
              stream[s].queue = <<>> /\ stream[s].at = 0
        /\ (stream[s].state = "putting") <=> (stream[s].item # None)
ConsumerInv ==
    /\ (hand # None) <=> (pc \in {"putback", "message"})
    /\ pc = "putback" => This.state \notin {"none", "new", "opening"}
    /\ pc \in {"loop", "poll", "message"} /\ reader => This.connected
    /\ pc = "iterate" /\ reader /\ ~This.connected => This.state = "none"
    /\ pc \in {"sleep", "done", "raised"} => ~reader

StreamInv ==
    /\ ReaderInv
    /\ ConsumerInv
    /\ Working => LineInv

\* A reader thread that may still hold the slot while the consumer has turned to
\* another stream has been told to stop.  Not so when its start timed out or
\* stop_streaming came first: stop() does nothing until the stream is connected.
AbandonedIsStopped ==
    faults["start"] = 0 /\ faults["stop"] = 0 =>
        \A s \in Streams : s # cur /\ Alive(s) => stream[s].stop

\* Why: an exception is the last thing a reader thread puts in its queue, and
\* unless a start timed out or stop_streaming interfered the consumer has its
\* stream as reader, and connected, until disconnect() has set the stop event.
LeavingInv ==
    /\ \A s \in Streams :
          (\E i \in 1..Len(stream[s].queue) : stream[s].queue[i] = Exception) =>
              stream[s].state = "ended"
    /\ faults["start"] = 0 /\ faults["stop"] = 0 =>
          /\ manager.state = "idle"
          /\ pc \in {"iterate", "starting", "probing", "putback", "poll", "message"} => reader
          /\ Alive(cur) /\ ~This.stop =>
                /\ reader /\ pc \notin {"joining", "closejoin", "sleep", "done", "raised"}
                /\ This.connected \/ pc \in {"starting", "probing", "putback"}
          /\ \A s \in Streams : s # cur /\ Alive(s) => stream[s].stop

\* A reader thread the consumer has turned from keeps the slot: no message comes
\* that would make it look at its stop event, or it waits for a place in its queue,
\* which nobody empties.
SlotKept ==
    /\ owner \in Streams \ {cur}
    /\ \/ stream[owner].state = "reading" /\ stream[owner].at = wal
       \/ stream[owner].state = "putting" /\ Len(stream[owner].queue) = Capacity

\* When the network fails, a handler raises and the process is restarted a number
\* of times, every message is nevertheless handled, or lost as NothingLost says,
\* unless a reader thread keeps the slot from then on, or the put-back waits for
\* ever as PutBackReturns says.
EventuallyHandled ==
    \A m \in Messages :
        (m \in todo) ~> (m \notin todo \/ shutdown \/ []SlotKept \/ [](pc = "putback"))

\* A signal ends the consumer if a message is waiting in its queue, unless the
\* put-back waits for ever.
ShutdownObeyed ==
    (shutdown /\ Consuming /\ Queue # <<>>) ~>
        (pc = "done" \/ ~shutdown \/ [](pc = "putback"))

----------------------------------------------------------------------------
(* What the documentation says and the code does not do.                    *)

\* "Put it back if it's a valid message" (logical_replication_stream.py:229): the
\* check at startup comes to an end.
PutBackReturns == (pc = "putback") ~> (pc # "putback")

\* "Stop the streaming consumer." (streaming.py:128)
StopStops == (manager.state = "returned") ~> (pc \in {"done", "raised"})

\* "Maximum reconnection attempts" (replication_consumer.py:45), after which "Max
\* retries exceeded, giving up" (219): a consumer that reaches no server gives up.
GivesUp == Unreachable => <>(pc = "raised" \/ shutdown)

\* "At-least-once delivery guarantee with WAL position tracking" (STREAMING.md:16):
\* the slot does not stop sending a message before it was handled.
NothingLost == lost = {}
=============================================================================
