---------------------------- MODULE ValkeyProofs ----------------------------
(* What ValkeyClient's run checks on three commands, proved for any number   *)
(* of commands, retries, connections and calls.  A call's effect on the      *)
(* client is a function on its record, so the first half of the module is    *)
(* one lemma per function: from a good client it makes a good client, and    *)
(* says which commands it kept.  The books (Ledger) relate the pending       *)
(* commands to the promises and to the history of send(); every action keeps *)
(* them because what it does to the queues is one of three things: commands  *)
(* leave an end, the oldest is answered, one is added behind the others.     *)
EXTENDS ValkeyClient, SequenceTheorems, FiniteSetTheorems, WellFoundedInduction, TLAPS

(* The invariant on the client, and the close path *)

\* The fields of ValkeyClient and JSValkeyClient that the model keeps.
Fields ==
    {"status", "sock", "manually_closed", "selecting", "reconnecting", "failed",
     "retry_attempts", "queue", "in_flight", "write_buffer", "wire", "promise", "timer",
     "reconnect_timer", "deferred", "flusher", "turn"}

\* The record of a client has its type.
Typed(c) ==
    /\ DOMAIN c = Fields
    /\ c.status \in Statuses /\ c.sock \in {"none", "dialing", "open"}
    /\ c.queue \in Seq(Commands) /\ c.in_flight \in Seq(Commands)
    /\ c.write_buffer \in Seq(Requests) /\ c.wire \in Seq(Requests)
    /\ c.retry_attempts \in 0..(MaxRetries + 1)
    /\ c.turn \in {"loop", "reply"}
    /\ c.manually_closed \in BOOLEAN /\ c.selecting \in BOOLEAN /\ c.reconnecting \in BOOLEAN
    /\ c.failed \in BOOLEAN /\ c.promise \in BOOLEAN /\ c.timer \in BOOLEAN
    /\ c.reconnect_timer \in BOOLEAN /\ c.deferred \in BOOLEAN /\ c.flusher \in BOOLEAN

\* What is on the wire and in the write buffer is what is left of the
\* handshake and then the commands in flight; without an open socket there is
\* none of it.
Replies(c) ==
    /\ c.sock = "open" => c.wire \o c.write_buffer = Handshake(c) \o c.in_flight
    /\ c.sock # "open" => c.wire = <<>> /\ c.write_buffer = <<>> /\ c.in_flight = <<>>

\* Only the first command in flight may be one that must not be pipelined.
Serial(c) == \A i \in DOMAIN c.in_flight : c.in_flight[i] \notin Pipelined => i = 1

\* Who owns the next connection.  A socket, a queued close and an armed retry
\* exclude each other, and the status says which there is; a client that gave
\* up (failed) keeps no promise and no command; one that is disconnected
\* either has given up or has a retry armed; a timer needs a socket; retries
\* are exhausted only once the client gave up.
Dials(c) ==
    /\ c.sock # "none" => ~c.deferred /\ ~c.reconnect_timer
    /\ c.deferred => ~c.reconnect_timer
    /\ c.status \in {"Connecting", "Connected"} <=> (c.sock # "none" \/ c.deferred)
    /\ c.status = "Connected" => c.sock = "open"
    /\ c.failed => /\ c.status = "Disconnected" /\ ~c.reconnecting /\ ~c.promise
                   /\ c.queue = <<>> /\ c.in_flight = <<>>
    /\ c.status = "Disconnected" =>
          /\ c.reconnecting <=> c.reconnect_timer
          /\ c.failed <=> ~c.reconnect_timer
    /\ c.timer => c.sock # "none"
    /\ c.status = "NeverConnected" => /\ ~c.reconnect_timer /\ ~c.promise
                                      /\ c.queue = <<>> /\ c.in_flight = <<>>
    /\ c.retry_attempts > MaxRetries => c.status = "Disconnected" /\ ~c.reconnecting

\* The part of the invariant about the client alone.
Good(c) == Typed(c) /\ Dials(c) /\ Replies(c) /\ Serial(c)

\* What a call may do to the queues when it only gives commands up.
Fewer(c, d) ==
    /\ d.queue = c.queue \/ d.queue = <<>>
    /\ d.in_flight = c.in_flight \/ d.in_flight = <<>>

\* A client whose socket is gone, as on_close finds it.
Closing(c) ==
    /\ Typed(c) /\ c.sock = "none" /\ c.status = "Disconnected" /\ c.wire = <<>>
    /\ ~c.deferred /\ ~c.reconnect_timer
    /\ c.failed => ~c.reconnecting /\ c.queue = <<>> /\ c.in_flight = <<>>

\* Nothing in flight: nothing to wait for.
LEMMA EmptySerial ==
    ASSUME NEW c, c.in_flight = <<>> PROVE Serial(c)
BY DEF Serial

\* fail() without a socket leaves no command, and touches nothing of the
\* connection.
LEMMA MarkFailedEffect ==
    ASSUME NEW c, Typed(c), c.failed => ~c.reconnecting /\ c.queue = <<>> /\ c.in_flight = <<>>,
           NEW d, d = MarkFailed(c)
    PROVE  /\ Typed(d) /\ d.failed /\ ~d.reconnecting /\ d.queue = <<>> /\ d.in_flight = <<>>
           /\ d.status = c.status /\ d.sock = c.sock /\ d.wire = c.wire
           /\ d.write_buffer = c.write_buffer /\ d.deferred = c.deferred
           /\ d.reconnect_timer = c.reconnect_timer /\ d.retry_attempts = c.retry_attempts
<1>1. CASE c.failed
  BY <1>1 DEF MarkFailed
<1>2. CASE ~c.failed
  <2>1. d = [reject_all_pending_commands(c) EXCEPT !.failed = TRUE, !.reconnecting = FALSE]
    BY <1>2 DEF MarkFailed
  <2> QED BY <2>1 DEF Typed, Fields, reject_all_pending_commands
<1> QED BY <1>1, <1>2 DEF Typed

\* on_close gives up, whatever made it do so.
LEMMA GivesUp ==
    ASSUME NEW c, Closing(c), c.write_buffer = <<>>, NEW d, d = on_valkey_close(MarkFailed(c))
    PROVE  Good(d) /\ d.queue = <<>> /\ d.in_flight = <<>>
<1>1. PICK e : e = MarkFailed(c)
  OBVIOUS
<1>2. /\ Typed(e) /\ e.failed /\ ~e.reconnecting /\ e.queue = <<>> /\ e.in_flight = <<>>
      /\ e.status = c.status /\ e.sock = c.sock /\ e.wire = c.wire
      /\ e.write_buffer = c.write_buffer /\ e.deferred = c.deferred
      /\ e.reconnect_timer = c.reconnect_timer /\ e.retry_attempts = c.retry_attempts
  BY <1>1, MarkFailedEffect DEF Closing
<1>3. d = [e EXCEPT !.timer = FALSE, !.promise = FALSE]
  BY <1>1 DEF on_valkey_close
<1>4. /\ Typed(d) /\ d.failed /\ ~d.reconnecting /\ d.queue = <<>> /\ d.in_flight = <<>>
      /\ d.status = "Disconnected" /\ d.sock = "none" /\ d.wire = <<>>
      /\ d.write_buffer = <<>> /\ ~d.deferred /\ ~d.reconnect_timer /\ ~d.timer /\ ~d.promise
  <2>1. Typed(e) /\ DOMAIN e = Fields
    BY <1>2 DEF Typed
  <2>2. Typed(d)
    BY ONLY <1>3, <2>1 DEF Typed, Fields
  <2> QED BY ONLY <1>2, <1>3, <2>1, <2>2, Closing(c), c.write_buffer = <<>> DEF Fields, Closing
<1>5. Dials(d)
  BY <1>4 DEF Dials
<1> QED BY <1>4, <1>5, EmptySerial DEF Good, Replies

\* on_close, however it ends, leaves a good client and sends no command.
LEMMA OnClose ==
    ASSUME NEW c, Closing(c), c.retry_attempts > MaxRetries => c.failed,
           NEW d, d = on_close(c)
    PROVE  Good(d) /\ Fewer(c, d)
<1> DEFINE cleared == [c EXCEPT !.flusher = FALSE, !.write_buffer = <<>>]
           counted == [cleared EXCEPT !.retry_attempts = @ + 1]
<1>1. MaxRetries \in Nat /\ Typed(c)
  BY ValkeyAssumption DEF Closing
<1>2. /\ Typed(cleared) /\ cleared.write_buffer = <<>> /\ cleared.sock = c.sock
      /\ cleared.status = c.status /\ cleared.wire = c.wire /\ cleared.deferred = c.deferred
      /\ cleared.reconnect_timer = c.reconnect_timer /\ cleared.failed = c.failed
      /\ cleared.reconnecting = c.reconnecting /\ cleared.queue = c.queue
      /\ cleared.in_flight = c.in_flight /\ cleared.retry_attempts = c.retry_attempts
  BY <1>1 DEF Typed, Fields
<1>3. Closing(cleared)
  BY <1>2 DEF Closing
<1>4. CASE c.manually_closed \/ c.failed \/ ~options.auto_reconnect
  <2>1. d = on_valkey_close(MarkFailed(cleared))
    BY <1>4 DEF on_close
  <2> HIDE DEF cleared
  <2>2. Good(d) /\ d.queue = <<>> /\ d.in_flight = <<>>
    BY <2>1, <1>2, <1>3, GivesUp
  <2> QED BY <2>2 DEF Fewer
<1>5. CASE ~(c.manually_closed \/ c.failed \/ ~options.auto_reconnect)
  <2>1. c.retry_attempts <= MaxRetries /\ ~c.failed
    BY <1>1, <1>5 DEF Typed
  <2>2. /\ Typed(counted) /\ counted.write_buffer = <<>> /\ counted.sock = c.sock
        /\ counted.status = c.status /\ counted.wire = c.wire /\ counted.deferred = c.deferred
        /\ counted.reconnect_timer = c.reconnect_timer /\ counted.failed = c.failed
        /\ counted.reconnecting = c.reconnecting /\ counted.queue = c.queue
        /\ counted.in_flight = c.in_flight /\ counted.retry_attempts = c.retry_attempts + 1
    <3>1. counted = [c EXCEPT !.flusher = FALSE, !.write_buffer = <<>>,
                              !.retry_attempts = c.retry_attempts + 1]
      BY <1>1 DEF Typed, Fields
    <3> HIDE DEF counted
    <3>2. c.retry_attempts + 1 \in 0..(MaxRetries + 1)
      BY <1>1, <2>1 DEF Typed
    <3> QED BY <1>1, <3>1, <3>2 DEF Typed, Fields
  <2>3. CASE counted.retry_attempts > MaxRetries
    <3>1. d = on_valkey_close(MarkFailed(counted))
      BY <1>5, <2>3 DEF on_close
    <3> HIDE DEF counted, cleared
    <3>2. Closing(counted)
      BY <2>2 DEF Closing
    <3>3. Good(d) /\ d.queue = <<>> /\ d.in_flight = <<>>
      BY <3>1, <3>2, <2>2, GivesUp
    <3> QED BY <3>3 DEF Fewer
  <2>4. CASE ~(counted.retry_attempts > MaxRetries)
    <3>1. d = [counted EXCEPT !.reconnecting = TRUE, !.selecting = FALSE,
                              !.in_flight = <<>>, !.timer = FALSE, !.reconnect_timer = TRUE]
      BY <1>5, <2>4 DEF on_close
    <3> HIDE DEF counted, cleared
    <3>0. Closing(counted)
      BY <2>2 DEF Closing
    <3>2. /\ Typed(d) /\ ~d.failed /\ d.reconnecting /\ d.queue = c.queue /\ d.in_flight = <<>>
          /\ d.status = "Disconnected" /\ d.sock = "none" /\ d.wire = <<>>
          /\ d.write_buffer = <<>> /\ ~d.deferred /\ d.reconnect_timer /\ ~d.timer
          /\ d.retry_attempts = counted.retry_attempts
      <4>1. d = [counted EXCEPT !.reconnecting = TRUE, !.selecting = FALSE,
                                !.in_flight = <<>>, !.timer = FALSE, !.reconnect_timer = TRUE]
        BY <3>1
      <4>2. Typed(counted) /\ ~counted.failed
        BY <2>1, <2>2
      <4>3. Typed(d) /\ d.retry_attempts = counted.retry_attempts
        BY ONLY <4>1, <4>2 DEF Typed, Fields
      <4> QED BY ONLY <4>1, <4>2, <4>3, <3>0, <2>2 DEF Typed, Fields, Closing
    <3>3. Dials(d)
      BY <3>2, <2>2, <2>4, <1>1 DEF Dials, Typed
    <3> QED BY <3>2, <3>3, EmptySerial DEF Good, Replies, Fewer
  <2> QED BY <2>3, <2>4
<1> QED BY <1>4, <1>5

\* A client whose socket is about to close.
Holding(c) ==
    /\ Typed(c) /\ c.sock # "none" /\ ~c.deferred /\ ~c.reconnect_timer
    /\ c.failed => ~c.reconnecting /\ c.queue = <<>> /\ c.in_flight = <<>>
    /\ c.retry_attempts > MaxRetries => c.failed

\* A client with a socket has neither given up nor used up its retries.
LEMMA HoldingGood ==
    ASSUME NEW c, Typed(c), Dials(c), c.sock # "none"
    PROVE  Holding(c) /\ ~c.failed /\ c.retry_attempts <= MaxRetries
<1>1. c.status \in {"Connecting", "Connected"} /\ ~c.deferred /\ ~c.reconnect_timer
  BY DEF Dials
<1>2. ~c.failed /\ ~(c.retry_attempts > MaxRetries)
  BY <1>1 DEF Dials
<1> QED BY <1>1, <1>2, ValkeyAssumption DEF Holding, Typed

\* A socket that closes leaves a good client.
LEMMA SocketCloses ==
    ASSUME NEW c, Holding(c), NEW d, d = SocketClosed(c)
    PROVE  Good(d) /\ Fewer(c, d)
<1>1. PICK e : e = [c EXCEPT !.sock = "none", !.status = "Disconnected", !.wire = <<>>,
                             !.turn = "loop"]
  OBVIOUS
<1>2. Closing(e)
  <2>1. Typed(e) /\ e.sock = "none" /\ e.status = "Disconnected" /\ e.wire = <<>>
    BY <1>1 DEF Holding, Typed, Fields, Statuses
  <2> QED BY <2>1, <1>1 DEF Holding, Typed, Fields, Closing
<1>3. /\ e.retry_attempts > MaxRetries => e.failed
      /\ e.queue = c.queue /\ e.in_flight = c.in_flight
  BY <1>1 DEF Holding, Typed, Fields
<1>4. d = on_close(e)
  BY <1>1 DEF SocketClosed
<1> QED BY <1>2, <1>3, <1>4, OnClose DEF Fewer

\* fail() on a client with a socket leaves a good client with no command.
LEMMA Fails ==
    ASSUME NEW c, Typed(c), Dials(c), c.sock # "none", NEW d, d = fail(c)
    PROVE  Good(d) /\ d.queue = <<>> /\ d.in_flight = <<>>
<1>1. Holding(c) /\ ~c.failed
  BY HoldingGood
<1>2. PICK e : e = MarkFailed(c)
  OBVIOUS
<1>3. /\ Holding(e) /\ e.queue = <<>> /\ e.in_flight = <<>>
  <2>1. /\ Typed(e) /\ e.failed /\ ~e.reconnecting /\ e.queue = <<>> /\ e.in_flight = <<>>
        /\ e.sock = c.sock /\ e.deferred = c.deferred
        /\ e.reconnect_timer = c.reconnect_timer
    BY <1>1, <1>2, MarkFailedEffect
  <2> QED BY <2>1, <1>1 DEF Holding
<1>4. d = SocketClosed(e)
  BY <1>1, <1>2, <1>3 DEF fail, close, Holding
<1>5. Good(d) /\ Fewer(e, d)
  BY <1>3, <1>4, SocketCloses
<1> QED BY <1>3, <1>5 DEF Fewer

\* close() called by script leaves a good client, whatever its status.
LEMMA Closes ==
    ASSUME NEW c, Good(c), NEW d, d = close_call(c)
    PROVE  Good(d) /\ Fewer(c, d)
<1> DEFINE m == [c EXCEPT !.manually_closed = TRUE, !.flusher = FALSE]
<1>1. /\ Typed(m) /\ m.status = c.status /\ m.sock = c.sock /\ m.selecting = c.selecting
      /\ m.reconnecting = c.reconnecting /\ m.failed = c.failed
      /\ m.retry_attempts = c.retry_attempts /\ m.queue = c.queue /\ m.in_flight = c.in_flight
      /\ m.write_buffer = c.write_buffer /\ m.wire = c.wire /\ m.promise = c.promise
      /\ m.timer = c.timer /\ m.reconnect_timer = c.reconnect_timer /\ m.deferred = c.deferred
  BY DEF Good, Typed, Fields
<1> HIDE DEF m
<1>2. Good(m)
  BY <1>1 DEF Good, Dials, Replies, Handshake, Serial
<1>3. CASE c.status \in {"Connected", "Connecting"}
  <2>1. d = close(m)
    BY <1>3 DEF close_call, m
  <2>2. CASE m.sock = "none"
    BY <2>1, <2>2, <1>1, <1>2 DEF close, Fewer
  <2>3. CASE m.sock # "none"
    <3>1. d = SocketClosed(m)
      BY <2>1, <2>3 DEF close
    <3>2. Holding(m)
      BY <1>2, <2>3, HoldingGood DEF Good
    <3> QED BY <3>1, <3>2, <1>1, SocketCloses DEF Fewer
  <2> QED BY <2>2, <2>3
<1>4. CASE c.status = "Disconnected" /\ c.reconnecting
  <2>1. PICK e : e = [m EXCEPT !.reconnect_timer = FALSE]
    OBVIOUS
  <2>2. d = on_close(e)
    BY <1>4, <2>1 DEF close_call, m
  <2>3. /\ Typed(e) /\ ~e.reconnect_timer /\ e.status = m.status /\ e.sock = m.sock
        /\ e.failed = m.failed /\ e.deferred = m.deferred /\ e.wire = m.wire
        /\ e.queue = m.queue /\ e.in_flight = m.in_flight /\ e.retry_attempts = m.retry_attempts
    BY <2>1, <1>1 DEF Typed, Fields
  <2>4. m.status = "Disconnected" /\ m.reconnecting /\ m.reconnect_timer /\ ~m.failed
    BY <1>1, <1>2, <1>4 DEF Good, Dials
  <2>5. m.sock = "none" /\ ~m.deferred /\ ~(m.retry_attempts > MaxRetries)
    BY <1>2, <2>4 DEF Good, Dials
  <2>6. m.wire = <<>>
    BY <1>2, <2>5 DEF Good, Replies
  <2>7. Closing(e)
    BY <2>3, <2>4, <2>5, <2>6 DEF Closing
  <2> QED BY <2>2, <2>3, <2>5, <2>7, <1>1, OnClose DEF Fewer
<1>5. CASE /\ c.status \notin {"Connected", "Connecting"}
           /\ ~(c.status = "Disconnected" /\ c.reconnecting)
  <2>1. d = c
    BY <1>5 DEF close_call
  <2> QED BY <2>1 DEF Fewer
<1> QED BY <1>3, <1>4, <1>5

-----------------------------------------------------------------------------
(* Dialling *)

\* A client that has no connection and nothing under way.
Idle(c) ==
    /\ Typed(c) /\ c.sock = "none" /\ ~c.deferred /\ ~c.reconnect_timer /\ ~c.failed /\ ~c.timer
    /\ c.retry_attempts <= MaxRetries
    /\ c.wire = <<>> /\ c.write_buffer = <<>> /\ c.in_flight = <<>>

\* A dial from an idle client, whether it is under way or failed outright.
LEMMA DialEffect ==
    ASSUME NEW c, Idle(c), NEW ok \in BOOLEAN, NEW d, d = dial(c, ok)
    PROVE  /\ Good(d) /\ d.queue = c.queue /\ d.in_flight = <<>>
           /\ d.status = "Connecting" /\ ~d.failed
<1>1. /\ Typed(d) /\ d.status = "Connecting" /\ d.queue = c.queue
      /\ d.in_flight = c.in_flight /\ d.wire = c.wire /\ d.write_buffer = c.write_buffer
      /\ d.failed = c.failed /\ d.retry_attempts = c.retry_attempts
      /\ d.reconnect_timer = c.reconnect_timer
      /\ \/ d.sock = "dialing" /\ d.timer /\ d.deferred = c.deferred
         \/ d.sock = c.sock /\ d.timer = c.timer /\ d.deferred
  <2>1. CASE ok
    BY <2>1 DEF dial, Idle, Typed, Fields, Statuses
  <2>2. CASE ~ok
    BY <2>2 DEF dial, Idle, Typed, Fields, Statuses
  <2> QED BY <2>1, <2>2
<1>2. /\ d.in_flight = <<>> /\ d.wire = <<>> /\ d.write_buffer = <<>> /\ ~d.failed
      /\ ~d.reconnect_timer /\ d.sock # "open" /\ ~(d.retry_attempts > MaxRetries)
      /\ \/ d.sock = "dialing" /\ ~d.deferred
         \/ d.sock = "none" /\ ~d.timer /\ d.deferred
  BY <1>1, ValkeyAssumption DEF Idle, Typed
<1>3. Dials(d)
  BY <1>1, <1>2 DEF Dials
<1> QED BY <1>1, <1>2, <1>3, EmptySerial DEF Good, Replies

\* The retry dials: the disconnected client has nothing else under way.
LEMMA ReconnectEffect ==
    ASSUME NEW c, NEW ok \in BOOLEAN, Typed(c), c.status = "Disconnected", c.reconnecting,
           c.sock = "none", ~c.deferred, ~c.failed, ~c.timer, c.retry_attempts <= MaxRetries,
           c.wire = <<>>, c.write_buffer = <<>>, c.in_flight = <<>>,
           NEW d, d = reconnect(c, ok)
    PROVE  Good(d) /\ d.queue = c.queue /\ d.in_flight = <<>>
<1>1. PICK e : e = [c EXCEPT !.reconnect_timer = FALSE]
  OBVIOUS
<1>2. Idle(e) /\ e.queue = c.queue /\ e.reconnecting /\ e.status = "Disconnected"
  <2>1. Typed(e) /\ ~e.reconnect_timer
    BY <1>1 DEF Typed, Fields
  <2> QED BY <2>1, <1>1 DEF Idle, Typed, Fields
<1>3. d = dial(e, ok)
  BY <1>1, <1>2 DEF reconnect, Idle
<1> QED BY <1>2, <1>3, DialEffect

\* connect() called by script keeps every command, whatever the status.
LEMMA Connects ==
    ASSUME NEW c, Good(c), NEW ok \in BOOLEAN, NEW d, d = do_connect(c, ok)
    PROVE  Good(d) /\ d.queue = c.queue /\ d.in_flight = c.in_flight
<1> DEFINE m == [c EXCEPT !.promise = TRUE, !.manually_closed = FALSE, !.failed = FALSE]
<1>1. /\ Typed(m) /\ m.status = c.status /\ m.sock = c.sock /\ m.selecting = c.selecting
      /\ m.reconnecting = c.reconnecting /\ ~m.failed /\ m.promise
      /\ m.retry_attempts = c.retry_attempts /\ m.queue = c.queue /\ m.in_flight = c.in_flight
      /\ m.write_buffer = c.write_buffer /\ m.wire = c.wire
      /\ m.timer = c.timer /\ m.reconnect_timer = c.reconnect_timer /\ m.deferred = c.deferred
  BY DEF Good, Typed, Fields
<1>2. CASE c.status = "Connected" \/ c.promise
  BY <1>2 DEF do_connect
<1>3. CASE ~(c.status = "Connected" \/ c.promise) /\ c.status = "NeverConnected"
  <2>1. d = dial(m, ok)
    BY <1>3 DEF do_connect
  <2> HIDE DEF m
  <2>2. c.sock = "none" /\ ~c.deferred /\ ~c.reconnect_timer /\ ~(c.retry_attempts > MaxRetries)
    BY <1>3 DEF Good, Dials
  <2>3. c.wire = <<>> /\ c.write_buffer = <<>> /\ c.in_flight = <<>> /\ ~c.timer
    BY <2>2 DEF Good, Replies, Dials
  <2>4. Idle(m)
    BY <1>1, <2>2, <2>3, ValkeyAssumption DEF Idle, Typed
  <2> QED BY <1>1, <2>1, <2>3, <2>4, DialEffect
<1>4. CASE ~(c.status = "Connected" \/ c.promise) /\ c.status = "Disconnected"
  <2>1. PICK e : e = [m EXCEPT !.reconnecting = TRUE, !.retry_attempts = 0]
    OBVIOUS
  <2>2. d = reconnect(e, ok)
    BY <1>4, <2>1 DEF do_connect
  <2> HIDE DEF m
  <2>3. c.sock = "none" /\ ~c.deferred /\ ~c.timer
    BY <1>4 DEF Good, Dials
  <2>4. c.wire = <<>> /\ c.write_buffer = <<>> /\ c.in_flight = <<>>
    BY <2>3 DEF Good, Replies
  <2>5. /\ Typed(e) /\ e.status = m.status /\ e.reconnecting /\ e.sock = m.sock
        /\ e.deferred = m.deferred /\ e.failed = m.failed /\ e.timer = m.timer
        /\ e.retry_attempts = 0 /\ e.wire = m.wire /\ e.write_buffer = m.write_buffer
        /\ e.in_flight = m.in_flight /\ e.queue = m.queue
    <3>1. 0 \in 0..(MaxRetries + 1)
      BY ValkeyAssumption
    <3> QED BY <1>1, <2>1, <3>1 DEF Typed, Fields
  <2>6. e.retry_attempts <= MaxRetries
    BY <2>5, ValkeyAssumption
  <2> QED BY <1>1, <1>4, <2>2, <2>3, <2>4, <2>5, <2>6, ReconnectEffect
<1>5. CASE ~(c.status = "Connected" \/ c.promise) /\ c.status = "Connecting"
  <2>1. d = m
    BY <1>5 DEF do_connect
  <2> HIDE DEF m
  <2> QED BY <1>1, <1>5, <2>1 DEF Good, Dials, Replies, Handshake, Serial
<1> QED BY <1>2, <1>3, <1>4, <1>5 DEF Good, Typed, Statuses

-----------------------------------------------------------------------------
(* Commands, and the sequences they are kept in *)

\* A sequence cut in two is its two parts.
LEMMA CutSeq ==
    ASSUME NEW S, NEW s \in Seq(S), NEW k \in 0..Len(s)
    PROVE  /\ SubSeq(s, 1, k) \in Seq(S) /\ Len(SubSeq(s, 1, k)) = k
           /\ SubSeq(s, k + 1, Len(s)) \in Seq(S)
           /\ SubSeq(s, 1, k) \o SubSeq(s, k + 1, Len(s)) = s
           /\ \A i \in 1..k : SubSeq(s, 1, k)[i] = s[i]
<1>1. Len(s) \in Nat /\ k \in Nat /\ k <= Len(s) /\ \A i \in 1..Len(s) : s[i] \in S
  OBVIOUS
<1>2. /\ SubSeq(s, 1, k) \in Seq(S) /\ Len(SubSeq(s, 1, k)) = k
      /\ \A i \in 1..k : SubSeq(s, 1, k)[i] = s[i]
  <2>1. \A i \in 1..k : s[i] \in S
    BY <1>1
  <2>2. /\ SubSeq(s, 1, k) \in Seq(S)
        /\ Len(SubSeq(s, 1, k)) = IF 1 <= k THEN k - 1 + 1 ELSE 0
        /\ \A i \in 1..(k - 1 + 1) : SubSeq(s, 1, k)[i] = s[1 + i - 1]
    BY <1>1, <2>1, SubSeqProperties
  <2> QED BY <1>1, <2>2
<1>3. SubSeq(s, k + 1, Len(s)) \in Seq(S)
  <2>1. \A i \in (k + 1)..Len(s) : s[i] \in S
    BY <1>1
  <2> QED BY <1>1, <2>1, SubSeqProperties
<1>4. SubSeq(s, 1, k) \o SubSeq(s, k + 1, Len(s)) = SubSeq(s, 1, Len(s))
  <2>1. 1 \in 1..(Len(s) + 1) /\ k \in (1 - 1)..Len(s) /\ Len(s) \in k..Len(s)
    BY <1>1
  <2> QED BY <2>1, ConcatAdjacentSubSeq
<1>5. SubSeq(s, 1, Len(s)) = s
  BY SubSeqFull
<1> QED BY <1>2, <1>3, <1>4, <1>5

\* A set of numbers has a least one.
LEMMA LeastNumber ==
    ASSUME NEW U \in SUBSET Nat, U # {}
    PROVE  \E i \in U : \A j \in U : i <= j
<1> DEFINE R == {p \in Nat \X Nat : p[1] < p[2]}
<1>1. IsWellFoundedOn(R, Nat)
  BY NatLessThanWellFounded DEF OpToRel
<1> HIDE DEF R
<1>2. PICK i \in U : \A j \in U : ~(<<j, i>> \in R)
  BY <1>1, WFMin
<1>3. \A j \in U : ~(j < i)
  BY <1>2 DEF R
<1> QED BY <1>3

\* Commands are requests, and sequences of them sequences of requests.
LEMMA RequestSeq ==
    /\ Commands \subseteq Requests
    /\ \A s \in Seq(Commands) : s \in Seq(Requests)
<1>1. Commands \subseteq Requests
  BY DEF Requests
<1> QED BY <1>1, SeqMonotonic

\* What is left of the handshake is a sequence of requests.
LEMMA HandshakeType ==
    ASSUME NEW c PROVE Handshake(c) \in Seq(Requests)
<1>1. "HELLO" \in Requests /\ "SELECT" \in Requests
  BY DEF Requests
<1> QED BY <1>1 DEF Handshake

\* Joining sequences of requests is associative.
LEMMA Regroup ==
    \A r, s, t \in Seq(Requests) : (r \o s) \o t = r \o (s \o t)
<1> SUFFICES ASSUME NEW r \in Seq(Requests), NEW s \in Seq(Requests), NEW t \in Seq(Requests)
             PROVE  (r \o s) \o t = r \o (s \o t)
  OBVIOUS
<1> QED BY ONLY ConcatAssociative, SMTT(30)

\* The commands of a client that are not settled: in flight, then queued.
Pend(c) == c.in_flight \o c.queue

\* The kernel takes a part of the write buffer.
LEMMA FlushEffect ==
    ASSUME NEW c, Good(c), NEW d \in Flushes(c)
    PROVE  Good(d) /\ d.queue = c.queue /\ d.in_flight = c.in_flight
<1>1. PICK k \in 0..Len(c.write_buffer) :
         d = [c EXCEPT !.wire = c.wire \o SubSeq(c.write_buffer, 1, k),
                       !.write_buffer = SubSeq(c.write_buffer, k + 1, Len(c.write_buffer))]
  <2>1. Len(c.write_buffer) \in Nat /\ DOMAIN c = Fields
    BY DEF Good, Typed
  <2>2. PICK k \in IF c.sock = "open" THEN 0..Len(c.write_buffer) ELSE {0} :
           d = [c EXCEPT !.wire = c.wire \o SubSeq(c.write_buffer, 1, k),
                         !.write_buffer = SubSeq(c.write_buffer, k + 1, Len(c.write_buffer))]
    BY <2>1 DEF Flushes, Fields
  <2>3. k \in 0..Len(c.write_buffer)
    BY <2>1
  <2> QED BY <2>2, <2>3
<1>2. PICK w \in Seq(Requests), r \in Seq(Requests) : w = c.write_buffer /\ r = c.wire
  BY DEF Good, Typed
<1>3. PICK s \in Seq(Requests), t \in Seq(Requests) :
         s = SubSeq(w, 1, k) /\ t = SubSeq(w, k + 1, Len(w)) /\ s \o t = w
  <2>1. k \in 0..Len(w)
    BY <1>2
  <2>2. /\ SubSeq(w, 1, k) \in Seq(Requests) /\ SubSeq(w, k + 1, Len(w)) \in Seq(Requests)
        /\ SubSeq(w, 1, k) \o SubSeq(w, k + 1, Len(w)) = w
    BY ONLY w \in Seq(Requests), <2>1, CutSeq, Zenon
  <2> QED BY ONLY <2>2, Zenon
<1>4. (r \o s) \o t = r \o w /\ r \o s \in Seq(Requests)
  <2>1. (r \o s) \o t = r \o (s \o t)
    BY ONLY r \in Seq(Requests), s \in Seq(Requests), t \in Seq(Requests), Regroup, Zenon
  <2>2. r \o s \in Seq(Requests)
    BY ONLY r \in Seq(Requests), s \in Seq(Requests), ConcatProperties, Zenon
  <2> QED BY ONLY <1>3, <2>1, <2>2, Zenon
<1>5. d = [c EXCEPT !.wire = r \o s, !.write_buffer = t]
  BY <1>1, <1>2, <1>3
<1>6. /\ Typed(d) /\ d.wire = r \o s /\ d.write_buffer = t
      /\ d.status = c.status /\ d.sock = c.sock /\ d.selecting = c.selecting
      /\ d.reconnecting = c.reconnecting /\ d.failed = c.failed
      /\ d.retry_attempts = c.retry_attempts /\ d.queue = c.queue /\ d.in_flight = c.in_flight
      /\ d.promise = c.promise /\ d.timer = c.timer
      /\ d.reconnect_timer = c.reconnect_timer /\ d.deferred = c.deferred
  BY <1>3, <1>4, <1>5 DEF Good, Typed, Fields
<1>7. Dials(d) /\ Serial(d)
  BY <1>6 DEF Good, Dials, Serial
<1>8. Replies(d)
  <2>1. d.wire \o d.write_buffer = c.wire \o c.write_buffer
    BY <1>2, <1>4, <1>6
  <2>2. CASE d.sock = "open"
    BY <2>1, <2>2, <1>6 DEF Good, Replies, Handshake
  <2>3. CASE d.sock # "open"
    <3>1. d.in_flight = <<>> /\ c.wire = <<>> /\ c.write_buffer = <<>>
      BY <2>3, <1>6 DEF Good, Replies
    <3>2. d.wire \o d.write_buffer = <<>>
      BY <2>1, <3>1, <1>2, ConcatEmptySeq
    <3>3. d.wire = <<>> /\ d.write_buffer = <<>>
      BY <3>2, <1>6, ConcatEqualIffEmpty DEF Typed
    <3> QED BY <2>3, <3>1, <3>3 DEF Replies
  <2> QED BY <2>2, <2>3
<1> QED BY <1>6, <1>7, <1>8 DEF Good

\* The next n commands of the queue may be written now.
Startable(c, n) ==
    (\A i \in 1..n : c.queue[i] \in Pipelined) \/ (n = 1 /\ c.in_flight = <<>>)

\* Writing commands that may be written keeps the replies, the order and the
\* rule on serial commands.
LEMMA StartEffect ==
    ASSUME NEW c, Good(c), c.status = "Connected", NEW n \in 0..Len(c.queue),
           Startable(c, n), NEW d, d = Start(c, n)
    PROVE  /\ Good(d) /\ Pend(d) = Pend(c) /\ d.status = "Connected"
           /\ d.flusher = c.flusher
<1>1. PICK q \in Seq(Commands), f \in Seq(Commands) : q = c.queue /\ f = c.in_flight
  BY DEF Good, Typed
<1>0. PICK w \in Seq(Requests), r \in Seq(Requests) : w = c.write_buffer /\ r = c.wire
  BY DEF Good, Typed
<1>2. PICK s \in Seq(Commands), t \in Seq(Commands) :
         /\ s = SubSeq(q, 1, n) /\ t = SubSeq(q, n + 1, Len(q)) /\ s \o t = q
         /\ Len(s) = n /\ \A i \in 1..n : s[i] = q[i]
  <2>1. n \in 0..Len(q)
    BY <1>1
  <2>2. /\ SubSeq(q, 1, n) \in Seq(Commands) /\ SubSeq(q, n + 1, Len(q)) \in Seq(Commands)
        /\ SubSeq(q, 1, n) \o SubSeq(q, n + 1, Len(q)) = q
        /\ Len(SubSeq(q, 1, n)) = n /\ \A i \in 1..n : SubSeq(q, 1, n)[i] = q[i]
    BY ONLY q \in Seq(Commands), <2>1, CutSeq, Zenon
  <2> QED BY ONLY <2>2, Zenon
<1>3. (f \o s) \o t = f \o q /\ f \o s \in Seq(Commands)
  <2>1. (f \o s) \o t = f \o (s \o t)
    <3>1. f \in Seq(Requests) /\ s \in Seq(Requests) /\ t \in Seq(Requests)
      BY RequestSeq
    <3> QED BY ONLY <3>1, Regroup, ZenonT(60)
  <2>2. f \o s \in Seq(Commands)
    BY ONLY f \in Seq(Commands), s \in Seq(Commands), ConcatProperties, Zenon
  <2> QED BY ONLY <1>2, <2>1, <2>2, Zenon
<1>4. w \o s \in Seq(Requests) /\ s \in Seq(Requests) /\ f \in Seq(Requests)
  <2>1. s \in Seq(Requests) /\ f \in Seq(Requests)
    BY RequestSeq
  <2> QED BY ONLY <2>1, w \in Seq(Requests), ConcatProperties
<1>5. d = [c EXCEPT !.in_flight = f \o s, !.write_buffer = w \o s, !.queue = t]
  BY <1>0, <1>1, <1>2 DEF Start, Good, Typed, Fields
<1>6. /\ Typed(d) /\ d.in_flight = f \o s /\ d.write_buffer = w \o s
      /\ d.queue = t /\ d.wire = c.wire
      /\ d.status = c.status /\ d.sock = c.sock /\ d.selecting = c.selecting
      /\ d.reconnecting = c.reconnecting /\ d.failed = c.failed
      /\ d.retry_attempts = c.retry_attempts /\ d.flusher = c.flusher
      /\ d.promise = c.promise /\ d.timer = c.timer
      /\ d.reconnect_timer = c.reconnect_timer /\ d.deferred = c.deferred
  BY <1>2, <1>3, <1>4, <1>5 DEF Good, Typed, Fields
<1>7. Pend(d) = Pend(c)
  BY <1>1, <1>3, <1>6 DEF Pend
<1>8. c.sock = "open" /\ ~c.failed
  BY DEF Good, Dials
<1>9. Dials(d)
  BY <1>6, <1>8 DEF Good, Dials
<1>10. Replies(d)
  <2>1. /\ d.wire \o d.write_buffer = (c.wire \o c.write_buffer) \o s
        /\ Handshake(c) \o d.in_flight = (Handshake(c) \o c.in_flight) \o s
    <3>1. PICK h \in Seq(Requests) : h = Handshake(c)
      BY HandshakeType
    <3>2. (r \o w) \o s = r \o (w \o s)
      BY ONLY <1>4, r \in Seq(Requests), w \in Seq(Requests), Regroup, ZenonT(60)
    <3>4. (h \o f) \o s = h \o (f \o s)
      BY ONLY <1>4, h \in Seq(Requests), Regroup, ZenonT(60)
    <3> QED BY <3>1, <3>2, <3>4, <1>0, <1>1, <1>6, Zenon
  <2>2. c.wire \o c.write_buffer = Handshake(c) \o c.in_flight
    BY <1>8 DEF Good, Replies
  <2>3. Handshake(d) = Handshake(c)
    BY <1>6 DEF Handshake
  <2> QED BY <2>1, <2>2, <2>3, <1>6, <1>8 DEF Replies
<1>11. Serial(d)
  <2>1. /\ Len(c.in_flight) \in Nat /\ n \in Nat
        /\ DOMAIN d.in_flight = 1..(Len(c.in_flight) + n)
        /\ \A i \in 1..(Len(c.in_flight) + n) :
              d.in_flight[i] = IF i <= Len(c.in_flight) THEN c.in_flight[i]
                               ELSE s[i - Len(c.in_flight)]
    <3>1. /\ f \o s \in Seq(Commands) /\ Len(f \o s) = Len(f) + Len(s)
          /\ \A i \in 1..(Len(f) + Len(s)) :
                (f \o s)[i] = IF i <= Len(f) THEN f[i] ELSE s[i - Len(f)]
      BY ONLY f \in Seq(Commands), s \in Seq(Commands), ConcatProperties
    <3>2. Len(f) \in Nat /\ Len(s) \in Nat /\ DOMAIN (f \o s) = 1..Len(f \o s)
      BY ONLY f \in Seq(Commands), s \in Seq(Commands), <3>1, LenProperties
    <3>3. n \in Nat /\ f = c.in_flight /\ d.in_flight = f \o s /\ Len(s) = n
      BY <1>1, <1>2, <1>6
    <3> QED BY ONLY <3>1, <3>2, <3>3
  <2> SUFFICES ASSUME NEW i \in 1..(Len(c.in_flight) + n), d.in_flight[i] \notin Pipelined
               PROVE  i = 1
    BY <2>1 DEF Serial
  <2>2. CASE i <= Len(c.in_flight)
    <3>1. DOMAIN c.in_flight = 1..Len(c.in_flight)
      BY <1>1
    <3>2. i \in DOMAIN c.in_flight /\ c.in_flight[i] \notin Pipelined
      BY <2>1, <2>2, <3>1
    <3> QED BY <3>2 DEF Good, Serial
  <2>3. CASE i > Len(c.in_flight)
    <3>1. i - Len(c.in_flight) \in 1..n /\ d.in_flight[i] = q[i - Len(c.in_flight)]
      <4>1. i - Len(c.in_flight) \in 1..n
        BY <2>1, <2>3
      <4>2. d.in_flight[i] = s[i - Len(c.in_flight)]
        BY ONLY <2>1, <2>3, i \in 1..(Len(c.in_flight) + n)
      <4> QED BY ONLY <4>1, <4>2, <1>2
    <3>2. n = 1 /\ Len(c.in_flight) = 0
      BY <3>1, <1>1 DEF Startable
    <3> QED BY <3>2, <2>1
  <2> QED BY <2>1, <2>2, <2>3
<1> QED BY <1>6, <1>7, <1>9, <1>10, <1>11 DEF Good

\* The flusher and the turn are of no consequence to the rest.
LEMMA Aside ==
    ASSUME NEW c, Good(c), NEW d, DOMAIN d = Fields,
           \A f \in Fields \ {"flusher", "turn"} : d[f] = c[f],
           d.flusher \in BOOLEAN, d.turn \in {"loop", "reply"}
    PROVE  Good(d) /\ d.queue = c.queue /\ d.in_flight = c.in_flight
<1>1. /\ Typed(d) /\ d.in_flight = c.in_flight /\ d.write_buffer = c.write_buffer
      /\ d.queue = c.queue /\ d.wire = c.wire
      /\ d.status = c.status /\ d.sock = c.sock /\ d.selecting = c.selecting
      /\ d.reconnecting = c.reconnecting /\ d.failed = c.failed
      /\ d.retry_attempts = c.retry_attempts
      /\ d.promise = c.promise /\ d.timer = c.timer
      /\ d.reconnect_timer = c.reconnect_timer /\ d.deferred = c.deferred
  BY DEF Good, Typed, Fields
<1> QED BY <1>1 DEF Good, Dials, Replies, Handshake, Serial

\* Registering or dropping the auto flusher changes nothing else.
LEMMA FlusherAside ==
    ASSUME NEW c, Good(c), NEW b \in BOOLEAN
    PROVE  /\ Good([c EXCEPT !.flusher = b])
           /\ [c EXCEPT !.flusher = b].queue = c.queue
           /\ [c EXCEPT !.flusher = b].in_flight = c.in_flight
<1>1. PICK d : d = [c EXCEPT !.flusher = b]
  OBVIOUS
<1>2. /\ DOMAIN d = Fields /\ \A f \in Fields \ {"flusher", "turn"} : d[f] = c[f]
      /\ d.flusher \in BOOLEAN /\ d.turn \in {"loop", "reply"}
  BY <1>1 DEF Good, Typed, Fields
<1> QED BY <1>1, <1>2, Aside

\* So for the turn of on_data().
LEMMA TurnAside ==
    ASSUME NEW c, Good(c), NEW t \in {"loop", "reply"}
    PROVE  /\ Good([c EXCEPT !.turn = t])
           /\ [c EXCEPT !.turn = t].queue = c.queue
           /\ [c EXCEPT !.turn = t].in_flight = c.in_flight
<1>1. PICK d : d = [c EXCEPT !.turn = t]
  OBVIOUS
<1>2. /\ DOMAIN d = Fields /\ \A f \in Fields \ {"flusher", "turn"} : d[f] = c[f]
      /\ d.flusher \in BOOLEAN /\ d.turn \in {"loop", "reply"}
  BY <1>1 DEF Good, Typed, Fields
<1> QED BY <1>1, <1>2, Aside

\* send_next_command settles nothing and reorders nothing.
LEMMA StartNextEffect ==
    ASSUME NEW c, Good(c), NEW d, d = StartNext(c)
    PROVE  Good(d) /\ Pend(d) = Pend(c)
<1>1. CASE c.write_buffer # <<>> \/ ~connection_ready(c) \/ c.queue = <<>>
  BY <1>1 DEF StartNext
<1>2. CASE /\ ~(c.write_buffer # <<>> \/ ~connection_ready(c) \/ c.queue = <<>>)
           /\ HeadPipelined(c)
  <2>1. d = [c EXCEPT !.flusher = TRUE]
    BY <1>2 DEF StartNext
  <2> QED BY <2>1, FlusherAside DEF Pend
<1>3. CASE /\ ~(c.write_buffer # <<>> \/ ~connection_ready(c) \/ c.queue = <<>>)
           /\ ~HeadPipelined(c) /\ c.in_flight # <<>>
  BY <1>3 DEF StartNext
<1>4. CASE /\ ~(c.write_buffer # <<>> \/ ~connection_ready(c) \/ c.queue = <<>>)
           /\ ~HeadPipelined(c) /\ c.in_flight = <<>>
  <2>1. PICK e : e = Start(c, 1)
    OBVIOUS
  <2>2. PICK b \in BOOLEAN : b = (e.flusher \/ HeadPipelined(e))
    OBVIOUS
  <2>3. d = [e EXCEPT !.flusher = b]
    BY <1>4, <2>1, <2>2 DEF StartNext
  <2>4. 1 \in 0..Len(c.queue) /\ c.status = "Connected"
    BY <1>4 DEF connection_ready, Good, Typed
  <2>5. Good(e) /\ Pend(e) = Pend(c)
    <3>2. PICK n \in 0..Len(c.queue) : n = 1
      BY <2>4
    <3>3. Startable(c, n)
      BY <1>4, <3>2 DEF Startable
    <3>4. e = Start(c, n) /\ c.status = "Connected"
      BY <2>1, <2>4, <3>2
    <3> QED BY ONLY Good(c), n \in 0..Len(c.queue), <3>3, <3>4, StartEffect
  <2>6. Good(d) /\ d.queue = e.queue /\ d.in_flight = e.in_flight
    BY ONLY <2>3, <2>5, FlusherAside, b \in BOOLEAN
  <2> QED BY ONLY <2>5, <2>6 DEF Pend
<1> QED BY <1>1, <1>2, <1>3, <1>4

\* on_auto_flush writes only commands that can be pipelined, and no more than
\* there are.
LEMMA PipelineableCount ==
    ASSUME NEW c, Typed(c)
    PROVE  /\ pipelineable_count(c) \in 0..Len(c.queue)
           /\ \A i \in 1..pipelineable_count(c) : c.queue[i] \in Pipelined
<1> DEFINE blocked == {i \in DOMAIN c.queue : c.queue[i] \notin Pipelined}
<1>1. DOMAIN c.queue = 1..Len(c.queue) /\ Len(c.queue) \in Nat
  BY DEF Typed
<1>2. CASE blocked = {}
  BY <1>1, <1>2 DEF pipelineable_count
<1>3. CASE blocked # {}
  <2>1. \E i \in blocked : \A j \in blocked : i <= j
    <3>1. blocked \in SUBSET Nat
      BY <1>1
    <3> HIDE DEF blocked
    <3> QED BY <1>3, <3>1, LeastNumber, Zenon
  <2>2. PICK i \in blocked : /\ \A j \in blocked : i <= j
                             /\ pipelineable_count(c) = i - 1
    BY <1>3, <2>1 DEF pipelineable_count
  <2>3. i \in 1..Len(c.queue)
    BY <1>1
  <2>4. \A k \in 1..(i - 1) : k \notin blocked /\ k \in DOMAIN c.queue
    BY <1>1, <2>2, <2>3
  <2> QED BY <1>1, <2>2, <2>3, <2>4
<1> QED BY <1>2, <1>3

\* An element added to a sequence is added to what the sequence ends.
LEMMA JoinOne ==
    \A r, s \in Seq(Requests), x \in Requests :
        /\ Append(s, x) \in Seq(Requests)
        /\ r \o Append(s, x) = Append(r \o s, x)
<1> SUFFICES ASSUME NEW r \in Seq(Requests), NEW s \in Seq(Requests), NEW x \in Requests
             PROVE  /\ Append(s, x) \in Seq(Requests)
                    /\ r \o Append(s, x) = Append(r \o s, x)
  OBVIOUS
<1>1. /\ Append(s, x) = s \o <<x>> /\ Append(s, x) \in Seq(Requests)
      /\ <<x>> \in Seq(Requests) /\ r \o s \in Seq(Requests)
  BY ConcatProperties
<1>2. Append(r \o s, x) = (r \o s) \o <<x>>
  BY ONLY x \in Requests, <1>1, AppendIsConcat
<1>3. (r \o s) \o <<x>> = r \o (s \o <<x>>)
  BY ONLY r \in Seq(Requests), s \in Seq(Requests), <1>1, Regroup, Zenon
<1> QED BY <1>1, <1>2, <1>3, Zenon

\* The first of two joined sequences gives their head.
LEMMA TailJoin ==
    \A r, s \in Seq(Requests) : r # <<>> =>
        /\ r \o s # <<>> /\ Head(r \o s) = Head(r) /\ Tail(r \o s) = Tail(r) \o s
        /\ Tail(r) \in Seq(Requests) /\ Head(r) \in Requests
<1> SUFFICES ASSUME NEW r \in Seq(Requests), NEW s \in Seq(Requests), r # <<>>
             PROVE  /\ r \o s # <<>> /\ Head(r \o s) = Head(r) /\ Tail(r \o s) = Tail(r) \o s
                    /\ Tail(r) \in Seq(Requests) /\ Head(r) \in Requests
  OBVIOUS
<1>1. /\ Head(r) \in Requests /\ Tail(r) \in Seq(Requests) /\ Len(r) \in Nat /\ Len(r) >= 1
      /\ Len(Tail(r)) = Len(r) - 1 /\ Head(r) = r[1] /\ Len(s) \in Nat
      /\ \A i \in 1..(Len(r) - 1) : Tail(r)[i] = r[i + 1]
  OBVIOUS
<1>2. PICK j \in Seq(Requests) : /\ j = r \o s /\ Len(j) = Len(r) + Len(s)
         /\ \A i \in 1..(Len(r) + Len(s)) : j[i] = IF i <= Len(r) THEN r[i] ELSE s[i - Len(r)]
  <2>1. /\ r \o s \in Seq(Requests) /\ Len(r \o s) = Len(r) + Len(s)
        /\ \A i \in 1..(Len(r) + Len(s)) :
              (r \o s)[i] = IF i <= Len(r) THEN r[i] ELSE s[i - Len(r)]
    BY ConcatProperties
  <2> QED BY ONLY <2>1, Zenon
<1>3. PICK k \in Seq(Requests) : /\ k = Tail(r) \o s /\ Len(k) = Len(r) - 1 + Len(s)
         /\ \A i \in 1..(Len(r) - 1 + Len(s)) :
               k[i] = IF i <= Len(r) - 1 THEN Tail(r)[i] ELSE s[i - (Len(r) - 1)]
  <2>1. PICK t \in Seq(Requests) : t = Tail(r) /\ Len(t) = Len(r) - 1
    BY <1>1
  <2>2. /\ t \o s \in Seq(Requests) /\ Len(t \o s) = Len(t) + Len(s)
        /\ \A i \in 1..(Len(t) + Len(s)) :
              (t \o s)[i] = IF i <= Len(t) THEN t[i] ELSE s[i - Len(t)]
    BY ConcatProperties
  <2> QED BY ONLY <2>1, <2>2, ZenonT(60)
<1>4. /\ j # <<>> /\ Head(j) = j[1] /\ Tail(j) \in Seq(Requests)
      /\ Len(Tail(j)) = Len(r) - 1 + Len(s)
      /\ \A i \in 1..(Len(r) - 1 + Len(s)) : Tail(j)[i] = j[i + 1]
  BY ONLY <1>1, <1>2, j \in Seq(Requests)
<1>5. Head(j) = Head(r)
  BY <1>1, <1>2, <1>4
<1>6. \A i \in 1..(Len(r) - 1 + Len(s)) : Tail(j)[i] = k[i]
  <2> SUFFICES ASSUME NEW i \in 1..(Len(r) - 1 + Len(s)) PROVE Tail(j)[i] = k[i]
    OBVIOUS
  <2>1. CASE i <= Len(r) - 1
    BY <2>1, <1>1, <1>2, <1>3, <1>4
  <2>2. CASE i > Len(r) - 1
    <3>1. i + 1 \in 1..(Len(r) + Len(s)) /\ ~(i + 1 <= Len(r)) /\ ~(i <= Len(r) - 1)
      BY <2>2, <1>1
    <3>2. Tail(j)[i] = s[i + 1 - Len(r)]
      BY <3>1, <1>2, <1>4
    <3>3. k[i] = s[i - (Len(r) - 1)] /\ i - (Len(r) - 1) = i + 1 - Len(r)
      BY <3>1, <1>1, <1>3
    <3> QED BY <3>2, <3>3
  <2>3. i <= Len(r) - 1 \/ i > Len(r) - 1
    BY <1>1
  <2> QED BY ONLY <2>1, <2>2, <2>3
<1>7. Tail(j) = k
  BY ONLY <1>3, <1>4, <1>6, k \in Seq(Requests), SeqEqual
<1> QED BY <1>1, <1>2, <1>3, <1>4, <1>5, <1>7

\* enqueue puts the command behind all that are pending, in the queue or
\* straight into the write buffer.
LEMMA EnqueueEffect ==
    ASSUME NEW c, Good(c), ~c.failed, c.status # "NeverConnected", NEW x \in Commands,
           NEW d, d = enqueue(c, x)
    PROVE  /\ Good(d) /\ Pend(d) = Append(Pend(c), x)
<1>0. x \in Requests
  BY RequestSeq
<1>1. PICK q \in Seq(Commands), f \in Seq(Commands) : q = c.queue /\ f = c.in_flight
  BY DEF Good, Typed
<1>2. f \in Seq(Requests) /\ q \in Seq(Requests) /\ Typed(c)
  BY RequestSeq DEF Good
<1> DEFINE can == x \in Pipelined /\ options.auto_pipelining
<1>3. CASE can \/ c.queue # <<>> \/ c.in_flight # <<>> \/ ~connection_ready(c)
  <2>1. PICK b \in BOOLEAN : b = (c.flusher \/ (c.status = "Connected" /\ can))
    OBVIOUS
  <2>2. d = [c EXCEPT !.queue = Append(q, x), !.flusher = b]
    BY <1>1, <1>2, <1>3, <2>1 DEF enqueue, Typed, Fields
  <2>3. Append(q, x) \in Seq(Commands)
    OBVIOUS
  <2>4. /\ Typed(d) /\ d.in_flight = c.in_flight /\ d.write_buffer = c.write_buffer
        /\ d.queue = Append(q, x) /\ d.wire = c.wire
        /\ d.status = c.status /\ d.sock = c.sock /\ d.selecting = c.selecting
        /\ d.reconnecting = c.reconnecting /\ d.failed = c.failed
        /\ d.retry_attempts = c.retry_attempts
        /\ d.promise = c.promise /\ d.timer = c.timer
        /\ d.reconnect_timer = c.reconnect_timer /\ d.deferred = c.deferred
    BY <1>2, <2>2, <2>3 DEF Typed, Fields
  <2>5. Good(d)
    BY <2>4 DEF Good, Dials, Replies, Handshake, Serial
  <2>6. Pend(d) = Append(Pend(c), x)
    <3>1. f \o Append(q, x) = Append(f \o q, x)
      BY ONLY <1>0, <1>2, JoinOne
    <3> QED BY <3>1, <2>4, <1>1 DEF Pend
  <2> QED BY <2>5, <2>6
<1>4. CASE ~(can \/ c.queue # <<>> \/ c.in_flight # <<>> \/ ~connection_ready(c))
  <2>1. PICK w \in Seq(Requests), r \in Seq(Requests) : w = c.write_buffer /\ r = c.wire
    BY DEF Good, Typed
  <2>2. d = [c EXCEPT !.in_flight = Append(f, x), !.write_buffer = Append(w, x)]
    BY <1>1, <1>2, <1>4, <2>1 DEF enqueue, Typed, Fields
  <2>3. f = <<>> /\ q = <<>> /\ connection_ready(c)
    BY <1>1, <1>4
  <2>4. Append(w, x) \in Seq(Requests) /\ Append(f, x) \in Seq(Commands)
    BY <1>0
  <2>5. /\ Typed(d) /\ d.in_flight = Append(f, x) /\ d.write_buffer = Append(w, x)
        /\ d.queue = c.queue /\ d.wire = c.wire
        /\ d.status = c.status /\ d.sock = c.sock /\ d.selecting = c.selecting
        /\ d.reconnecting = c.reconnecting /\ d.failed = c.failed
        /\ d.retry_attempts = c.retry_attempts
        /\ d.promise = c.promise /\ d.timer = c.timer
        /\ d.reconnect_timer = c.reconnect_timer /\ d.deferred = c.deferred
    BY <1>2, <2>2, <2>4 DEF Typed, Fields
  <2>6. Dials(d)
    BY <2>5 DEF Good, Dials
  <2>7. Serial(d)
    <3>1. DOMAIN d.in_flight = {1}
      BY <2>3, <2>5
    <3> QED BY <3>1 DEF Serial
  <2>8. Replies(d)
    <3>1. c.sock = "open" /\ Handshake(c) = <<>> /\ Handshake(d) = <<>>
      BY <2>3, <2>5 DEF connection_ready, Good, Dials, Handshake
    <3>2. r \o w = <<>> \o f
      BY <3>1, <2>1, <1>1 DEF Good, Replies
    <3>3. r \o Append(w, x) = Append(r \o w, x) /\ <<>> \o Append(f, x) = Append(<<>> \o f, x)
      <4>1. <<>> \in Seq(Requests)
        OBVIOUS
      <4> QED BY ONLY <1>0, <1>2, <4>1, r \in Seq(Requests), w \in Seq(Requests), JoinOne
    <3> QED BY <3>1, <3>2, <3>3, <2>1, <2>5 DEF Replies
  <2>9. Pend(d) = Append(Pend(c), x)
    <3>1. Append(f, x) \o <<>> = Append(f, x) /\ f \o <<>> = f
      BY <2>4, ConcatEmptySeq
    <3> QED BY <3>1, <2>3, <2>5, <1>1 DEF Pend
  <2> QED BY <2>5, <2>6, <2>7, <2>8, <2>9 DEF Good
<1> QED BY <1>3, <1>4

\* The client as Open leaves it, before the kernel takes any of the
\* handshake.
Opened(c) ==
    [c EXCEPT !.sock = "open", !.failed = FALSE, !.selecting = options.database,
              !.write_buffer = IF options.database
                               THEN <<"HELLO", "SELECT">> ELSE <<"HELLO">>]

\* on_open: the handshake is written to a fresh connection.
LEMMA OpenEffect ==
    ASSUME options \in Options, NEW c, Good(c), c.sock = "dialing",
           NEW d, d = Opened(c)
    PROVE  Good(d) /\ d.queue = c.queue /\ d.in_flight = c.in_flight
<1>1. PICK b \in BOOLEAN, w \in Seq(Requests) :
         /\ b = options.database
         /\ w = IF b THEN <<"HELLO", "SELECT">> ELSE <<"HELLO">>
  <2>1. "HELLO" \in Requests /\ "SELECT" \in Requests
    BY DEF Requests
  <2>2. options.database \in BOOLEAN
    BY DEF Options
  <2>3. <<"HELLO", "SELECT">> \in Seq(Requests) /\ <<"HELLO">> \in Seq(Requests)
    BY <2>1
  <2>4. CASE options.database
    BY <2>2, <2>3, <2>4
  <2>5. CASE ~options.database
    BY <2>2, <2>3, <2>5
  <2> QED BY <2>4, <2>5
<1>2. d = [c EXCEPT !.sock = "open", !.failed = FALSE, !.selecting = b, !.write_buffer = w]
  BY <1>1 DEF Opened
<1>3. /\ Typed(d) /\ d.in_flight = c.in_flight /\ d.write_buffer = w
      /\ d.queue = c.queue /\ d.wire = c.wire
      /\ d.status = c.status /\ d.sock = "open" /\ d.selecting = b
      /\ d.reconnecting = c.reconnecting /\ ~d.failed
      /\ d.retry_attempts = c.retry_attempts
      /\ d.promise = c.promise /\ d.timer = c.timer
      /\ d.reconnect_timer = c.reconnect_timer /\ d.deferred = c.deferred
  BY <1>2 DEF Good, Typed, Fields
<1>4. c.status = "Connecting" /\ c.in_flight = <<>> /\ c.wire = <<>>
  BY DEF Good, Dials, Replies
<1>5. Dials(d)
  BY <1>3, <1>4 DEF Good, Dials
<1>6. Replies(d)
  <2>1. Handshake(d) = w
    BY <1>1, <1>3, <1>4 DEF Handshake
  <2>2. <<>> \o w = w /\ w \o <<>> = w
    BY ConcatEmptySeq
  <2> QED BY <2>1, <2>2, <1>3, <1>4 DEF Replies
<1> QED BY <1>3, <1>4, <1>5, <1>6, EmptySerial DEF Good

-----------------------------------------------------------------------------
(* Replies *)

\* A reply takes the oldest request off the wire.
Taken(c) == [c EXCEPT !.wire = Tail(c.wire)]

\* The oldest request is the first of the handshake or, after it, of the
\* commands in flight.
LEMMA TakeReply ==
    ASSUME NEW c, Good(c), c.wire # <<>>, NEW e, e = Taken(c)
    PROVE  /\ Typed(e) /\ Dials(e) /\ c.sock = "open" /\ ~c.failed
           /\ e.in_flight = c.in_flight /\ e.write_buffer = c.write_buffer
           /\ e.queue = c.queue /\ e.wire = Tail(c.wire)
           /\ e.status = c.status /\ e.sock = c.sock /\ e.selecting = c.selecting
           /\ e.reconnecting = c.reconnecting /\ e.failed = c.failed
           /\ e.retry_attempts = c.retry_attempts
           /\ e.promise = c.promise /\ e.timer = c.timer
           /\ e.reconnect_timer = c.reconnect_timer /\ e.deferred = c.deferred
           /\ e.wire \o e.write_buffer = Tail(Handshake(c) \o c.in_flight)
           /\ Head(c.wire) = Head(Handshake(c) \o c.in_flight)
<1>1. PICK w \in Seq(Requests), r \in Seq(Requests) : w = c.write_buffer /\ r = c.wire
  BY DEF Good, Typed
<1>2. /\ Head(r \o w) = Head(r) /\ Tail(r \o w) = Tail(r) \o w /\ Tail(r) \in Seq(Requests)
  BY ONLY <1>1, c.wire # <<>>, r \in Seq(Requests), w \in Seq(Requests), TailJoin, Zenon
<1>3. /\ Typed(e) /\ e.in_flight = c.in_flight /\ e.write_buffer = c.write_buffer
      /\ e.queue = c.queue /\ e.wire = Tail(c.wire)
      /\ e.status = c.status /\ e.sock = c.sock /\ e.selecting = c.selecting
      /\ e.reconnecting = c.reconnecting /\ e.failed = c.failed
      /\ e.retry_attempts = c.retry_attempts
      /\ e.promise = c.promise /\ e.timer = c.timer
      /\ e.reconnect_timer = c.reconnect_timer /\ e.deferred = c.deferred
  BY <1>1, <1>2 DEF Good, Typed, Fields, Taken
<1>4. Dials(e)
  BY <1>3 DEF Good, Dials
<1>5. c.sock = "open" /\ r \o w = Handshake(c) \o c.in_flight
  BY <1>1 DEF Good, Replies
<1>6. ~c.failed
  BY <1>5 DEF Good, Dials
<1> QED BY <1>1, <1>2, <1>3, <1>4, <1>5, <1>6

\* What is left of the handshake after its first answer.
LEMMA TailHandshake ==
    ASSUME NEW f \in Seq(Requests)
    PROVE  /\ Tail(<<"HELLO">> \o f) = <<>> \o f /\ Tail(<<"SELECT">> \o f) = <<>> \o f
           /\ Tail(<<"HELLO", "SELECT">> \o f) = <<"SELECT">> \o f
           /\ <<>> \o f = f
<1>1. "HELLO" \in Requests /\ "SELECT" \in Requests
  BY DEF Requests
<1>2. /\ <<"HELLO">> \in Seq(Requests) /\ <<"HELLO">> # <<>> /\ Tail(<<"HELLO">>) = <<>>
      /\ <<"SELECT">> \in Seq(Requests) /\ <<"SELECT">> # <<>> /\ Tail(<<"SELECT">>) = <<>>
  BY <1>1
<1>3. /\ <<"HELLO", "SELECT">> \in Seq(Requests) /\ <<"HELLO", "SELECT">> # <<>>
      /\ Tail(<<"HELLO", "SELECT">>) = <<"SELECT">>
  BY <1>1
<1>4. PICK h \in Seq(Requests), s \in Seq(Requests), b \in Seq(Requests) :
        /\ h = <<"HELLO">> /\ h # <<>> /\ Tail(h) = <<>>
        /\ s = <<"SELECT">> /\ s # <<>> /\ Tail(s) = <<>>
        /\ b = <<"HELLO", "SELECT">> /\ b # <<>> /\ Tail(b) = <<"SELECT">>
  BY ONLY <1>2, <1>3, Zenon
<1>5. /\ Tail(h \o f) = Tail(h) \o f /\ Tail(s \o f) = Tail(s) \o f
      /\ Tail(b \o f) = Tail(b) \o f
  BY ONLY <1>4, TailJoin, f \in Seq(Requests), h \in Seq(Requests),
          s \in Seq(Requests), b \in Seq(Requests)
<1>6. <<>> \o f = f
  BY ConcatEmptySeq
<1> QED BY ONLY <1>4, <1>5, <1>6, Zenon

\* The answer to HELLO connects the client.
LEMMA HelloAnswered ==
    ASSUME NEW c, Good(c), c.wire # <<>>, c.status # "Connected",
           NEW e, e = Taken(c), NEW d, d = Connected(e)
    PROVE  Good(d) /\ d.queue = c.queue /\ d.in_flight = c.in_flight
<1>1. /\ Typed(e) /\ c.sock = "open" /\ ~c.failed
      /\ e.in_flight = c.in_flight /\ e.write_buffer = c.write_buffer
      /\ e.queue = c.queue /\ e.wire = Tail(c.wire)
      /\ e.sock = c.sock /\ e.selecting = c.selecting /\ e.failed = c.failed
      /\ e.reconnect_timer = c.reconnect_timer /\ e.deferred = c.deferred
      /\ e.wire \o e.write_buffer = Tail(Handshake(c) \o c.in_flight)
  BY ONLY TakeReply, Good(c), c.wire # <<>>, e = Taken(c), ZenonT(60)
<1>2. d = [e EXCEPT !.status = "Connected", !.reconnecting = FALSE, !.retry_attempts = 0,
                    !.promise = FALSE, !.timer = TRUE, !.turn = "reply"]
  BY DEF Connected
<1>3. /\ Typed(d) /\ d.in_flight = e.in_flight /\ d.write_buffer = e.write_buffer
      /\ d.queue = e.queue /\ d.wire = e.wire /\ d.status = "Connected" /\ d.sock = e.sock
      /\ d.selecting = e.selecting /\ d.failed = e.failed /\ d.retry_attempts = 0
      /\ d.reconnect_timer = e.reconnect_timer /\ d.deferred = e.deferred
  <2>1. 0 \in 0..(MaxRetries + 1)
    BY ValkeyAssumption
  <2>2. Typed(e) /\ DOMAIN e = Fields
    BY <1>1 DEF Typed
  <2>3. Typed(d)
    BY ONLY <2>1, <2>2, <1>2 DEF Typed, Fields, Statuses
  <2> QED BY ONLY <2>2, <2>3, <1>2 DEF Fields
<1>4. Dials(d)
  <2>1. ~(d.retry_attempts > MaxRetries)
    BY <1>3, ValkeyAssumption
  <2>2. ~c.deferred /\ ~c.reconnect_timer
    BY <1>1 DEF Good, Dials
  <2> QED BY <1>1, <1>3, <2>1, <2>2 DEF Dials
<1>5. Serial(d)
  BY <1>1, <1>3 DEF Good, Serial
<1>6. Replies(d)
  <2>1. c.in_flight \in Seq(Requests)
    BY RequestSeq DEF Good, Typed
  <2>2. Tail(Handshake(c) \o c.in_flight) = Handshake(d) \o c.in_flight
    <3>1. CASE c.selecting
      <4>1. Handshake(c) = <<"HELLO", "SELECT">> /\ Handshake(d) = <<"SELECT">>
        BY <3>1, <1>1, <1>3 DEF Handshake
      <4> QED BY <4>1, <2>1, TailHandshake
    <3>2. CASE ~c.selecting
      <4>1. Handshake(c) = <<"HELLO">> /\ Handshake(d) = <<>>
        BY <3>2, <1>1, <1>3 DEF Handshake
      <4> QED BY <4>1, <2>1, TailHandshake
    <3> QED BY <3>1, <3>2
  <2>3. d.sock = "open" /\ d.wire \o d.write_buffer = Handshake(d) \o d.in_flight
    BY ONLY <2>2, <1>1, <1>3
  <2> QED BY ONLY <2>3 DEF Replies
<1> QED BY <1>1, <1>3, <1>4, <1>5, <1>6 DEF Good

\* The answer to SELECT ends the handshake.
Selected(c) == [c EXCEPT !.selecting = FALSE]

\* After it commands may be written.
LEMMA SelectAnswered ==
    ASSUME NEW c, Good(c), c.wire # <<>>, c.status = "Connected", c.selecting,
           NEW e, e = Taken(c), NEW d, d = Selected(e)
    PROVE  Good(d) /\ d.queue = c.queue /\ d.in_flight = c.in_flight /\ d.sock = "open"
<1>1. /\ Typed(e) /\ Dials(e) /\ c.sock = "open" /\ ~c.failed
      /\ e.in_flight = c.in_flight /\ e.write_buffer = c.write_buffer
      /\ e.queue = c.queue /\ e.wire = Tail(c.wire)
      /\ e.status = c.status /\ e.sock = c.sock
      /\ e.wire \o e.write_buffer = Tail(Handshake(c) \o c.in_flight)
  BY ONLY TakeReply, Good(c), c.wire # <<>>, e = Taken(c), ZenonT(60)
<1>2. /\ Typed(d) /\ d.in_flight = e.in_flight /\ d.write_buffer = e.write_buffer
      /\ d.queue = e.queue /\ d.wire = e.wire
      /\ d.status = e.status /\ d.sock = e.sock /\ ~d.selecting
      /\ d.reconnecting = e.reconnecting /\ d.failed = e.failed
      /\ d.retry_attempts = e.retry_attempts
      /\ d.promise = e.promise /\ d.timer = e.timer
      /\ d.reconnect_timer = e.reconnect_timer /\ d.deferred = e.deferred
  BY <1>1 DEF Typed, Fields, Selected
<1>3. Dials(d)
  BY <1>1, <1>2 DEF Dials
<1>4. Serial(d)
  BY <1>1, <1>2 DEF Good, Serial
<1>5. Replies(d)
  <2>1. c.in_flight \in Seq(Requests)
    BY RequestSeq DEF Good, Typed
  <2>2. Handshake(c) = <<"SELECT">> /\ Handshake(d) = <<>>
    BY <1>1, <1>2 DEF Handshake
  <2>3. Tail(Handshake(c) \o c.in_flight) = Handshake(d) \o c.in_flight
    BY <2>1, <2>2, TailHandshake
  <2>4. d.sock = "open" /\ d.wire \o d.write_buffer = Handshake(d) \o d.in_flight
    BY ONLY <2>3, <1>1, <1>2
  <2> QED BY ONLY <2>4 DEF Replies
<1> QED BY <1>1, <1>2, <1>3, <1>4, <1>5 DEF Good

\* A reply after the handshake takes the oldest command in flight.
Resolved(c) == [c EXCEPT !.in_flight = Tail(c.in_flight), !.turn = "reply"]

\* That command is the one the reply answers.
LEMMA CommandAnswered ==
    ASSUME NEW c, Good(c), c.wire # <<>>, c.status = "Connected", ~c.selecting,
           c.in_flight # <<>>, NEW e, e = Taken(c), NEW d, d = Resolved(e)
    PROVE  /\ Good(d) /\ d.queue = c.queue /\ d.in_flight = Tail(c.in_flight)
           /\ Head(c.in_flight) = Head(c.wire)
<1>1. /\ Typed(e) /\ Dials(e) /\ c.sock = "open" /\ ~c.failed
      /\ e.in_flight = c.in_flight /\ e.write_buffer = c.write_buffer
      /\ e.queue = c.queue /\ e.wire = Tail(c.wire)
      /\ e.status = c.status /\ e.sock = c.sock /\ e.selecting = c.selecting
      /\ e.failed = c.failed
      /\ e.wire \o e.write_buffer = Tail(Handshake(c) \o c.in_flight)
      /\ Head(c.wire) = Head(Handshake(c) \o c.in_flight)
  BY ONLY TakeReply, Good(c), c.wire # <<>>, e = Taken(c), ZenonT(60)
<1>2. PICK f \in Seq(Commands) : f = c.in_flight /\ f # <<>> /\ f \in Seq(Requests)
  BY RequestSeq DEF Good, Typed
<1>3. /\ Tail(f) \in Seq(Commands) /\ Len(f) \in Nat /\ Len(f) >= 1
      /\ DOMAIN f = 1..Len(f) /\ DOMAIN Tail(f) = 1..(Len(f) - 1)
      /\ \A i \in 1..(Len(f) - 1) : Tail(f)[i] = f[i + 1]
  BY <1>2
<1>4. d = [e EXCEPT !.in_flight = Tail(f), !.turn = "reply"]
  BY <1>1, <1>2 DEF Resolved
<1>5. /\ Typed(d) /\ d.in_flight = Tail(f) /\ d.write_buffer = e.write_buffer
      /\ d.queue = e.queue /\ d.wire = e.wire
      /\ d.status = e.status /\ d.sock = e.sock /\ d.selecting = e.selecting
      /\ d.reconnecting = e.reconnecting /\ d.failed = e.failed
      /\ d.retry_attempts = e.retry_attempts
      /\ d.promise = e.promise /\ d.timer = e.timer
      /\ d.reconnect_timer = e.reconnect_timer /\ d.deferred = e.deferred
  <2>1. Typed(e) /\ DOMAIN e = Fields /\ Tail(f) \in Seq(Commands)
    BY <1>1, <1>3 DEF Typed
  <2>2. Typed(d)
    BY ONLY <1>4, <2>1 DEF Typed, Fields
  <2> QED BY ONLY <1>4, <2>1, <2>2 DEF Fields
<1>6. Dials(d)
  BY <1>1, <1>5 DEF Dials
<1>7. Serial(d)
  <2> SUFFICES ASSUME NEW i \in 1..(Len(f) - 1), Tail(f)[i] \notin Pipelined PROVE FALSE
    BY <1>3, <1>5 DEF Serial
  <2>1. i + 1 \in DOMAIN f /\ f[i + 1] \notin Pipelined /\ i + 1 # 1
    BY <1>3
  <2> QED BY <2>1, <1>2 DEF Good, Serial
<1>8. Handshake(c) = <<>> /\ Handshake(d) = <<>>
  BY <1>1, <1>5 DEF Handshake
<1>9. <<>> \o f = f /\ <<>> \o Tail(f) = Tail(f)
  BY <1>3, ConcatEmptySeq
<1>10. Replies(d)
  <2>1. d.sock = "open" /\ d.wire \o d.write_buffer = e.wire \o e.write_buffer
    BY <1>1, <1>5
  <2>2. e.wire \o e.write_buffer = Tail(f) /\ Handshake(d) \o d.in_flight = Tail(f)
    BY ONLY <1>1, <1>2, <1>5, <1>8, <1>9, Zenon
  <2> QED BY ONLY <2>1, <2>2 DEF Replies
<1> QED BY <1>1, <1>2, <1>5, <1>6, <1>7, <1>8, <1>9, <1>10 DEF Good

-----------------------------------------------------------------------------
(* The books: what was accepted, what is pending, what is settled *)

\* q is a contiguous part of p.
Part(q, p) ==
    \E m \in Nat : Len(q) + m <= Len(p) /\ \A i \in 1..Len(q) : q[i] = p[i + m]

\* x is before y in the history h.
Precedes(h, x, y) == \E k, l \in DOMAIN h : k < l /\ h[k] = x /\ h[l] = y

\* What may have become of a command: a mixed up answer is not among it.
Outcomes == {"none", "waiting", "answered", "rejected"}

\* The books: no command is accepted twice; the pending ones are those whose
\* promise waits; a command not sent was not accepted; the pending ones were
\* accepted in the order they are pending.
Ledger(p, o, h) ==
    /\ p \in Seq(Commands) /\ h \in Seq(Commands) /\ o \in [Commands -> Outcomes]
    /\ \A k, l \in 1..Len(h) : h[k] = h[l] => k = l
    /\ \A x \in Commands : o[x] = "waiting" <=> x \in ToSet(p)
    /\ \A x \in Commands : o[x] = "none" => x \notin ToSet(h)
    /\ \A i \in 1..Len(p) : p[i] \in ToSet(h)
    /\ \A i, j \in 1..Len(p) : i < j => Precedes(h, p[i], p[j])

\* The elements of a sequence.
LEMMA Members ==
    \A s \in Seq(Commands) : \A x : x \in ToSet(s) <=> \E i \in 1..Len(s) : s[i] = x
BY DEF ToSet

\* The books stay right when commands leave either end of the pending ones
\* and their promises are settled.
LEMMA LedgerPart ==
    ASSUME NEW p, NEW o, NEW h, Ledger(p, o, h), NEW q \in Seq(Commands), Part(q, p),
           NEW r \in [Commands -> Outcomes],
           \A x \in Commands : r[x] = "waiting" <=> x \in ToSet(q),
           \A x \in Commands : r[x] = "none" => o[x] = "none"
    PROVE  Ledger(q, r, h)
<1>1. PICK m \in Nat : Len(q) + m <= Len(p) /\ \A i \in 1..Len(q) : q[i] = p[i + m]
  BY DEF Part
<1>2. Len(q) \in Nat /\ Len(p) \in Nat
  BY DEF Ledger
<1>3. \A i \in 1..Len(q) : i + m \in 1..Len(p) /\ q[i] = p[i + m]
  BY <1>1, <1>2
<1>4. \A i \in 1..Len(q) : q[i] \in ToSet(h)
  BY <1>3 DEF Ledger
<1>5. ASSUME NEW i \in 1..Len(q), NEW j \in 1..Len(q), i < j
      PROVE  Precedes(h, q[i], q[j])
  <2>1. i + m \in 1..Len(p) /\ j + m \in 1..Len(p) /\ i + m < j + m
        /\ q[i] = p[i + m] /\ q[j] = p[j + m]
    BY <1>3, <1>5
  <2>2. Precedes(h, p[i + m], p[j + m])
    BY <2>1 DEF Ledger
  <2> QED BY <2>1, <2>2
<1> QED BY <1>4, <1>5 DEF Ledger

\* No command is pending twice.
LEMMA PendingOnce ==
    ASSUME NEW p, NEW o, NEW h, Ledger(p, o, h), NEW i \in 1..Len(p), NEW j \in 1..Len(p),
           p[i] = p[j]
    PROVE  i = j
<1>1. Len(p) \in Nat /\ Len(h) \in Nat /\ DOMAIN h = 1..Len(h)
  BY DEF Ledger
<1>2. ASSUME NEW x, Precedes(h, x, x) PROVE FALSE
  <2>1. PICK k \in 1..Len(h), l \in 1..Len(h) : k < l /\ h[k] = x /\ h[l] = x
    BY <1>1, <1>2 DEF Precedes
  <2>2. k = l
    BY <2>1 DEF Ledger
  <2> QED BY <2>1, <2>2
<1>3. ~(i < j)
  <2> SUFFICES ASSUME i < j PROVE FALSE
    OBVIOUS
  <2>1. Precedes(h, p[i], p[j])
    BY DEF Ledger
  <2> QED BY <2>1, <1>2
<1>4. ~(j < i)
  <2> SUFFICES ASSUME j < i PROVE FALSE
    OBVIOUS
  <2>1. Precedes(h, p[j], p[i])
    BY DEF Ledger
  <2> QED BY <2>1, <1>2
<1> QED BY <1>1, <1>3, <1>4

\* The books stay right when the oldest pending command is answered.
LEMMA LedgerAnswered ==
    ASSUME NEW p, NEW o, NEW h, Ledger(p, o, h), p # <<>>, NEW q, q = Tail(p),
           NEW r \in [Commands -> Outcomes], r[Head(p)] = "answered",
           \A x \in Commands : x # Head(p) => r[x] = o[x]
    PROVE  Ledger(q, r, h)
<1>1. /\ p \in Seq(Commands) /\ Len(p) \in Nat /\ Len(p) >= 1 /\ q \in Seq(Commands)
      /\ Len(q) = Len(p) - 1 /\ Head(p) = p[1] /\ \A i \in 1..Len(q) : q[i] = p[i + 1]
      /\ p[1] \in Commands
  BY DEF Ledger
<1>2. Part(q, p)
  BY <1>1 DEF Part
<1>3. \A x : x \in ToSet(p) <=> \E i \in 1..Len(p) : p[i] = x
  BY ONLY <1>1, Members, ZenonT(60)
<1>4. \A x : x \in ToSet(q) <=> \E i \in 1..Len(q) : q[i] = x
  BY ONLY <1>1, Members, ZenonT(60)
<1>5. p[1] \notin ToSet(q)
  <2> SUFFICES ASSUME NEW i \in 1..Len(q), q[i] = p[1] PROVE FALSE
    BY <1>4
  <2>1. i + 1 \in 1..Len(p) /\ 1 \in 1..Len(p) /\ p[i + 1] = p[1] /\ i + 1 # 1
    BY <1>1
  <2> QED BY ONLY <2>1, PendingOnce, Ledger(p, o, h)
<1>6. ASSUME NEW x \in Commands, x # p[1]
      PROVE  x \in ToSet(p) <=> x \in ToSet(q)
  <2>1. ASSUME NEW i \in 1..Len(p), p[i] = x PROVE x \in ToSet(q)
    <3>1. i # 1 /\ i - 1 \in 1..Len(q) /\ q[i - 1] = p[(i - 1) + 1] /\ (i - 1) + 1 = i
      BY <2>1, <1>1, <1>6
    <3> QED BY <3>1, <2>1, <1>4
  <2>2. ASSUME NEW i \in 1..Len(q), q[i] = x PROVE x \in ToSet(p)
    <3>1. i + 1 \in 1..Len(p) /\ p[i + 1] = x
      BY <2>2, <1>1
    <3> QED BY <3>1, <1>3
  <2> QED BY <2>1, <2>2, <1>3, <1>4
<1>7. \A x \in Commands : o[x] = "waiting" <=> x \in ToSet(p)
  BY DEF Ledger
<1>8. \A x \in Commands : r[x] = "waiting" <=> x \in ToSet(q)
  BY <1>1, <1>5, <1>6, <1>7
<1>9. \A x \in Commands : r[x] = "none" => o[x] = "none"
  BY <1>1
<1> QED BY ONLY Ledger(p, o, h), <1>1, <1>2, <1>8, <1>9, r \in [Commands -> Outcomes], LedgerPart

\* The books stay right when a command is accepted behind the pending ones.
LEMMA LedgerAdded ==
    ASSUME NEW p, NEW o, NEW h, Ledger(p, o, h), NEW x \in Commands, o[x] = "none",
           NEW q, q = Append(p, x), NEW g, g = Append(h, x),
           NEW r \in [Commands -> Outcomes], r[x] = "waiting",
           \A y \in Commands : y # x => r[y] = o[y]
    PROVE  Ledger(q, r, g)
<1>1. /\ p \in Seq(Commands) /\ q \in Seq(Commands) /\ Len(p) \in Nat /\ Len(q) = Len(p) + 1
      /\ q[Len(p) + 1] = x /\ \A i \in 1..Len(p) : q[i] = p[i]
  BY DEF Ledger
<1>2. /\ h \in Seq(Commands) /\ g \in Seq(Commands) /\ Len(h) \in Nat /\ Len(g) = Len(h) + 1
      /\ g[Len(h) + 1] = x /\ \A i \in 1..Len(h) : g[i] = h[i]
      /\ DOMAIN h = 1..Len(h) /\ DOMAIN g = 1..(Len(h) + 1)
  BY DEF Ledger
<1>3. /\ \A y : y \in ToSet(p) <=> \E i \in 1..Len(p) : p[i] = y
      /\ \A y : y \in ToSet(q) <=> \E i \in 1..(Len(p) + 1) : q[i] = y
  BY ONLY <1>1, Members, ZenonT(60)
<1>4. /\ \A y : y \in ToSet(h) <=> \E i \in 1..Len(h) : h[i] = y
      /\ \A y : y \in ToSet(g) <=> \E i \in 1..(Len(h) + 1) : g[i] = y
  BY ONLY <1>2, Members, ZenonT(60)
<1>5. \A y : y \in ToSet(q) <=> (y = x \/ y \in ToSet(p))
  BY <1>1, <1>3
<1>6. \A y : y \in ToSet(g) <=> (y = x \/ y \in ToSet(h))
  BY <1>2, <1>4
<1>7. x \notin ToSet(h) /\ \A i \in 1..Len(h) : h[i] # x
  BY <1>4 DEF Ledger
<1>8. \A k, l \in 1..Len(g) : g[k] = g[l] => k = l
  <2> SUFFICES ASSUME NEW k \in 1..(Len(h) + 1), NEW l \in 1..(Len(h) + 1), g[k] = g[l]
               PROVE  k = l
    BY <1>2
  <2>1. \A i \in 1..Len(h) : g[i] = h[i] /\ g[i] # x
    BY <1>2, <1>7
  <2>2. CASE k \in 1..Len(h) /\ l \in 1..Len(h)
    BY <2>1, <2>2 DEF Ledger
  <2> QED BY <1>2, <2>1, <2>2
<1>9. \A y \in Commands : r[y] = "waiting" <=> y \in ToSet(q)
  BY <1>5 DEF Ledger
<1>10. \A y \in Commands : r[y] = "none" => y \notin ToSet(g)
  BY <1>6 DEF Ledger
<1>11. \A i \in 1..Len(q) : q[i] \in ToSet(g)
  BY <1>1, <1>6 DEF Ledger
<1>12. ASSUME NEW i \in 1..Len(q), NEW j \in 1..Len(q), i < j
       PROVE  Precedes(g, q[i], q[j])
  <2>1. CASE j <= Len(p)
    <3>1. i \in 1..Len(p) /\ j \in 1..Len(p) /\ q[i] = p[i] /\ q[j] = p[j]
      BY <2>1, <1>1, <1>12
    <3>2. Precedes(h, p[i], p[j])
      BY <3>1, <1>12 DEF Ledger
    <3>3. PICK k \in 1..Len(h), l \in 1..Len(h) : k < l /\ h[k] = p[i] /\ h[l] = p[j]
      BY <3>2, <1>2 DEF Precedes
    <3>4. k \in DOMAIN g /\ l \in DOMAIN g /\ k < l /\ g[k] = q[i] /\ g[l] = q[j]
      BY <3>1, <3>3, <1>2
    <3> QED BY ONLY <3>4 DEF Precedes
  <2>2. CASE j = Len(p) + 1
    <3>1. i \in 1..Len(p) /\ q[i] = p[i] /\ q[j] = x
      BY <2>2, <1>1, <1>12
    <3>2. PICK k \in 1..Len(h) : h[k] = p[i]
      BY <3>1, <1>4 DEF Ledger
    <3>3. /\ k \in DOMAIN g /\ Len(h) + 1 \in DOMAIN g /\ k < Len(h) + 1
          /\ g[k] = q[i] /\ g[Len(h) + 1] = q[j]
      BY <3>1, <3>2, <1>2
    <3> QED BY <3>3 DEF Precedes
  <2> QED BY <2>1, <2>2, <1>1
<1> QED BY ONLY <1>1, <1>2, <1>8, <1>9, <1>10, <1>11, <1>12, r \in [Commands -> Outcomes] DEF Ledger

\* What is pending is what is in the two queues.
LEMMA PendSet ==
    ASSUME NEW c, Typed(c)
    PROVE  /\ Pend(c) \in Seq(Commands)
           /\ ToSet(Pend(c)) = ToSet(c.queue) \union ToSet(c.in_flight)
<1>1. PICK q \in Seq(Commands), f \in Seq(Commands) : q = c.queue /\ f = c.in_flight
  BY DEF Typed
<1>2. /\ f \o q \in Seq(Commands) /\ Len(f \o q) = Len(f) + Len(q)
      /\ \A i \in 1..(Len(f) + Len(q)) :
            (f \o q)[i] = IF i <= Len(f) THEN f[i] ELSE q[i - Len(f)]
  BY ConcatProperties
<1>3. PICK p \in Seq(Commands) : /\ p = f \o q /\ Len(p) = Len(f) + Len(q)
      /\ \A i \in 1..(Len(f) + Len(q)) : p[i] = IF i <= Len(f) THEN f[i] ELSE q[i - Len(f)]
  BY ONLY <1>2, Zenon
<1>4. Len(f) \in Nat /\ Len(q) \in Nat
  OBVIOUS
<1>5. ASSUME NEW i \in 1..(Len(f) + Len(q))
      PROVE  p[i] \in ToSet(q) \union ToSet(f)
  <2>1. CASE i <= Len(f)
    <3>1. i \in 1..Len(f) /\ p[i] = f[i]
      BY <2>1, <1>3, <1>4
    <3> QED BY ONLY <3>1, Members, f \in Seq(Commands)
  <2>2. CASE ~(i <= Len(f))
    <3>1. i - Len(f) \in 1..Len(q) /\ p[i] = q[i - Len(f)]
      BY <2>2, <1>3, <1>4
    <3> QED BY ONLY <3>1, Members, q \in Seq(Commands)
  <2> QED BY <2>1, <2>2
<1>6. ASSUME NEW i \in 1..Len(f) PROVE f[i] \in ToSet(p)
  <2>1. i \in 1..Len(p) /\ p[i] = f[i]
    BY <1>3, <1>4
  <2> QED BY ONLY <2>1, Members, p \in Seq(Commands)
<1>7. ASSUME NEW i \in 1..Len(q) PROVE q[i] \in ToSet(p)
  <2>1. Len(f) + i \in 1..Len(p) /\ p[Len(f) + i] = q[i]
    BY <1>3, <1>4
  <2> QED BY ONLY <2>1, Members, p \in Seq(Commands)
<1>8. \A x : x \in ToSet(p) => x \in ToSet(q) \union ToSet(f)
  <2>1. \A x : x \in ToSet(p) => \E i \in 1..Len(p) : p[i] = x
    BY ONLY Members, p \in Seq(Commands), Zenon
  <2> QED BY ONLY <2>1, <1>3, <1>5
<1>9. \A x : x \in ToSet(q) => x \in ToSet(p)
  <2>1. \A x : x \in ToSet(q) => \E i \in 1..Len(q) : q[i] = x
    BY ONLY Members, q \in Seq(Commands), Zenon
  <2> QED BY ONLY <2>1, <1>7
<1>10. \A x : x \in ToSet(f) => x \in ToSet(p)
  <2>1. \A x : x \in ToSet(f) => \E i \in 1..Len(f) : f[i] = x
    BY ONLY Members, f \in Seq(Commands), Zenon
  <2> QED BY ONLY <2>1, <1>6
<1>11. ToSet(p) = ToSet(q) \union ToSet(f)
  BY ONLY <1>8, <1>9, <1>10
<1> QED BY ONLY <1>1, <1>3, <1>11, p \in Seq(Commands), Zenon DEF Pend

\* A sequence is a part of itself.
LEMMA SamePart ==
    ASSUME NEW p \in Seq(Commands) PROVE Part(p, p)
<1>1. Len(p) \in Nat /\ 0 \in Nat /\ Len(p) + 0 <= Len(p)
      /\ \A i \in 1..Len(p) : p[i] = p[i + 0]
  OBVIOUS
<1> QED BY ONLY <1>1 DEF Part

\* Dropping the queue, or what is in flight, or both, leaves a part.
LEMMA FewerPart ==
    ASSUME NEW c, Typed(c), NEW d, Typed(d), Fewer(c, d)
    PROVE  Part(Pend(d), Pend(c))
<1>1. PICK q \in Seq(Commands), f \in Seq(Commands) : q = c.queue /\ f = c.in_flight
  BY DEF Typed
<1>2. /\ f \o q \in Seq(Commands) /\ Len(f \o q) = Len(f) + Len(q)
      /\ \A i \in 1..(Len(f) + Len(q)) :
            (f \o q)[i] = IF i <= Len(f) THEN f[i] ELSE q[i - Len(f)]
  BY ConcatProperties
<1>3. PICK p \in Seq(Commands) : /\ p = f \o q /\ Len(p) = Len(f) + Len(q)
      /\ \A i \in 1..(Len(f) + Len(q)) : p[i] = IF i <= Len(f) THEN f[i] ELSE q[i - Len(f)]
  BY ONLY <1>2, Zenon
<1>4. Len(f) \in Nat /\ Len(q) \in Nat /\ Pend(c) = p
  BY <1>1, <1>3 DEF Pend
<1>5. CASE d.queue = c.queue /\ d.in_flight = c.in_flight
  BY <1>1, <1>3, <1>4, <1>5, SamePart DEF Pend
<1>6. CASE d.queue = c.queue /\ d.in_flight = <<>>
  <2>1. Pend(d) = q
    BY <1>1, <1>6, ConcatEmptySeq DEF Pend
  <2>2. Len(q) + Len(f) <= Len(p) /\ \A i \in 1..Len(q) : q[i] = p[i + Len(f)]
    BY <1>3, <1>4
  <2>3. Part(q, p)
    BY ONLY <2>2, <1>4 DEF Part
  <2> QED BY <2>1, <2>3, <1>4
<1>7. CASE d.queue = <<>> /\ d.in_flight = c.in_flight
  <2>1. Pend(d) = f
    BY <1>1, <1>7, ConcatEmptySeq DEF Pend
  <2>2. 0 \in Nat /\ Len(f) + 0 <= Len(p) /\ \A i \in 1..Len(f) : f[i] = p[i + 0]
    BY <1>3, <1>4
  <2>3. Part(f, p)
    BY ONLY <2>2 DEF Part
  <2> QED BY <2>1, <2>3, <1>4
<1>8. CASE d.queue = <<>> /\ d.in_flight = <<>>
  <2>1. Pend(d) = <<>> /\ Len(<<>>) = 0
    BY <1>8, ConcatEmptySeq DEF Pend
  <2>2. 0 \in Nat /\ Len(<<>>) + 0 <= Len(p) /\ \A i \in 1..Len(<<>>) : <<>>[i] = p[i + 0]
    BY <1>3, <1>4, <2>1
  <2>3. Part(<<>>, p)
    BY ONLY <2>2 DEF Part
  <2> QED BY <2>1, <2>3, <1>4
<1> QED BY <1>5, <1>6, <1>7, <1>8 DEF Fewer

-----------------------------------------------------------------------------
(* The inductive invariant and the steps *)

\* The inductive invariant.
Inv ==
    /\ options \in Options
    /\ Good(client)
    /\ Ledger(Pend(client), outcome, issued)

\* What the invariant says of the promises that wait.
LEMMA PendingNow ==
    ASSUME Inv
    PROVE  /\ Pend(client) \in Seq(Commands) /\ outcome \in [Commands -> Outcomes]
           /\ \A x \in Commands : outcome[x] = "waiting" <=> x \in ToSet(Pend(client))
BY DEF Inv, Ledger

\* A new client satisfies the invariant.
LEMMA InitInv == Init => Inv
<1> SUFFICES ASSUME Init PROVE Inv
  OBVIOUS
<1>1. /\ DOMAIN client = Fields /\ client.status = "NeverConnected" /\ client.sock = "none"
      /\ client.manually_closed = FALSE /\ client.selecting = FALSE
      /\ client.reconnecting = FALSE /\ client.failed = FALSE /\ client.retry_attempts = 0
      /\ client.queue = <<>> /\ client.in_flight = <<>> /\ client.write_buffer = <<>>
      /\ client.wire = <<>> /\ client.promise = FALSE /\ client.timer = FALSE
      /\ client.reconnect_timer = FALSE /\ client.deferred = FALSE /\ client.flusher = FALSE
      /\ client.turn = "loop"
  BY DEF Init, Fields
<1>2. <<>> \in Seq(Commands) /\ <<>> \in Seq(Requests) /\ 0 \in 0..(MaxRetries + 1)
      /\ ~(0 > MaxRetries)
  BY ValkeyAssumption
<1>3. Typed(client)
  BY ONLY <1>1, <1>2 DEF Typed, Statuses
<1>4. Good(client)
  BY ONLY <1>1, <1>2, <1>3, EmptySerial DEF Good, Dials, Replies
<1>5. Pend(client) = <<>>
  BY <1>1, ConcatEmptySeq DEF Pend
<1>6. ToSet(<<>>) = {} /\ Len(<<>>) = 0
  BY DEF ToSet
<1>7. outcome \in [Commands -> Outcomes] /\ \A x \in Commands : outcome[x] = "none"
  BY DEF Init, Outcomes
<1>8. issued = <<>> /\ options \in Options
  BY DEF Init
<1>9. Ledger(<<>>, outcome, <<>>)
  BY ONLY <1>2, <1>6, <1>7 DEF Ledger
<1> QED BY <1>4, <1>5, <1>8, <1>9 DEF Inv

\* A step that gives nothing an answer: what left the queues is rejected.
LEMMA Settled ==
    ASSUME Inv, NEW d, Good(d), Part(Pend(d), Pend(client)), Settle(d, Nothing),
           options' = options, issued' = issued
    PROVE  Inv'
<1>1. /\ Pend(d) \in Seq(Commands)
      /\ ToSet(Pend(d)) = ToSet(d.queue) \union ToSet(d.in_flight)
  BY PendSet DEF Good
<1>2. client' = d
  BY DEF Settle
<1>3. outcome' = [x \in Commands |->
            IF x \in Waiting \ (ToSet(d.queue) \union ToSet(d.in_flight))
            THEN "rejected" ELSE outcome[x]]
  BY DEF Settle, Nothing
<1>4. outcome' = [x \in Commands |->
            IF outcome[x] = "waiting" /\ x \notin ToSet(Pend(d))
            THEN "rejected" ELSE outcome[x]]
  BY ONLY <1>1, <1>3 DEF Waiting
<1>5. PICK r : r = outcome'
  OBVIOUS
<1>6. r = [x \in Commands |-> IF outcome[x] = "waiting" /\ x \notin ToSet(Pend(d))
                              THEN "rejected" ELSE outcome[x]]
  BY ONLY <1>4, <1>5
<1>7. r \in [Commands -> Outcomes] /\ \A x \in Commands : r[x] = "none" => outcome[x] = "none"
  BY ONLY <1>6, PendingNow, Inv DEF Outcomes
<1>8. \A x \in ToSet(Pend(d)) : x \in ToSet(Pend(client))
  <2> SUFFICES ASSUME NEW x \in ToSet(Pend(d)) PROVE x \in ToSet(Pend(client))
    OBVIOUS
  <2>1. PICK p \in Seq(Commands), q \in Seq(Commands) : p = Pend(client) /\ q = Pend(d)
    BY ONLY <1>1, PendingNow, Inv, Zenon
  <2>2. PICK i \in 1..Len(q) : q[i] = x
    BY ONLY <2>1, Members, x \in ToSet(Pend(d)), q \in Seq(Commands), Zenon
  <2>3. PICK m \in Nat : Len(q) + m <= Len(p) /\ \A k \in 1..Len(q) : q[k] = p[k + m]
    BY <2>1 DEF Part
  <2>4. i + m \in 1..Len(p) /\ p[i + m] = x
    BY <2>2, <2>3, Len(p) \in Nat, Len(q) \in Nat
  <2> QED BY ONLY <2>1, <2>4, Members, p \in Seq(Commands)
<1>9. \A x \in Commands : r[x] = "waiting" <=> x \in ToSet(Pend(d))
  BY ONLY <1>6, <1>8, PendingNow, Inv
<1>10. Ledger(Pend(d), r, issued)
  BY ONLY <1>1, <1>7, <1>9, LedgerPart, Inv, Part(Pend(d), Pend(client)) DEF Inv
<1> QED BY <1>2, <1>5, <1>10 DEF Inv

\* ... so for a step that only drops queues,
LEMMA GivenUp ==
    ASSUME Inv, NEW d, Good(d), Fewer(client, d), Settle(d, Nothing),
           options' = options, issued' = issued
    PROVE  Inv'
<1>1. Part(Pend(d), Pend(client))
  BY FewerPart DEF Inv, Good
<1> QED BY <1>1, Settled

\* ... and for one that drops nothing.
LEMMA AllKept ==
    ASSUME Inv, NEW d, Good(d), Pend(d) = Pend(client), Settle(d, Nothing),
           options' = options, issued' = issued
    PROVE  Inv'
<1>1. Part(Pend(d), Pend(client))
  BY SamePart, PendingNow
<1> QED BY <1>1, Settled

\* Script calls connect().
LEMMA ConnectStep ==
    ASSUME Inv, NEW ok \in BOOLEAN, Connect(ok) PROVE Inv'
<1>1. PICK d : d = do_connect(client, ok)
  OBVIOUS
<1>2. Good(d) /\ d.queue = client.queue /\ d.in_flight = client.in_flight
  BY <1>1, Connects DEF Inv
<1>3. Settle(d, Nothing) /\ options' = options /\ issued' = issued
  BY <1>1 DEF Connect
<1>4. Fewer(client, d)
  BY <1>2 DEF Fewer
<1> QED BY <1>2, <1>3, <1>4, GivenUp

\* Script calls close().
LEMMA CloseStep ==
    ASSUME Inv, Close PROVE Inv'
<1>1. PICK d : d = close_call(client)
  OBVIOUS
<1>2. Good(d) /\ Fewer(client, d)
  BY <1>1, Closes DEF Inv
<1>3. Settle(d, Nothing) /\ options' = options /\ issued' = issued
  BY <1>1 DEF Close
<1> QED BY <1>2, <1>3, GivenUp

\* The client as send() finds it, after the dial the first command makes.
LEMMA SendDials ==
    ASSUME Inv, NEW ok \in BOOLEAN,
           NEW c, c = IF client.status = "NeverConnected" THEN dial(client, ok) ELSE client
    PROVE  Good(c) /\ Pend(c) = Pend(client) /\ c.status # "NeverConnected"
<1>1. CASE client.status = "NeverConnected"
  <2>1. /\ client.sock = "none" /\ client.queue = <<>> /\ client.in_flight = <<>>
        /\ client.wire = <<>> /\ client.write_buffer = <<>> /\ ~client.deferred
        /\ ~client.reconnect_timer /\ ~client.failed /\ ~client.timer
        /\ ~(client.retry_attempts > MaxRetries)
    BY <1>1 DEF Inv, Good, Typed, Dials, Replies
  <2>2. Idle(client)
    BY <2>1, ValkeyAssumption DEF Idle, Inv, Good, Typed
  <2>3. Good(c) /\ c.queue = client.queue /\ c.in_flight = <<>> /\ c.status = "Connecting"
    BY <2>2, <1>1, DialEffect
  <2> QED BY <2>1, <2>3 DEF Pend
<1>2. CASE client.status # "NeverConnected"
  BY <1>2 DEF Inv
<1> QED BY <1>1, <1>2

\* What Settle writes when the action settles command x itself.
LEMMA SettleOne ==
    ASSUME NEW d, NEW x \in Commands, NEW v \in Outcomes, Settle(d, Just(x, v)), Inv
    PROVE  /\ client' = d
           /\ outcome' = [y \in Commands |->
                IF y = x THEN v
                ELSE IF outcome[y] = "waiting" /\ y \notin ToSet(d.queue) \union ToSet(d.in_flight)
                     THEN "rejected" ELSE outcome[y]]
<1>1. DOMAIN Just(x, v) = {x} /\ Just(x, v)[x] = v
  BY DEF Just
<1> QED BY <1>1 DEF Settle, Waiting

\* ... and gives nothing else up.
LEMMA SettleOnly ==
    ASSUME Inv, NEW d, Good(d), NEW x \in Commands, NEW v \in Outcomes, Settle(d, Just(x, v)),
           \A y \in ToSet(Pend(client)) : y # x => y \in ToSet(Pend(d)), NEW r, r = outcome'
    PROVE  /\ client' = d /\ r \in [Commands -> Outcomes] /\ r[x] = v
           /\ \A y \in Commands : y # x => r[y] = outcome[y]
<1>1. ToSet(Pend(d)) = ToSet(d.queue) \union ToSet(d.in_flight)
  BY PendSet DEF Good
<1>2. /\ client' = d
      /\ outcome' = [y \in Commands |->
                IF y = x THEN v
                ELSE IF outcome[y] = "waiting" /\ y \notin ToSet(d.queue) \union ToSet(d.in_flight)
                     THEN "rejected" ELSE outcome[y]]
  BY SettleOne
<1>3. r = [y \in Commands |->
              IF y = x THEN v
              ELSE IF outcome[y] = "waiting" /\ y \notin ToSet(Pend(d))
                   THEN "rejected" ELSE outcome[y]]
  BY ONLY <1>1, <1>2, r = outcome'
<1>4. r \in [Commands -> Outcomes] /\ r[x] = v
  BY ONLY <1>3, PendingNow, Inv, v \in Outcomes, x \in Commands DEF Outcomes
<1>5. \A y \in Commands : y # x => r[y] = outcome[y]
  BY ONLY <1>3, PendingNow, Inv, \A y \in ToSet(Pend(client)) : y # x => y \in ToSet(Pend(d))
<1> QED BY <1>2, <1>4, <1>5

\* Script sends a command, which is refused or accepted.
LEMMA SendStep ==
    ASSUME Inv, NEW x \in Commands, NEW ok \in BOOLEAN, Send(x, ok) PROVE Inv'
<1>1. PICK c : c = IF client.status = "NeverConnected" THEN dial(client, ok) ELSE client
  OBVIOUS
<1>2. PICK e : e = enqueue(c, x)
  OBVIOUS
<1>3. Good(c) /\ Pend(c) = Pend(client) /\ c.status # "NeverConnected"
  BY <1>1, SendDials
<1>4. outcome[x] = "none" /\ options' = options
  BY DEF Send
<1>5. PICK r : r = outcome'
  OBVIOUS
<1>6. /\ Pend(client) \in Seq(Commands) /\ Ledger(Pend(client), outcome, issued)
      /\ \A y \in Commands : outcome[y] = "waiting" <=> y \in ToSet(Pend(client))
      /\ options \in Options
  BY PendingNow DEF Inv
<1> DEFINE rejected == c.failed \/ (c.status # "Connected" /\ ~options.offline_queue)
<1>7. CASE rejected
  <2>1. Settle(c, Just(x, "rejected")) /\ issued' = issued
    BY <1>7, <1>1 DEF Send
  <2>2. "rejected" \in Outcomes
    BY DEF Outcomes
  <2>3. /\ client' = c /\ r \in [Commands -> Outcomes] /\ r[x] = "rejected"
        /\ \A y \in Commands : y # x => r[y] = outcome[y]
    <3>1. \A y \in ToSet(Pend(client)) : y # x => y \in ToSet(Pend(c))
      BY <1>3
    <3> QED BY ONLY <2>1, <2>2, <3>1, <1>3, <1>5, Inv, x \in Commands, SettleOnly
  <2>4. \A y \in Commands : r[y] = "waiting" <=> y \in ToSet(Pend(client))
    BY ONLY <2>3, <1>4, <1>6, x \in Commands
  <2>5. \A y \in Commands : r[y] = "none" => outcome[y] = "none"
    BY ONLY <2>3, <1>4
  <2>6. Part(Pend(client), Pend(client))
    BY <1>6, SamePart
  <2>7. Ledger(Pend(client), r, issued)
    BY ONLY <1>6, <2>3, <2>4, <2>5, <2>6, LedgerPart
  <2> QED BY ONLY <1>3, <1>4, <1>5, <1>6, <2>1, <2>3, <2>7 DEF Inv
<1>8. CASE ~rejected
  <2>1. PICK d \in IF e.in_flight = c.in_flight THEN {e} ELSE Flushes(e) :
           Settle(d, Just(x, "waiting"))
    BY <1>8, <1>1, <1>2 DEF Send
  <2>2. issued' = Append(issued, x) /\ ~c.failed
    BY <1>8, <1>1 DEF Send
  <2>3. Good(e) /\ Pend(e) = Append(Pend(client), x)
    BY ONLY <1>2, <1>3, <2>2, x \in Commands, EnqueueEffect
  <2>4. Good(d) /\ Pend(d) = Append(Pend(client), x)
    <3>1. CASE d = e
      BY <3>1, <2>3
    <3>2. CASE d \in Flushes(e)
      <4>1. Good(d) /\ d.queue = e.queue /\ d.in_flight = e.in_flight
        BY ONLY <3>2, <2>3, FlushEffect
      <4> QED BY <4>1, <2>3 DEF Pend
    <3> QED BY <3>1, <3>2, <2>1
  <2>5. PICK p \in Seq(Commands), q \in Seq(Commands) : p = Pend(client) /\ q = Append(p, x)
    <3>1. Append(Pend(client), x) \in Seq(Commands)
      BY ONLY <1>6, x \in Commands
    <3> QED BY ONLY <3>1, <1>6, Zenon
  <2>6. \A y \in ToSet(p) : y \in ToSet(q)
    <3> SUFFICES ASSUME NEW y \in ToSet(p) PROVE y \in ToSet(q)
      OBVIOUS
    <3>1. PICK i \in 1..Len(p) : p[i] = y
      BY ONLY y \in ToSet(p), p \in Seq(Commands), Members, Zenon
    <3>2. q \in Seq(Commands) /\ i \in 1..Len(q) /\ q[i] = y
      BY <2>5, <3>1
    <3> QED BY ONLY <3>2, Members
  <2>7. "waiting" \in Outcomes
    BY DEF Outcomes
  <2>8. /\ client' = d /\ r \in [Commands -> Outcomes] /\ r[x] = "waiting"
        /\ \A y \in Commands : y # x => r[y] = outcome[y]
    <3>1. \A y \in ToSet(Pend(client)) : y # x => y \in ToSet(Pend(d))
      BY ONLY <2>4, <2>5, <2>6
    <3>2. Good(d) /\ Settle(d, Just(x, "waiting"))
      BY ONLY <2>1, <2>4, Zenon
    <3> QED BY ONLY <2>7, <3>1, <3>2, <1>5, Inv, x \in Commands, SettleOnly
  <2>9. PICK g : g = Append(issued, x)
    OBVIOUS
  <2>10. Ledger(q, r, g)
    <3>1. Ledger(p, outcome, issued)
      BY ONLY <1>6, <2>5
    <3> QED BY ONLY <3>1, <1>4, <2>5, <2>8, <2>9, x \in Commands, LedgerAdded, Zenon
  <2>11. q = Pend(d)
    BY ONLY <2>4, <2>5
  <2> QED BY ONLY <1>4, <1>5, <1>6, <2>2, <2>4, <2>8, <2>9, <2>10, <2>11 DEF Inv
<1> QED BY <1>7, <1>8

\* The auto flusher runs.
LEMMA AutoFlushStep ==
    ASSUME Inv, AutoFlush PROVE Inv'
<1>1. Good(client) /\ options' = options /\ issued' = issued
  BY DEF Inv, AutoFlush
<1>2. CASE client.status # "Connected"
  <2>1. Settle([client EXCEPT !.flusher = FALSE], Nothing)
    BY <1>2 DEF AutoFlush
  <2>2. PICK d : d = [client EXCEPT !.flusher = FALSE]
    OBVIOUS
  <2>3. Good(d) /\ d.queue = client.queue /\ d.in_flight = client.in_flight
    BY ONLY <1>1, <2>2, FlusherAside
  <2>4. Pend(d) = Pend(client)
    BY <2>3 DEF Pend
  <2>5. Settle(d, Nothing)
    BY ONLY <2>1, <2>2
  <2> QED BY ONLY <2>3, <2>4, <2>5, <1>1, Inv, AllKept
<1>3. CASE client.status = "Connected"
  <2>1. PICK n : n = pipelineable_count(client)
    OBVIOUS
  <2>2. PICK s : s = Start(client, n)
    OBVIOUS
  <2>3. PICK d \in Flushes(s) : Settle([d EXCEPT !.flusher = d.queue # <<>>], Nothing)
    BY <1>3, <2>1, <2>2 DEF AutoFlush
  <2>4. n \in 0..Len(client.queue) /\ Startable(client, n)
    BY <2>1, <1>1, PipelineableCount DEF Good, Startable
  <2>5. Good(s) /\ Pend(s) = Pend(client)
    BY ONLY <1>1, <1>3, <2>2, <2>4, StartEffect
  <2>6. Good(d) /\ d.queue = s.queue /\ d.in_flight = s.in_flight
    BY ONLY <2>3, <2>5, FlushEffect
  <2>7. PICK b \in BOOLEAN : b = (d.queue # <<>>)
    OBVIOUS
  <2>8. PICK e : e = [d EXCEPT !.flusher = b]
    OBVIOUS
  <2>9. Good(e) /\ e.queue = d.queue /\ e.in_flight = d.in_flight
    BY ONLY <2>6, <2>7, <2>8, FlusherAside
  <2>10. Pend(e) = Pend(client)
    BY <2>5, <2>6, <2>9 DEF Pend
  <2>11. Settle(e, Nothing)
    BY ONLY <2>3, <2>7, <2>8
  <2> QED BY ONLY <2>9, <2>10, <2>11, <1>1, Inv, AllKept
<1> QED BY <1>2, <1>3

\* The socket opens.
LEMMA OpenStep ==
    ASSUME Inv, Open PROVE Inv'
<1>1. PICK h : h = Opened(client)
  OBVIOUS
<1>2. PICK d \in Flushes(h) : Settle(d, Nothing)
  BY <1>1 DEF Open, Opened
<1>3. Good(client) /\ client.sock = "dialing" /\ options' = options /\ issued' = issued
  BY DEF Open, InLoop, Inv
<1>4. Good(h) /\ h.queue = client.queue /\ h.in_flight = client.in_flight
  BY <1>1, <1>3, OpenEffect DEF Inv
<1>5. Good(d) /\ d.queue = h.queue /\ d.in_flight = h.in_flight
  BY ONLY <1>2, <1>4, FlushEffect
<1>6. Pend(d) = Pend(client)
  BY <1>4, <1>5 DEF Pend
<1> QED BY ONLY <1>2, <1>3, <1>5, <1>6, Inv, AllKept

\* The connection or the dial ends.
LEMMA SocketStep ==
    ASSUME Inv, client.sock # "none", Settle(SocketClosed(client), Nothing),
           options' = options, issued' = issued
    PROVE  Inv'
<1>1. PICK d : d = SocketClosed(client)
  OBVIOUS
<1>2. Good(d) /\ Fewer(client, d)
  BY <1>1, HoldingGood, SocketCloses DEF Inv, Good
<1> QED BY <1>1, <1>2, GivenUp

\* The dial fails.
LEMMA DialFailsStep ==
    ASSUME Inv, DialFails PROVE Inv'
BY SocketStep DEF DialFails, InLoop

\* The peer closes.
LEMMA PeerClosesStep ==
    ASSUME Inv, PeerCloses PROVE Inv'
BY SocketStep DEF PeerCloses, InLoop

\* fail() on a client that has a socket.
LEMMA FailStep ==
    ASSUME Inv, NEW c, Typed(c), Dials(c), c.sock # "none", Settle(fail(c), Nothing),
           options' = options, issued' = issued
    PROVE  Inv'
<1>1. PICK d : d = fail(c)
  OBVIOUS
<1>2. Good(d) /\ d.queue = <<>> /\ d.in_flight = <<>>
  BY <1>1, Fails
<1>3. Fewer(client, d)
  BY <1>2 DEF Fewer
<1> QED BY <1>1, <1>2, <1>3, GivenUp

\* on_data() goes on.
LEMMA ContinueStep ==
    ASSUME Inv, Continue PROVE Inv'
<1>1. Good(client) /\ options' = options /\ issued' = issued
  BY DEF Inv, Continue
<1>2. PICK s : s = StartNext(client)
  OBVIOUS
<1>3. PICK d \in Flushes(s) : Settle([d EXCEPT !.turn = "loop"], Nothing)
  BY <1>2 DEF Continue
<1>4. PICK e : e = [d EXCEPT !.turn = "loop"]
  OBVIOUS
<1>5. Good(s) /\ Pend(s) = Pend(client)
  BY ONLY <1>1, <1>2, StartNextEffect
<1>6. Good(d) /\ d.queue = s.queue /\ d.in_flight = s.in_flight
  BY ONLY <1>3, <1>5, FlushEffect
<1>7. Good(e) /\ e.queue = d.queue /\ e.in_flight = d.in_flight
  BY ONLY <1>4, <1>6, TurnAside
<1>8. Pend(e) = Pend(client)
  BY <1>5, <1>6, <1>7 DEF Pend
<1>9. Settle(e, Nothing)
  BY ONLY <1>3, <1>4
<1> QED BY ONLY <1>1, <1>7, <1>8, <1>9, Inv, AllKept

\* The socket is writable again.
LEMMA WritableStep ==
    ASSUME Inv, Writable PROVE Inv'
<1>1. Good(client) /\ options' = options /\ issued' = issued
  BY DEF Inv, Writable, InLoop
<1>2. PICK s : s = StartNext(client)
  OBVIOUS
<1>3. PICK d \in Flushes(s) : Settle(d, Nothing)
  BY <1>2 DEF Writable
<1>4. Good(s) /\ Pend(s) = Pend(client)
  BY ONLY <1>1, <1>2, StartNextEffect
<1>5. Good(d) /\ d.queue = s.queue /\ d.in_flight = s.in_flight
  BY ONLY <1>3, <1>4, FlushEffect
<1>6. Pend(d) = Pend(client)
  BY <1>4, <1>5 DEF Pend
<1> QED BY ONLY <1>1, <1>3, <1>5, <1>6, Inv, AllKept

\* A timer that fires has a socket to close.
LEMMA TimeoutStep ==
    ASSUME Inv, Timeout PROVE Inv'
<1>1. PICK c : c = [client EXCEPT !.timer = FALSE]
  OBVIOUS
<1>2. /\ Typed(c) /\ c.in_flight = client.in_flight
      /\ c.queue = client.queue /\ c.status = client.status /\ c.sock = client.sock
      /\ c.reconnecting = client.reconnecting /\ c.failed = client.failed
      /\ c.retry_attempts = client.retry_attempts
      /\ c.promise = client.promise /\ c.timer = FALSE
      /\ c.reconnect_timer = client.reconnect_timer /\ c.deferred = client.deferred
  BY <1>1 DEF Inv, Good, Typed, Fields
<1>3. client.timer /\ Settle(fail(c), Nothing) /\ options' = options /\ issued' = issued
  BY <1>1 DEF Timeout, InLoop
<1>4. Dials(c) /\ c.sock # "none"
  BY <1>2, <1>3 DEF Inv, Good, Dials
<1> QED BY ONLY <1>2, <1>3, <1>4, Inv, FailStep

\* An armed retry finds a client that waits for it.
LEMMA RetryTimerStep ==
    ASSUME Inv, NEW ok \in BOOLEAN, RetryTimer(ok) PROVE Inv'
<1>1. PICK d : d = reconnect(client, ok)
  OBVIOUS
<1>2. /\ client.reconnect_timer /\ Settle(d, Nothing)
      /\ options' = options /\ issued' = issued
  BY <1>1 DEF RetryTimer, InLoop
<1>3. client.status = "Disconnected" /\ client.sock = "none" /\ ~client.deferred
  BY <1>2 DEF Inv, Good, Typed, Statuses, Dials
<1>4. /\ client.reconnecting /\ ~client.failed /\ ~client.timer
      /\ ~(client.retry_attempts > MaxRetries)
      /\ client.wire = <<>> /\ client.write_buffer = <<>> /\ client.in_flight = <<>>
  BY <1>2, <1>3 DEF Inv, Good, Dials, Replies
<1>5. Typed(client) /\ client.retry_attempts <= MaxRetries
  BY <1>4, ValkeyAssumption DEF Inv, Good, Typed
<1>6. Good(d) /\ d.queue = client.queue /\ d.in_flight = client.in_flight
  BY ONLY <1>1, <1>3, <1>4, <1>5, ok \in BOOLEAN, ReconnectEffect
<1>7. Fewer(client, d)
  BY <1>6 DEF Fewer
<1> QED BY ONLY <1>2, <1>6, <1>7, Inv, GivenUp

\* A queued close finds a client that has no socket and has not given up.
LEMMA DeferredCloseStep ==
    ASSUME Inv, DeferredClose PROVE Inv'
<1>1. PICK c : c = [client EXCEPT !.status = "Disconnected", !.deferred = FALSE]
  OBVIOUS
<1>2. PICK d : d = on_close(c)
  OBVIOUS
<1>3. /\ client.deferred /\ Settle(d, Nothing)
      /\ options' = options /\ issued' = issued
  BY <1>1, <1>2 DEF DeferredClose, InLoop
<1>4. /\ Typed(c) /\ c.in_flight = client.in_flight /\ c.write_buffer = client.write_buffer
      /\ c.queue = client.queue /\ c.wire = client.wire
      /\ c.status = "Disconnected" /\ c.sock = client.sock
      /\ c.failed = client.failed /\ c.retry_attempts = client.retry_attempts
      /\ c.reconnect_timer = client.reconnect_timer /\ ~c.deferred
  BY <1>1 DEF Inv, Good, Typed, Fields, Statuses
<1>5. /\ client.sock = "none" /\ ~client.reconnect_timer
      /\ client.status \in {"Connecting", "Connected"}
  BY <1>3 DEF Inv, Good, Dials
<1>6. ~client.failed /\ client.wire = <<>> /\ ~(client.retry_attempts > MaxRetries)
  BY <1>5 DEF Inv, Good, Dials, Replies
<1>7. Closing(c) /\ ~(c.retry_attempts > MaxRetries)
  BY ONLY <1>4, <1>5, <1>6 DEF Closing
<1>8. Good(d) /\ Fewer(c, d)
  BY ONLY <1>2, <1>7, OnClose
<1>9. Fewer(client, d)
  BY <1>4, <1>8 DEF Fewer
<1> QED BY ONLY <1>3, <1>8, <1>9, Inv, GivenUp

\* The oldest command in flight is the oldest pending one.
LEMMA TailPend ==
    ASSUME NEW c, Typed(c), c.in_flight # <<>>, NEW d, d.queue = c.queue,
           d.in_flight = Tail(c.in_flight)
    PROVE  /\ Pend(c) # <<>> /\ Head(Pend(c)) = Head(c.in_flight) /\ Pend(d) = Tail(Pend(c))
           /\ Head(c.in_flight) \in Commands
<1>1. PICK q \in Seq(Commands), f \in Seq(Commands) : q = c.queue /\ f = c.in_flight
  BY DEF Typed
<1>2. f \in Seq(Requests) /\ q \in Seq(Requests) /\ f # <<>> /\ Head(f) \in Commands
  BY <1>1, RequestSeq
<1>3. f \o q # <<>> /\ Head(f \o q) = Head(f) /\ Tail(f \o q) = Tail(f) \o q
  BY ONLY <1>2, TailJoin, Zenon
<1>4. Pend(c) = f \o q /\ Pend(d) = Tail(f) \o q
  BY ONLY <1>1, d.queue = c.queue, d.in_flight = Tail(c.in_flight) DEF Pend
<1> QED BY ONLY <1>1, <1>2, <1>3, <1>4, Zenon

\* The third case of Reply: the promise of the oldest command is resolved.
LEMMA AnsweredStep ==
    ASSUME Inv, client.wire # <<>>, client.status = "Connected", ~client.selecting,
           client.in_flight # <<>>, options' = options, issued' = issued,
           NEW e, e = Taken(client), NEW d, d = Resolved(e), NEW h, h = Head(client.in_flight),
           Settle(d, Just(h, IF h = Head(client.wire) THEN "answered" ELSE "mixed up"))
    PROVE  Inv'
<1>1. Good(client) /\ Typed(client) /\ options \in Options
  BY DEF Inv, Good
<1>2. /\ Good(d) /\ d.queue = client.queue /\ d.in_flight = Tail(client.in_flight)
      /\ h = Head(client.wire)
  BY ONLY <1>1, client.wire # <<>>, client.status = "Connected", ~client.selecting,
          client.in_flight # <<>>, e = Taken(client), d = Resolved(e),
          h = Head(client.in_flight), CommandAnswered
<1>3. Settle(d, Just(h, "answered")) /\ "answered" \in Outcomes
  BY <1>2 DEF Outcomes
<1>4. /\ Pend(client) # <<>> /\ Head(Pend(client)) = h /\ Pend(d) = Tail(Pend(client))
      /\ h \in Commands
  BY ONLY <1>1, <1>2, client.in_flight # <<>>, h = Head(client.in_flight), TailPend
<1>5. PICK p \in Seq(Commands) : p = Pend(client)
  BY PendingNow
<1>6. PICK q \in Seq(Commands) : q = Pend(d)
  BY <1>2, PendSet DEF Good
<1>7. \A y \in ToSet(p) : y # h => y \in ToSet(q)
  <2> SUFFICES ASSUME NEW y \in ToSet(p), y # h PROVE y \in ToSet(q)
    OBVIOUS
  <2>1. PICK i \in 1..Len(p) : p[i] = y
    BY ONLY y \in ToSet(p), p \in Seq(Commands), Members, Zenon
  <2>2. p # <<>> /\ h = Head(p) /\ q = Tail(p)
    BY ONLY <1>4, <1>5, <1>6
  <2>3. i # 1 /\ i - 1 \in 1..Len(q) /\ q[i - 1] = y
    BY ONLY <2>1, <2>2, y # h, p \in Seq(Commands), i \in 1..Len(p)
  <2> QED BY ONLY <2>3, q \in Seq(Commands), Members
<1>8. PICK r : r = outcome'
  OBVIOUS
<1>9. /\ client' = d /\ r \in [Commands -> Outcomes] /\ r[h] = "answered"
      /\ \A y \in Commands : y # h => r[y] = outcome[y]
  <2>1. \A y \in ToSet(Pend(client)) : y # h => y \in ToSet(Pend(d))
    BY ONLY <1>5, <1>6, <1>7, Zenon
  <2>2. Good(d) /\ h \in Commands
    BY ONLY <1>2, <1>4, Zenon
  <2> QED BY ONLY <2>1, <2>2, <1>3, <1>8, Inv, SettleOnly
<1>10. Ledger(q, r, issued)
  <2>1. Ledger(p, outcome, issued)
    BY <1>5 DEF Inv
  <2>2. p # <<>> /\ h = Head(p) /\ q = Tail(p)
    BY ONLY <1>4, <1>5, <1>6
  <2> QED BY ONLY <2>1, <2>2, <1>9, LedgerAnswered, Zenon
<1> QED BY ONLY <1>1, <1>2, <1>6, <1>8, <1>9, <1>10, options' = options, issued' = issued DEF Inv

\* A reply arrives: to HELLO, to SELECT or to a command.
LEMMA ReplyStep ==
    ASSUME Inv, NEW ok \in BOOLEAN, Reply(ok) PROVE Inv'
<1>1. PICK c : c = Taken(client)
  OBVIOUS
<1>2. /\ Good(client) /\ client.wire # <<>> /\ options' = options /\ issued' = issued
  BY DEF Inv, Reply, InLoop
<1>3. Typed(c) /\ Dials(c) /\ client.sock = "open" /\ c.sock = client.sock
  BY ONLY <1>1, <1>2, TakeReply
<1>4. c.sock # "none"
  BY <1>3
<1>5. CASE client.status # "Connected"
  <2>1. Settle(IF ok THEN Connected(c) ELSE fail(c), Nothing)
    BY <1>1, <1>5 DEF Reply, Taken
  <2>2. CASE ok
    <3>1. PICK d : d = Connected(c)
      OBVIOUS
    <3>2. Good(d) /\ d.queue = client.queue /\ d.in_flight = client.in_flight
      BY ONLY <1>1, <1>2, <1>5, <3>1, HelloAnswered
    <3>3. Pend(d) = Pend(client) /\ Settle(d, Nothing)
      BY <2>1, <2>2, <3>1, <3>2 DEF Pend
    <3> QED BY ONLY <1>2, <3>2, <3>3, Inv, AllKept
  <2>3. CASE ~ok
    BY ONLY <1>2, <1>3, <1>4, <2>1, <2>3, Inv, FailStep
  <2> QED BY <2>2, <2>3
<1>6. CASE client.status = "Connected" /\ client.selecting
  <2>1. PICK d : d = Selected(c)
    OBVIOUS
  <2>2. PICK e \in IF ok THEN UNION {Flushes(StartNext(a)) : a \in Flushes(StartNext(d))}
                    ELSE {fail(d)} : Settle(e, Nothing)
    BY <1>1, <1>6, <2>1 DEF Reply, Taken, Selected
  <2>3. Good(d) /\ d.queue = client.queue /\ d.in_flight = client.in_flight /\ d.sock = "open"
    BY ONLY <1>1, <1>2, <1>6, <2>1, SelectAnswered
  <2>4. CASE ok
    <3>1. PICK s : s = StartNext(d)
      OBVIOUS
    <3>2. Good(s) /\ Pend(s) = Pend(d)
      BY ONLY <2>3, <3>1, StartNextEffect
    <3>3. PICK a \in Flushes(s) : e \in Flushes(StartNext(a))
      BY <2>2, <2>4, <3>1
    <3>4. Good(a) /\ a.queue = s.queue /\ a.in_flight = s.in_flight
      BY ONLY <3>2, <3>3, FlushEffect
    <3>5. PICK b : b = StartNext(a)
      OBVIOUS
    <3>6. Good(b) /\ Pend(b) = Pend(a)
      BY ONLY <3>4, <3>5, StartNextEffect
    <3>7. e \in Flushes(b)
      BY ONLY <3>3, <3>5
    <3>8. Good(e) /\ e.queue = b.queue /\ e.in_flight = b.in_flight
      BY ONLY <3>6, <3>7, FlushEffect
    <3>9. Pend(e) = Pend(client)
      BY <2>3, <3>2, <3>4, <3>6, <3>8 DEF Pend
    <3> QED BY ONLY <1>2, <2>2, <3>8, <3>9, Inv, AllKept
  <2>5. CASE ~ok
    <3>1. Typed(d) /\ Dials(d) /\ d.sock # "none" /\ Settle(fail(d), Nothing)
      BY <2>2, <2>3, <2>5 DEF Good
    <3> QED BY ONLY <1>2, <3>1, Inv, FailStep
  <2> QED BY <2>4, <2>5
<1>7. CASE client.status = "Connected" /\ ~client.selecting /\ ~ok
  <2>1. Settle(fail(c), Nothing)
    BY <1>1, <1>7 DEF Reply, Taken
  <2> QED BY ONLY <1>2, <1>3, <1>4, <2>1, Inv, FailStep
<1>8. CASE client.status = "Connected" /\ ~client.selecting /\ ok
  <2>1. PICK d : d = Resolved(c)
    OBVIOUS
  <2>2. PICK h : h = Head(client.in_flight)
    OBVIOUS
  <2>3. c.in_flight = client.in_flight
    BY ONLY <1>1, <1>2, TakeReply
  <2>4. /\ client.in_flight # <<>>
        /\ Settle(d, Just(h, IF h = Head(client.wire) THEN "answered" ELSE "mixed up"))
    BY <1>1, <1>8, <2>1, <2>2, <2>3 DEF Reply, Taken, Resolved
  <2> QED BY ONLY <1>1, <1>2, <1>8, <2>1, <2>2, <2>4, Inv, AnsweredStep
<1> QED BY <1>5, <1>6, <1>7, <1>8

\* Nothing happens.
LEMMA StutterStep ==
    ASSUME Inv, UNCHANGED vars PROVE Inv'
BY DEF Inv, vars

-----------------------------------------------------------------------------
(* The theorems *)

\* Every reachable state satisfies the invariant.
THEOREM ClientInvariance == Spec => []Inv
<1>1. Inv /\ [Next]_vars => Inv'
  <2> SUFFICES ASSUME Inv, [Next]_vars PROVE Inv'
    OBVIOUS
  <2>1. CASE Script
    BY <2>1, ConnectStep, CloseStep, SendStep DEF Script
  <2>2. CASE AutoFlush
    BY <2>2, AutoFlushStep
  <2>3. CASE Dialed
    BY <2>3, OpenStep, DialFailsStep DEF Dialed
  <2>4. CASE PeerCloses
    BY <2>4, PeerClosesStep
  <2>5. CASE Continue
    BY <2>5, ContinueStep
  <2>6. CASE Writable
    BY <2>6, WritableStep
  <2>7. CASE Timeout
    BY <2>7, TimeoutStep
  <2>8. CASE DeferredClose
    BY <2>8, DeferredCloseStep
  <2>9. CASE \E ok \in BOOLEAN : Reply(ok) \/ RetryTimer(ok)
    BY <2>9, ReplyStep, RetryTimerStep
  <2>10. CASE UNCHANGED vars
    BY <2>10, StutterStep
  <2> QED BY <2>1, <2>2, <2>3, <2>4, <2>5, <2>6, <2>7, <2>8, <2>9, <2>10 DEF Next
<1> QED BY <1>1, InitInv, PTL DEF Spec

\* The state always has its type.
LEMMA ClientTypes ==
    ASSUME Inv PROVE TypeOK
<1>1. options \in Options /\ Typed(client) /\ Ledger(Pend(client), outcome, issued)
  BY DEF Inv, Good
<1>2. /\ issued \in Seq(Commands)
      /\ outcome \in [Commands -> {"none", "waiting", "answered", "rejected", "mixed up"}]
  BY ONLY <1>1 DEF Ledger, Outcomes
<1>3. {client.manually_closed, client.selecting, client.reconnecting, client.failed,
       client.promise, client.timer, client.reconnect_timer, client.deferred,
       client.flusher} \subseteq BOOLEAN
  BY ONLY <1>1 DEF Typed
<1> QED BY ONLY <1>1, <1>2, <1>3 DEF TypeOK, Typed

\* handle_response gives a reply to the command at the head of in_flight
\* without looking at what was asked: for any number of commands, connections
\* and retries it is the command the reply answers.
THEOREM AnswersFindTheirCommand == Spec => []RepliesMatch
<1>1. Inv => RepliesMatch
  <2> SUFFICES ASSUME Inv PROVE RepliesMatch
    OBVIOUS
  <2>1. \A x \in Commands : outcome[x] # "mixed up"
    BY PendingNow DEF Outcomes
  <2> QED BY <2>1 DEF RepliesMatch, Inv, Good, Replies
<1> QED BY <1>1, ClientInvariance, PTL

\* No accepted command is forgotten, sent twice or overtaken, over any number
\* of reconnects, flushes and closes.
THEOREM PendingKept == Spec => []PendingInOrder
<1>1. Inv => PendingInOrder
  <2> SUFFICES ASSUME Inv PROVE PendingInOrder
    OBVIOUS
  <2>1. PICK p \in Seq(Commands) : p = client.in_flight \o client.queue /\ p = Pend(client)
    BY PendingNow DEF Pend
  <2>2. Ledger(p, outcome, issued)
    BY <2>1 DEF Inv
  <2>3. DOMAIN issued = 1..Len(issued) /\ DOMAIN p = 1..Len(p)
    BY <2>2 DEF Ledger
  <2>4. IsInjective(issued)
    BY <2>2, <2>3 DEF Ledger, IsInjective
  <2>5. ToSet(p) = Waiting
    <3>1. \A x \in ToSet(p) : x \in Commands
      BY ONLY Members, p \in Seq(Commands)
    <3> QED BY ONLY <3>1, <2>2 DEF Ledger, Waiting
  <2>6. \A i, j \in DOMAIN p : i < j => Before(p[i], p[j])
    BY ONLY <2>2, <2>3 DEF Ledger, Precedes, Before
  <2> QED BY ONLY <2>1, <2>4, <2>5, <2>6, Inv, ClientTypes DEF PendingInOrder
<1> QED BY <1>1, ClientInvariance, PTL

\* A command that must not be pipelined is never written behind an unanswered
\* one (enqueue, send_next_command, on_auto_flush).
THEOREM SerialCommandsAlone == Spec => []SerialCommandsWait
<1>1. Inv => SerialCommandsWait
  BY DEF Inv, Good, Serial, SerialCommandsWait
<1> QED BY <1>1, ClientInvariance, PTL

\* Of three things that exclude each other there is at most one.
LEMMA AtMostOne ==
    ASSUME NEW P, NEW Q, NEW R, P \in BOOLEAN, Q \in BOOLEAN, R \in BOOLEAN,
           ~(P /\ Q), ~(P /\ R), ~(Q /\ R), NEW B, B = {i \in 1..3 : <<P, Q, R>>[i]}
    PROVE  Cardinality(B) <= 1 /\ (B = {} <=> ~P /\ ~Q /\ ~R)
           /\ (B \intersect {1, 2} # {} <=> P \/ Q)
<1>1. \A i : i \in B <=> (i = 1 /\ P) \/ (i = 2 /\ Q) \/ (i = 3 /\ R)
  <2>1. <<P, Q, R>>[1] = P /\ <<P, Q, R>>[2] = Q /\ <<P, Q, R>>[3] = R
    OBVIOUS
  <2>2. \A i : i \in 1..3 <=> i = 1 \/ i = 2 \/ i = 3
    OBVIOUS
  <2> QED BY ONLY <2>1, <2>2, B = {i \in 1..3 : <<P, Q, R>>[i]}
<1>2. B = {} \/ B = {1} \/ B = {2} \/ B = {3}
  BY <1>1
<1>3. Cardinality(B) <= 1
  <2>1. /\ Cardinality({}) = 0 /\ Cardinality({1}) = 1
        /\ Cardinality({2}) = 1 /\ Cardinality({3}) = 1
    BY FS_EmptySet, FS_Singleton
  <2> QED BY ONLY <1>2, <2>1
<1> QED BY ONLY <1>1, <1>3

\* connect(), the retry timer, the deferred close and the socket's callbacks
\* never leave two of them in charge, nor none while a promise waits.
THEOREM DialsOneAtATime == Spec => []OneDial
<1>1. Inv => OneDial
  <2> SUFFICES ASSUME Inv PROVE OneDial
    OBVIOUS
  <2>1. Typed(client) /\ Dials(client)
    BY DEF Inv, Good
  <2>2. PICK P \in BOOLEAN, Q \in BOOLEAN, R \in BOOLEAN :
          /\ P = (client.sock # "none") /\ Q = client.deferred /\ R = client.reconnect_timer
    BY <2>1 DEF Typed
  <2>3. PICK B : B = {i \in 1..3 : <<P, Q, R>>[i]}
    OBVIOUS
  <2>4. ~(P /\ Q) /\ ~(P /\ R) /\ ~(Q /\ R)
    BY <2>1, <2>2 DEF Dials
  <2>5. /\ Cardinality(B) <= 1 /\ (B = {} <=> ~P /\ ~Q /\ ~R)
        /\ (B \intersect {1, 2} # {} <=> P \/ Q)
    BY ONLY <2>3, <2>4, P \in BOOLEAN, Q \in BOOLEAN, R \in BOOLEAN, AtMostOne
  <2>6. client.status \in {"Connecting", "Connected"} <=> P \/ Q
    BY <2>1, <2>2 DEF Dials
  <2>7. client.status = "Connected" => client.sock = "open"
    BY <2>1 DEF Dials
  <2>8. ASSUME B = {} PROVE ~client.promise /\ ~client.timer /\ Waiting = {}
    <3>1. /\ client.sock = "none" /\ ~client.deferred /\ ~client.reconnect_timer
      BY <2>2, <2>5, <2>8
    <3>2. client.status = "NeverConnected" \/ client.status = "Disconnected"
      BY <2>1, <3>1 DEF Dials, Typed, Statuses
    <3>3. ~client.promise /\ ~client.timer /\ client.queue = <<>> /\ client.in_flight = <<>>
      BY <2>1, <3>1, <3>2 DEF Dials
    <3>4. Pend(client) = <<>> /\ ToSet(<<>>) = {}
      BY <3>3, ConcatEmptySeq DEF Pend, ToSet
    <3> QED BY <3>3, <3>4, PendingNow DEF Waiting
  <2>9. B = {i \in 1..3 : <<client.sock # "none", client.deferred, client.reconnect_timer>>[i]}
    BY ONLY <2>2, <2>3
  <2> QED BY ONLY <2>5, <2>6, <2>7, <2>8, <2>9, Zenon DEF OneDial
<1> QED BY <1>1, ClientInvariance, PTL

\* A promise that is settled stays as it was settled.
SettledForGood ==
    [][\A x \in Commands : outcome[x] \in {"answered", "rejected"}
                           => outcome'[x] = outcome[x]]_vars

\* Settle rejects only promises that wait,
LEMMA SettleNothing ==
    ASSUME Inv, NEW d, Settle(d, Nothing), NEW x \in Commands,
           outcome[x] \in {"answered", "rejected"}
    PROVE  outcome'[x] = outcome[x]
<1>1. DOMAIN Nothing = {} /\ x \notin Waiting
  BY DEF Nothing, Waiting
<1> QED BY <1>1 DEF Settle

\* ... and what the action settles itself was not settled before.
LEMMA SettleJust ==
    ASSUME Inv, NEW d, NEW y \in Commands, outcome[y] \in {"none", "waiting"}, NEW v,
           Settle(d, Just(y, v)), NEW x \in Commands, outcome[x] \in {"answered", "rejected"}
    PROVE  outcome'[x] = outcome[x]
<1>1. DOMAIN Just(y, v) = {y} /\ x \notin Waiting /\ x # y
  BY DEF Just, Waiting
<1> QED BY <1>1 DEF Settle

\* reject_all_pending_commands and handle_response never settle a promise
\* that was settled before.
THEOREM SettledOnlyOnce == Spec => SettledForGood
<1>1. ASSUME Inv, [Next]_vars, NEW x \in Commands, outcome[x] \in {"answered", "rejected"}
      PROVE  outcome'[x] = outcome[x]
  <2> USE <1>1
  <2>1. ASSUME NEW d, Settle(d, Nothing) PROVE outcome'[x] = outcome[x]
    BY <2>1, SettleNothing
  <2>2. CASE \E ok \in BOOLEAN : Connect(ok)
    BY <2>1, <2>2 DEF Connect
  <2>3. CASE Close
    BY <2>1, <2>3 DEF Close
  <2>4. ASSUME NEW y \in Commands, NEW ok \in BOOLEAN, Send(y, ok)
        PROVE  outcome'[x] = outcome[x]
    <3>1. outcome[y] \in {"none", "waiting"}
      BY <2>4 DEF Send
    <3>2. \E d, v : Settle(d, Just(y, v))
      BY <2>4 DEF Send
    <3> QED BY ONLY <3>1, <3>2, <1>1, SettleJust, y \in Commands
  <2>5. CASE AutoFlush
    BY <2>1, <2>5 DEF AutoFlush
  <2>6. CASE Dialed
    BY <2>1, <2>6 DEF Dialed, Open, DialFails
  <2>7. CASE PeerCloses
    BY <2>1, <2>7 DEF PeerCloses
  <2>8. CASE Continue
    BY <2>1, <2>8 DEF Continue
  <2>9. CASE Writable
    BY <2>1, <2>9 DEF Writable
  <2>10. CASE Timeout
    BY <2>1, <2>10 DEF Timeout
  <2>11. CASE DeferredClose
    BY <2>1, <2>11 DEF DeferredClose
  <2>12. CASE \E ok \in BOOLEAN : RetryTimer(ok)
    BY <2>1, <2>12 DEF RetryTimer
  <2>13. ASSUME NEW ok \in BOOLEAN, Reply(ok) PROVE outcome'[x] = outcome[x]
    <3>1. CASE \E d : Settle(d, Nothing)
      BY <2>1, <3>1
    <3>2. CASE client.in_flight # <<>> /\ \E d, v : Settle(d, Just(Head(client.in_flight), v))
      <4>1. PICK y : y = Head(client.in_flight)
        OBVIOUS
      <4>2. Typed(client)
        BY DEF Inv, Good
      <4>3. PICK d : d = [queue |-> client.queue, in_flight |-> Tail(client.in_flight)]
        OBVIOUS
      <4>9. d.queue = client.queue /\ d.in_flight = Tail(client.in_flight)
        BY ONLY <4>3
      <4>4. /\ Pend(client) # <<>> /\ Head(Pend(client)) = y /\ y \in Commands
        BY ONLY <3>2, <4>1, <4>2, <4>9, TailPend
      <4>5. PICK p \in Seq(Commands) : p = Pend(client)
        BY PendingNow
      <4>6. 1 \in 1..Len(p) /\ p[1] = y
        BY ONLY <4>4, <4>5, p \in Seq(Commands)
      <4>7. y \in ToSet(p)
        BY ONLY <4>6, Members, p \in Seq(Commands)
      <4>8. outcome[y] = "waiting"
        BY ONLY <4>4, <4>5, <4>7, PendingNow, Inv
      <4> QED BY ONLY <3>2, <4>1, <4>4, <4>8, <1>1, SettleJust
    <3> QED BY <2>13, <3>1, <3>2 DEF Reply
  <2>14. CASE UNCHANGED vars
    BY <2>14 DEF vars
  <2>15. Script => outcome'[x] = outcome[x]
    BY <2>2, <2>3, <2>4 DEF Script
  <2> QED BY ONLY <1>1, <2>5, <2>6, <2>7, <2>8, <2>9, <2>10, <2>11, <2>12, <2>13, <2>14, <2>15
          DEF Next
<1>2. Inv /\ [Next]_vars =>
        [\A x \in Commands : outcome[x] \in {"answered", "rejected"}
                             => outcome'[x] = outcome[x]]_vars
  BY <1>1
<1> QED BY <1>2, ClientInvariance, PTL DEF Spec, SettledForGood
=============================================================================
