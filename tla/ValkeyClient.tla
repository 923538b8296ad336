--------------------------- MODULE ValkeyClient ---------------------------
(* The Redis/Valkey client (runtime/valkey_jsc/valkey.rs, js_valkey.rs):     *)
(* dialling, HELLO and SELECT, the offline queue, pipelining, loss of the    *)
(* connection, retries, connect() and close() called from anywhere.          *)
(*                                                                           *)
(* One JavaScript thread runs everything.  A callback's effect on the client *)
(* is a function on the record `client'; the environment chooses what the    *)
(* kernel and the server do.  Script runs between callbacks and also inside  *)
(* on_data(), after a promise is settled: `turn' says what is still to do    *)
(* when that script returns.  TLS and subscriptions are left out.            *)
EXTENDS Naturals, SequencesExt

CONSTANTS Commands,       \* commands the script sends, each once
          Pipelined,      \* those with SUPPORTS_AUTO_PIPELINING
          MaxRetries,     \* max_retries
          MaxConnects,    \* bound on calls of connect()
          MaxDrops        \* bound on connections lost after they opened

ASSUME ValkeyAssumption ==
    /\ IsFiniteSet(Commands) /\ Pipelined \subseteq Commands
    /\ Commands \intersect {"HELLO", "SELECT"} = {}
    /\ MaxRetries \in Nat /\ MaxConnects \in Nat /\ MaxDrops \in Nat

VARIABLES options,        \* the options of the constructor, fixed
          client,         \* ValkeyClient and JSValkeyClient
          outcome,        \* Commands -> none, waiting, answered, rejected, mixed up
          issued,         \* history: commands accepted by send(), in order
          connects, drops \* counters of the bounds

vars == <<options, client, outcome, issued, connects, drops>>

Options == [auto_reconnect : BOOLEAN, offline_queue : BOOLEAN,
            auto_pipelining : BOOLEAN, database : BOOLEAN]

(* sock: none, dialing or open.  wire: requests the kernel took and the      *)
(* server has not answered.  promise: connect()'s promise is pending.        *)
(* deferred: a ValkeyDeferredClose is queued.  turn: loop, or reply while    *)
(* on_data() is still to call send_next_command().                           *)
Init ==
    /\ options \in Options
    /\ client = [status |-> "NeverConnected", sock |-> "none", manually_closed |-> FALSE,
                 selecting |-> FALSE, reconnecting |-> FALSE, failed |-> FALSE,
                 retry_attempts |-> 0, queue |-> <<>>, in_flight |-> <<>>,
                 write_buffer |-> <<>>, wire |-> <<>>, promise |-> FALSE,
                 timer |-> FALSE, reconnect_timer |-> FALSE, deferred |-> FALSE,
                 flusher |-> FALSE, turn |-> "loop"]
    /\ outcome = [x \in Commands |-> "none"]
    /\ issued = <<>>
    /\ connects = 0 /\ drops = 0

Waiting == {x \in Commands : outcome[x] = "waiting"}

-----------------------------------------------------------------------------
(* The close path.  These functions only take commands out of the queues;    *)
(* Settle, below, rejects what is in neither queue any more.                 *)

reject_all_pending_commands(c) == [c EXCEPT !.queue = <<>>, !.in_flight = <<>>]

\* fail() with no socket left to close.
MarkFailed(c) ==
    IF c.failed THEN c
    ELSE [reject_all_pending_commands(c) EXCEPT !.failed = TRUE, !.reconnecting = FALSE]

\* The pending connect() is rejected; onclose is called (script, see turn).
on_valkey_close(c) == [c EXCEPT !.timer = FALSE, !.promise = FALSE]

\* Faulty: a lost connection keeps its unanswered commands.
on_close_keeping(c) ==
    LET d == [c EXCEPT !.flusher = FALSE, !.write_buffer = <<>>, !.retry_attempts = @ + 1]
    IN  IF c.manually_closed \/ c.failed \/ ~options.auto_reconnect \/ c.retry_attempts = MaxRetries
        THEN on_valkey_close(MarkFailed(d))
        ELSE [d EXCEPT !.reconnecting = TRUE, !.selecting = FALSE, !.timer = FALSE,
                       !.reconnect_timer = TRUE]

on_close(c) ==
    LET cleared == [c EXCEPT !.flusher = FALSE, !.write_buffer = <<>>]
        counted == [cleared EXCEPT !.retry_attempts = @ + 1]
    IN  IF c.manually_closed \/ c.failed \/ ~options.auto_reconnect
        THEN on_valkey_close(MarkFailed(cleared))
        ELSE IF counted.retry_attempts > MaxRetries
        THEN on_valkey_close(MarkFailed(counted))
        ELSE [counted EXCEPT !.reconnecting = TRUE, !.selecting = FALSE,
                             !.in_flight = <<>>, !.timer = FALSE, !.reconnect_timer = TRUE]

\* SocketHandler::on_close and on_connect_error.  on_data() in progress returns.
SocketClosed(c) ==
    on_close([c EXCEPT !.sock = "none", !.status = "Disconnected", !.wire = <<>>,
                       !.turn = "loop"])

\* ValkeyClient::close: the close callback has run when it returns.
close(c) == IF c.sock = "none" THEN c ELSE SocketClosed(c)

fail(c) == IF c.failed THEN c ELSE close(MarkFailed(c))

-----------------------------------------------------------------------------
(* Dialling *)

\* JSValkeyClient::connect with what its callers do after it: the dial is
\* under way, or it failed outright and its close is left to a task.
dial(c, ok) ==
    IF ok THEN [c EXCEPT !.status = "Connecting", !.sock = "dialing", !.timer = TRUE]
    ELSE [c EXCEPT !.status = "Connecting", !.deferred = TRUE]

\* Faulty: a retry still armed when connect() dials.
reconnect_armed(c, ok) ==
    IF ~c.reconnecting \/ c.status # "Disconnected" \/ c.sock # "none" THEN c
    ELSE dial(c, ok)

\* (A VM that is exiting does not redial; none is exiting here.)
reconnect(c, ok) ==
    LET d == [c EXCEPT !.reconnect_timer = FALSE]
    IN  IF ~d.reconnecting \/ d.status # "Disconnected" \/ d.sock # "none" THEN d
        ELSE dial(d, ok)

do_connect(c, ok) ==
    LET d == [c EXCEPT !.promise = TRUE, !.manually_closed = FALSE, !.failed = FALSE]
    IN  IF c.status = "Connected" \/ c.promise THEN c
        ELSE CASE c.status = "NeverConnected" -> dial(d, ok)
               [] c.status = "Disconnected" ->
                    reconnect([d EXCEPT !.reconnecting = TRUE, !.retry_attempts = 0], ok)
               [] OTHER -> d

\* JSValkeyClient::close, disconnect and cancel_reconnect.
close_call(c) ==
    LET d == [c EXCEPT !.manually_closed = TRUE, !.flusher = FALSE]
    IN  CASE c.status \in {"Connected", "Connecting"} -> close(d)
          [] c.status = "Disconnected" /\ c.reconnecting ->
               on_close([d EXCEPT !.reconnect_timer = FALSE])
          [] OTHER -> c

-----------------------------------------------------------------------------
(* Commands *)

connection_ready(c) == c.status = "Connected" /\ ~c.selecting

\* flush_data: the kernel takes some of the buffer (whole requests, here).
Flushes(c) ==
    {[c EXCEPT !.wire = @ \o SubSeq(c.write_buffer, 1, k),
               !.write_buffer = SubSeq(@, k + 1, Len(@))] :
        k \in IF c.sock = "open" THEN 0..Len(c.write_buffer) ELSE {0}}

\* The first n commands go from the queue to the write buffer.
Start(c, n) ==
    [c EXCEPT !.in_flight = @ \o SubSeq(c.queue, 1, n),
              !.write_buffer = @ \o SubSeq(c.queue, 1, n),
              !.queue = SubSeq(@, n + 1, Len(@))]

HeadPipelined(c) == c.queue # <<>> /\ Head(c.queue) \in Pipelined

\* Faulty: a command that cannot be pipelined never leaves the queue.
StartNextPipelined(c) ==
    IF c.write_buffer = <<>> /\ connection_ready(c) /\ HeadPipelined(c)
    THEN [c EXCEPT !.flusher = TRUE] ELSE c

\* send_next_command, but for its flush_data.
StartNext(c) ==
    IF c.write_buffer # <<>> \/ ~connection_ready(c) \/ c.queue = <<>> THEN c
    ELSE IF HeadPipelined(c) THEN [c EXCEPT !.flusher = TRUE]
    ELSE IF c.in_flight # <<>> THEN c
    ELSE LET d == Start(c, 1) IN [d EXCEPT !.flusher = @ \/ HeadPipelined(d)]

\* Faulty: a command that is not pipelined overtakes the queue.
enqueue_direct(c, x) ==
    IF connection_ready(c) /\ x \notin Pipelined
    THEN [c EXCEPT !.in_flight = Append(@, x), !.write_buffer = Append(@, x)]
    ELSE [c EXCEPT !.queue = Append(@, x), !.flusher = @ \/ c.status = "Connected"]

enqueue(c, x) ==
    LET can_pipeline == x \in Pipelined /\ options.auto_pipelining
    IN  IF can_pipeline \/ c.queue # <<>> \/ c.in_flight # <<>> \/ ~connection_ready(c)
        THEN [c EXCEPT !.queue = Append(@, x),
                       !.flusher = @ \/ (c.status = "Connected" /\ can_pipeline)]
        ELSE [c EXCEPT !.in_flight = Append(@, x), !.write_buffer = Append(@, x)]

\* Faulty: the whole queue is flushed.
pipelineable_all(c) == Len(c.queue)

\* The leading commands of the queue that can be pipelined.
pipelineable_count(c) ==
    LET blocked == {i \in DOMAIN c.queue : c.queue[i] \notin Pipelined}
    IN  IF blocked = {} THEN Len(c.queue)
        ELSE (CHOOSE i \in blocked : \A j \in blocked : i <= j) - 1

-----------------------------------------------------------------------------
(* Steps.  Settle closes the books: what is no longer queued is rejected,    *)
(* except the commands in `done', which the action has settled itself.       *)

Settle(result, done) ==
    /\ client' = result
    /\ outcome' = [x \in Commands |->
            IF x \in DOMAIN done THEN done[x]
            ELSE IF x \in Waiting \ (ToSet(result.queue) \union ToSet(result.in_flight))
                 THEN "rejected" ELSE outcome[x]]

Nothing == [x \in {} |-> "none"]
Just(x, v) == [y \in {x} |-> v]

\* Script calls connect().
Connect(ok) ==
    /\ connects < MaxConnects
    /\ connects' = connects + 1
    /\ Settle(do_connect(client, ok), Nothing)
    /\ UNCHANGED <<options, issued, drops>>

\* Script calls close().
Close ==
    /\ Settle(close_call(client), Nothing)
    /\ UNCHANGED <<options, issued, connects, drops>>

\* Script sends command x; the first command dials.
Send(x, ok) ==
    LET c == IF client.status = "NeverConnected" THEN dial(client, ok) ELSE client
        e == enqueue(c, x)
        rejected == c.failed \/ (c.status # "Connected" /\ ~options.offline_queue)
    IN  /\ outcome[x] = "none"
        /\ IF rejected
           THEN Settle(c, Just(x, "rejected")) /\ UNCHANGED issued
           ELSE /\ \E d \in IF e.in_flight = c.in_flight THEN {e} ELSE Flushes(e) :
                      Settle(d, Just(x, "waiting"))
                /\ issued' = Append(issued, x)
        /\ UNCHANGED <<options, connects, drops>>

\* on_auto_flush, from the deferred task queue after a turn's microtasks.
AutoFlush ==
    /\ client.flusher
    /\ IF client.status # "Connected" THEN Settle([client EXCEPT !.flusher = FALSE], Nothing)
       ELSE \E d \in Flushes(Start(client, pipelineable_count(client))) :
                Settle([d EXCEPT !.flusher = d.queue # <<>>], Nothing)
    /\ UNCHANGED <<options, issued, connects, drops>>

-----------------------------------------------------------------------------
(* Events of the socket, of the timers and of the task queue *)

InLoop == client.turn = "loop" /\ UNCHANGED <<options, issued, connects>>

\* on_open, start, authenticate.
Open ==
    LET hello == [client EXCEPT !.sock = "open", !.failed = FALSE,
                                !.selecting = options.database,
                                !.write_buffer = IF options.database
                                                 THEN <<"HELLO", "SELECT">> ELSE <<"HELLO">>]
    IN  /\ client.sock = "dialing"
        /\ \E d \in Flushes(hello) : Settle(d, Nothing)
        /\ InLoop /\ UNCHANGED drops

\* on_connect_error.
DialFails ==
    /\ client.sock = "dialing"
    /\ Settle(SocketClosed(client), Nothing)
    /\ InLoop /\ UNCHANGED drops

\* The peer or the network ends the connection.
PeerCloses ==
    /\ client.sock = "open" /\ drops < MaxDrops
    /\ drops' = drops + 1
    /\ Settle(SocketClosed(client), Nothing)
    /\ InLoop

\* on_valkey_connect.  The timer counts idle time from here on; an interval of
\* zero, which arms nothing, is a timer that never fires.
Connected(c) ==
    [c EXCEPT !.status = "Connected", !.reconnecting = FALSE, !.retry_attempts = 0,
              !.promise = FALSE, !.timer = TRUE, !.turn = "reply"]

\* handle_response for the oldest unanswered request.  Who is answered is
\* decided by the client's own state, not by what was asked.  The answer to
\* HELLO or SELECT may be an error, the one to a command malformed.  After
\* SELECT, send_next_command() is called there and again by on_data().
Reply(ok) ==
    LET r == Head(client.wire)
        c == [client EXCEPT !.wire = Tail(@)]
    IN  /\ client.wire # <<>>
        /\ \/ /\ client.status # "Connected"
              /\ Settle(IF ok THEN Connected(c) ELSE fail(c), Nothing)
           \/ /\ client.status = "Connected" /\ client.selecting
              /\ LET d == [c EXCEPT !.selecting = FALSE]
                 IN  \E e \in IF ok THEN UNION {Flushes(StartNext(s)) : s \in Flushes(StartNext(d))}
                              ELSE {fail(d)} :
                         Settle(e, Nothing)
           \/ /\ ~ok /\ client.status = "Connected" /\ ~client.selecting
              /\ Settle(fail(c), Nothing)
           \/ /\ ok /\ client.status = "Connected" /\ ~client.selecting
              /\ client.in_flight # <<>>
              /\ LET h == Head(client.in_flight)
                 IN  Settle([c EXCEPT !.in_flight = Tail(@), !.turn = "reply"],
                            Just(h, IF h = r THEN "answered" ELSE "mixed up"))
        /\ InLoop /\ UNCHANGED drops

\* on_data() goes on after the script the reply resumed.
Continue ==
    /\ client.turn = "reply"
    /\ \E d \in Flushes(StartNext(client)) : Settle([d EXCEPT !.turn = "loop"], Nothing)
    /\ UNCHANGED <<options, issued, connects, drops>>

\* on_writable: the kernel takes more of the buffer.
Writable ==
    /\ client.sock = "open" /\ client.write_buffer # <<>>
    /\ \E d \in Flushes(StartNext(client)) : d # client /\ Settle(d, Nothing)
    /\ InLoop /\ UNCHANGED drops

\* on_connection_timeout.
Timeout ==
    /\ client.timer
    /\ Settle(fail([client EXCEPT !.timer = FALSE]), Nothing)
    /\ InLoop /\ UNCHANGED drops

\* on_reconnect_timer.
RetryTimer(ok) ==
    /\ client.reconnect_timer
    /\ Settle(reconnect(client, ok), Nothing)
    /\ InLoop /\ UNCHANGED drops

\* ValkeyDeferredClose::run for a dial that failed outright.
DeferredClose ==
    /\ client.deferred
    /\ Settle(on_close([client EXCEPT !.status = "Disconnected", !.deferred = FALSE]), Nothing)
    /\ InLoop /\ UNCHANGED drops

Script == \/ \E ok \in BOOLEAN : Connect(ok)
          \/ Close
          \/ \E x \in Commands, ok \in BOOLEAN : Send(x, ok)

Dialed == Open \/ DialFails

Next == \/ Script \/ AutoFlush \/ Dialed \/ PeerCloses \/ Continue \/ Writable \/ Timeout
        \/ DeferredClose
        \/ \E ok \in BOOLEAN : Reply(ok) \/ RetryTimer(ok)

(* The kernel ends a dial, the server answers, timers and queued tasks run;  *)
(* script need not do anything, nor need anything time out.                  *)
Fairness == /\ WF_vars(Dialed) /\ WF_vars(Continue) /\ WF_vars(AutoFlush)
            /\ WF_vars(Writable) /\ WF_vars(DeferredClose)
            /\ WF_vars(\E ok \in BOOLEAN : Reply(ok))
            /\ WF_vars(\E ok \in BOOLEAN : RetryTimer(ok))

Spec == Init /\ [][Next]_vars /\ Fairness

-----------------------------------------------------------------------------
(* Properties *)

Statuses == {"NeverConnected", "Disconnected", "Connecting", "Connected"}

Requests == Commands \union {"HELLO", "SELECT"}

\* The state has its type.
TypeOK ==
    /\ options \in Options
    /\ client.status \in Statuses /\ client.sock \in {"none", "dialing", "open"}
    /\ client.queue \in Seq(Commands) /\ client.in_flight \in Seq(Commands)
    /\ client.write_buffer \in Seq(Requests) /\ client.wire \in Seq(Requests)
    /\ client.retry_attempts \in 0..(MaxRetries + 1)
    /\ client.turn \in {"loop", "reply"}
    /\ {client.manually_closed, client.selecting, client.reconnecting, client.failed,
        client.promise, client.timer, client.reconnect_timer, client.deferred,
        client.flusher} \subseteq BOOLEAN
    /\ outcome \in [Commands -> {"none", "waiting", "answered", "rejected", "mixed up"}]
    /\ issued \in Seq(Commands)

\* What is still to be answered before the first command is.
Handshake(c) ==
    IF c.status # "Connected" THEN IF c.selecting THEN <<"HELLO", "SELECT">> ELSE <<"HELLO">>
    ELSE IF c.selecting THEN <<"SELECT">> ELSE <<>>

\* Replies carry no name, so in_flight must list exactly the commands written
\* to the current connection and not answered yet, in order and behind what is
\* left of the handshake, whatever was closed, redialled, selected or flushed
\* in between: a reply resolves the promise of the command it answers.
RepliesMatch ==
    /\ client.sock = "open" =>
          client.wire \o client.write_buffer = Handshake(client) \o client.in_flight
    /\ client.sock # "open" =>
          client.wire = <<>> /\ client.write_buffer = <<>> /\ client.in_flight = <<>>
    /\ \A x \in Commands : outcome[x] # "mixed up"

\* send() accepted x before y.
Before(x, y) == \E k, l \in DOMAIN issued : k < l /\ issued[k] = x /\ issued[l] = y

\* Every promise send() left pending is in exactly one place of one queue,
\* and the two queues together are in the order of the calls: no command is
\* forgotten, sent twice over a reconnect, or overtaken.
PendingInOrder ==
    LET pending == client.in_flight \o client.queue
    IN  /\ TypeOK /\ IsInjective(issued)
        /\ ToSet(pending) = Waiting
        /\ \A i, j \in DOMAIN pending : i < j => Before(pending[i], pending[j])

\* A command that must not be pipelined is written only when everything
\* before it has been answered (enqueue, drain, on_auto_flush).
SerialCommandsWait ==
    \A i \in DOMAIN client.in_flight : client.in_flight[i] \notin Pipelined => i = 1

\* One dial at a time, and nothing left behind: a client that is waiting for
\* a connection has a socket, a queued close or an armed retry, never two of
\* them, and a client that has none of them has given up and settled
\* connect()'s promise.
OneDial ==
    LET owners == <<client.sock # "none", client.deferred, client.reconnect_timer>>
        busy == {i \in 1..3 : owners[i]}
    IN  /\ Cardinality(busy) <= 1
        /\ client.status \in {"Connecting", "Connected"} <=> busy \intersect {1, 2} # {}
        /\ client.status = "Connected" => client.sock = "open"
        /\ busy = {} => ~client.promise /\ ~client.timer /\ Waiting = {}

\* Every promise is settled: a command that send() accepted is answered or
\* rejected, and connect() ends one way or the other.
PromisesSettle ==
    /\ \A x \in Commands : (outcome[x] = "waiting") ~> (outcome[x] # "waiting")
    /\ client.promise ~> ~client.promise
=============================================================================
