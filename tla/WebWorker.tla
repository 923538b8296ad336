----------------------------- MODULE WebWorker -----------------------------
(* A worker thread from its start to its join (jsc/web_worker.rs), with the  *)
(* parent's terminate() at any moment.  It composes the thread's life with   *)
(* the door of its VM: every step of the worker, of its jobs and of other    *)
(* threads is a step of VmHandle or leaves the door alone.                   *)
(*                                                                           *)
(* The thread has two event loops with the same turns: spin()'s own, which   *)
(* the flag requested_terminate ends, and the one of on_before_exit(), which *)
(* the state of the handle ends; `drain' tells which one a turn belongs to.  *)
(* An error nobody handled and process.exit() run the exit handlers inside   *)
(* whatever script they come from, while the handle is still published;      *)
(* `ending' tells that the thread is in there.                               *)
EXTENDS VmHandle

VARIABLES worker,                \* where the worker thread is
          drain,                 \* on_before_exit's loop: no, fresh, ran (`dispatch')
          ending,                \* none, last words, exiting
          parent,                \* where the parent is in request_termination()
          vm_handle,             \* the handle is published to the parent
          requested_terminate,
          terminated_by_parent,
          exit_called,           \* process.exit() got as far as exit()
          m_isExiting,           \* the exit handlers have been dispatched
          errors,                \* unhandled_error_counter > 0
          failed,                \* the entry point could not be loaded
          server,                \* something other than a job keeps the loop alive
          kept,                  \* jobs whose keep-alive a loop can still see
          asked                  \* history: the parent asked while the handle was published

flags == <<requested_terminate, terminated_by_parent, exit_called, m_isExiting, errors, failed,
           server, kept, asked>>
own == <<worker, drain, ending, parent, vm_handle, flags>>
allvars == <<vars, own>>

WInit == /\ Init
         /\ worker = "start" /\ drain = "no" /\ ending = "none"
         /\ parent = "idle" /\ vm_handle = FALSE
         /\ requested_terminate = FALSE /\ terminated_by_parent = FALSE
         /\ exit_called = FALSE /\ m_isExiting = FALSE
         /\ errors = FALSE /\ failed = FALSE /\ server = FALSE
         /\ kept = {} /\ asked = FALSE

\* request_termination() holds the lock of vm_handle from its first step on.
HandleLockFree == parent = "idle"

script_allowed == state = "Open"

\* The thread goes on to l, out of any exit handlers and, at shutdown(), out of
\* on_before_exit().
To(l) == /\ ending = "none"
         /\ worker' = l
         /\ drain' = IF l = "shutdown" THEN "no" ELSE drain
         /\ UNCHANGED <<ending, parent, vm_handle, flags>>

-----------------------------------------------------------------------------
(* The parent: worker.terminate() *)

\* A call that finds the flag set returns false.
RequestAgain == /\ parent = "idle" /\ requested_terminate
                /\ UNCHANGED allvars

\* The lock is taken and then the flag is set; one step, as the lock alone only
\* keeps the worker out.
RequestFlag ==
    /\ parent = "idle" /\ ~requested_terminate
    /\ parent' = IF vm_handle THEN "flagged" ELSE "idle"
    /\ requested_terminate' = TRUE
    /\ asked' = (asked \/ vm_handle)
    /\ UNCHANGED <<vars, worker, drain, ending, vm_handle, terminated_by_parent, exit_called,
                   m_isExiting, errors, failed, server, kept>>

MarkStopped == /\ parent = "flagged" /\ parent' = "marked"
               /\ terminated_by_parent' = TRUE
               /\ UNCHANGED <<vars, worker, drain, ending, vm_handle, requested_terminate,
                              exit_called, m_isExiting, errors, failed, server, kept, asked>>

RequestStop == /\ parent = "marked" /\ parent' = "stopped"
               /\ stop
               /\ UNCHANGED <<worker, drain, ending, vm_handle, flags>>

RequestEnter == /\ parent = "stopped"
                /\ Enter(Parent)
                /\ UNCHANGED own

Return == /\ parent = "stopped" /\ pc[Parent] = "done" /\ parent' = "idle"
          /\ UNCHANGED <<vars, worker, drain, ending, vm_handle, flags>>

ParentStep == MarkStopped \/ RequestStop \/ RequestEnter \/ Return

-----------------------------------------------------------------------------
(* The start of the thread, and its script *)

\* thread_main, start_vm: the flag is looked at before a VM is built.
Begin == /\ worker = "start"
         /\ To(IF requested_terminate THEN "stillborn" ELSE "init")
         /\ UNCHANGED vars

Publish == /\ worker = "init" /\ worker' = "spin"
           /\ HandleLockFree
           /\ vm_handle' = TRUE
           /\ UNCHANGED <<vars, drain, ending, parent, flags>>

SpinBegins == /\ worker = "spin"
              /\ To(IF requested_terminate THEN "shutdown" ELSE "entry")
              /\ UNCHANGED vars

\* The defines cannot be configured, or the entry cannot be resolved or loaded.
EntryFails == /\ worker \in {"spin", "entry"} /\ ending = "none"
              /\ failed' = TRUE /\ worker' = "shutdown"
              /\ requested_terminate' = (requested_terminate \/ worker = "spin")
              /\ UNCHANGED <<vars, drain, ending, parent, vm_handle, terminated_by_parent,
                             exit_called, m_isExiting, errors, server, kept, asked>>

\* Script runs here: the entry point, tasks, immediates and I/O callbacks, the
\* listeners of beforeExit, the exit handlers of shutdown(), and what a fatal
\* error or process.exit() runs.
Scripting == {"entry", "first tick", "tick", "poll", "callbacks", "before exit",
              "exit handlers"}
InHandlers == worker = "exit handlers" \/ ending # "none"
ScriptRuns == worker \in Scripting \/ InHandlers

\* Script starts work that leaves the thread (Job::schedule).  No loop looks at
\* what the exit handlers of shutdown() start.
StartJob(j) == /\ ScriptRuns
               /\ Start(j)
               /\ kept' = IF worker = "exit handlers" THEN kept ELSE kept \union {j}
               /\ UNCHANGED <<worker, drain, ending, parent, vm_handle, requested_terminate,
                              terminated_by_parent, exit_called, m_isExiting, errors, failed,
                              server, asked>>

\* Script begins to listen on something, or closes it.
Listen == /\ worker \in Scripting /\ ending = "none"
          /\ server' = ~server
          /\ UNCHANGED <<vars, worker, drain, ending, parent, vm_handle, requested_terminate,
                         terminated_by_parent, exit_called, m_isExiting, errors, failed, kept,
                         asked>>

\* The parent's request to terminate raises the trap between Admit and Wakeup:
\* it has done so, or may have.
TrapRaised == pc[Parent] \notin {"idle", "entered", "wakeup"}
TrapPossible == pc[Parent] \notin {"idle", "entered"}

\* process.exit() runs the exit handlers where it was called, once in the
\* worker's life and not under a trap.
ExitBegins == /\ ScriptRuns /\ ending = "none" /\ ~m_isExiting /\ ~TrapRaised
              /\ ending' = "exiting" /\ m_isExiting' = TRUE
              /\ UNCHANGED <<vars, worker, drain, parent, vm_handle, requested_terminate,
                             terminated_by_parent, exit_called, errors, failed, server, kept,
                             asked>>

\* reallyExit(): the stop is requested only while the thread's VM is set.
exit == /\ exit_called' = TRUE /\ requested_terminate' = TRUE /\ m_isExiting' = TRUE
        /\ IF worker = "exit handlers" THEN UNCHANGED vars ELSE StopSelf
        /\ UNCHANGED <<worker, drain, parent, vm_handle, terminated_by_parent, errors, failed,
                       server, kept, asked>>

ExitEnds == ending = "exiting" /\ exit /\ ending' = "none"

\* The trap ends the handlers, and reallyExit() is not reached.
ExitCut == /\ ending = "exiting" /\ TrapPossible
           /\ ending' = "none"
           /\ UNCHANGED <<vars, worker, drain, parent, vm_handle, flags>>

\* Called by script, or by process.exit() when the handlers had their turn; not
\* by a script that has stopped its own worker.
ReallyExit == /\ ScriptRuns /\ ending # "exiting" /\ ~exit_called
              /\ m_isExiting => InHandlers
              /\ exit /\ UNCHANGED ending

\* uncaught_exception, on_unhandled_rejection: nobody handled an error, and the
\* VM is not stopped.  The error is counted and the exit handlers run at once;
\* when they have run, the worker is stopped at once, and if this is one of them
\* the trap may end the rest.
NotHandled ==
    /\ script_allowed
    /\ errors' = TRUE
    /\ IF m_isExiting
       THEN /\ ending' \in {ending, "none"}
            /\ requested_terminate' = TRUE /\ UNCHANGED m_isExiting
            /\ StopSelf
       ELSE /\ ending' = "last words" /\ m_isExiting' = TRUE
            /\ UNCHANGED <<vars, requested_terminate>>
    /\ UNCHANGED <<drain, parent, vm_handle, terminated_by_parent, exit_called, failed, server,
                   kept, asked>>

Uncaught == /\ worker \in Scripting \ {"exit handlers"} /\ ending # "last words"
            /\ NotHandled
            /\ UNCHANGED worker

LastWordsDone ==
    /\ ending = "last words" /\ ending' = "none"
    /\ requested_terminate' = TRUE
    /\ StopSelf
    /\ UNCHANGED <<worker, drain, parent, vm_handle, terminated_by_parent, exit_called,
                   m_isExiting, errors, failed, server, kept, asked>>

EndingStep == ExitEnds \/ LastWordsDone

-----------------------------------------------------------------------------
(* The loops *)

EntryLoaded == /\ worker = "entry"
               /\ IF requested_terminate THEN To("shutdown") /\ UNCHANGED vars
                  ELSE To("first tick") /\ TickConcurrent

\* observe_entry: the entry's promise was rejected, and nobody handled it or
\* the worker was told to end.  Only spin()'s own loop looks.
EntryRejected == /\ worker \in {"entry", "loop", "poll"} /\ drain = "no" /\ ending = "none"
                 /\ worker' = "shutdown"
                 /\ \/ NotHandled
                    \/ /\ requested_terminate
                       /\ UNCHANGED <<vars, drain, ending, parent, vm_handle, flags>>

HasTasks == \E x \in Tasks : task[x] \in {"queued", "taken"}
LoopActive == server \/ \E j \in kept : task[j] \notin {"run", "released"}

is_event_loop_alive == ~errors /\ (HasTasks \/ LoopActive)

\* The head of spin()'s loop; when it is over, on_before_exit() is called,
\* which dispatches beforeExit.
LoopTest == /\ worker = "loop" /\ drain = "no"
            /\ IF is_event_loop_alive THEN To("tick") /\ TickConcurrent
               ELSE /\ IF requested_terminate \/ errors THEN To("shutdown")
                       ELSE /\ ending = "none"
                            /\ worker' = "before exit" /\ drain' = "fresh"
                            /\ UNCHANGED <<ending, parent, vm_handle, flags>>
                    /\ UNCHANGED vars

\* Faulty: what a beforeExit listener started is not looked at.
BeforeExitOnce == /\ worker = "before exit"
                  /\ To("shutdown")
                  /\ UNCHANGED vars

BeforeExitDone == /\ worker = "before exit"
                  /\ To("loop")
                  /\ UNCHANGED vars

\* What ends a loop before its time: the flag, in spin(); the state, in
\* on_before_exit().  Faulty: the latter goes on while there is work.
ToldToEndBySpin == drain = "no" /\ requested_terminate

ToldToEnd == IF drain = "no" THEN requested_terminate ELSE ~script_allowed

\* The head of on_before_exit()'s loop: a stop ends it, and beforeExit is
\* dispatched again when it ran dry after a turn.  (`dispatch' is set at the
\* beginning of the turn; nothing looks at it before the end.)
DrainTest ==
    /\ worker = "loop" /\ drain # "no" /\ ending = "none"
    /\ CASE is_event_loop_alive /\ ~ToldToEnd ->
              worker' = "tick" /\ drain' = "ran" /\ TickConcurrent
         [] ~is_event_loop_alive /\ drain = "ran" /\ ~errors /\ script_allowed ->
              worker' = "before exit" /\ drain' = "fresh" /\ UNCHANGED vars
         [] OTHER ->
              worker' = "shutdown" /\ drain' = "no" /\ UNCHANGED vars
    /\ UNCHANGED <<ending, parent, vm_handle, flags>>

\* tick(): what is queued when it begins is run, later batches up to a limit;
\* a termination ends the turn where it is.
TickTake == /\ worker \in {"first tick", "tick"} /\ ending = "none" /\ Queued # {}
            /\ TickConcurrent
            /\ UNCHANGED own

TickRun(x) == /\ worker \in {"first tick", "tick"} /\ ending = "none"
              /\ RunTask(x)
              /\ UNCHANGED own

\* Faulty: the turn may end with tasks it took and did not run.
TickEndsAtOnce == /\ worker \in {"first tick", "tick"}
                  /\ To(CASE worker = "first tick" -> "loop"
                          [] worker = "tick" /\ ToldToEnd -> "shutdown"
                          [] OTHER -> "poll")
                  /\ UNCHANGED vars

TickEnds == /\ worker \in {"first tick", "tick"}
            /\ ~script_allowed \/ \A x \in Tasks : task[x] # "taken"
            /\ To(CASE worker = "first tick" -> "loop"
                    [] worker = "tick" /\ ToldToEnd -> "shutdown"
                    [] OTHER -> "poll")
            /\ UNCHANGED vars

\* auto_tick_active: with nothing to keep the loop alive, or something to do,
\* the poll does not block.
PollReady == /\ worker = "poll"
             /\ HasTasks \/ ~LoopActive
             /\ Poll(FALSE)
             /\ To("callbacks")

PollBlocks == /\ worker = "poll"
              /\ ~HasTasks /\ LoopActive
              /\ To("asleep")
              /\ UNCHANGED vars

PollReturns == /\ worker = "asleep" /\ woken
               /\ Poll(FALSE)
               /\ To("callbacks")

\* A timer or the socket of the server ends the poll.
IoEvent == /\ worker = "asleep" /\ server
           /\ To("callbacks")
           /\ UNCHANGED vars

PollEnds == /\ worker = "callbacks"
            /\ To(IF drain = "no" /\ requested_terminate THEN "shutdown" ELSE "loop")
            /\ UNCHANGED vars

-----------------------------------------------------------------------------
(* shutdown() *)

\* Faulty: the handle is taken back without its lock.
UnpublishUnlocked == /\ worker = "shutdown" /\ ending = "none" /\ worker' = "on exit"
                     /\ vm_handle' = FALSE
                     /\ UNCHANGED <<vars, drain, ending, parent, flags>>

Unpublish == /\ worker = "shutdown" /\ ending = "none" /\ worker' = "on exit"
             /\ HandleLockFree
             /\ vm_handle' = FALSE
             /\ UNCHANGED <<vars, drain, ending, parent, flags>>

stopped_by_parent == terminated_by_parent /\ ~exit_called

\* on_exit: the exit handlers run unless the worker was stopped, by its parent
\* or by itself, or they have run; it ends with stop().
OnExit ==
    /\ worker = "on exit"
    /\ IF stopped_by_parent \/ ~script_allowed \/ m_isExiting
       THEN To("teardown") /\ stop
       ELSE /\ worker' = "exit handlers" /\ m_isExiting' = TRUE
            /\ UNCHANGED <<vars, drain, ending, parent, vm_handle, requested_terminate,
                           terminated_by_parent, exit_called, errors, failed, server, kept,
                           asked>>

HandlersDone == /\ worker = "exit handlers"
                /\ To("teardown")
                /\ stop

\* teardown: script is forbidden, what listens is closed, close_and_wait begins.
\* What the script's process object and the loop kept is of no use any more.
Teardown == /\ worker = "teardown"
            /\ Drain
            /\ worker' = "closing"
            /\ server' = FALSE /\ m_isExiting' = FALSE /\ errors' = FALSE
            /\ UNCHANGED <<drain, ending, parent, vm_handle, requested_terminate,
                           terminated_by_parent, exit_called, failed, kept, asked>>

Closing == CloseStep /\ UNCHANGED own

ClosingTimesOut == WaitTimesOut /\ UNCHANGED own

\* workerGlobalScopeDestroyed, from which the parent joins the thread.
Join == /\ worker = "stillborn" \/ (worker = "closing" /\ js = "freed")
        /\ To("joined")
        /\ UNCHANGED vars

WorkerStep == \/ Begin \/ Publish \/ SpinBegins \/ EntryLoaded \/ EndingStep
              \/ LoopTest \/ DrainTest \/ TickTake \/ TickEnds
              \/ (\E x \in Tasks : TickRun(x))
              \/ PollReady \/ PollBlocks \/ PollReturns \/ PollEnds \/ BeforeExitDone
              \/ Unpublish \/ OnExit \/ HandlersDone \/ Teardown \/ Closing \/ Join

Script == \/ (\E j \in Jobs : StartJob(j)) \/ Listen
          \/ ExitBegins \/ ExitCut \/ ReallyExit \/ Uncaught \/ EntryFails \/ EntryRejected

\* Posters get the VM's handle once it exists and keep it when it is gone.
PostEnters(p) == /\ worker \notin {"start", "init", "stillborn"}
                 /\ worker = "joined" => js = "freed"
                 /\ Enter(p)
                 /\ UNCHANGED own

Others(t) == /\ IF t \in Jobs THEN JobStep(t) ELSE AccessStep(t)
             /\ UNCHANGED own

WNext == \/ WorkerStep \/ Script \/ IoEvent \/ ClosingTimesOut
         \/ RequestAgain \/ RequestFlag \/ ParentStep
         \/ (\E p \in Posters : PostEnters(p))
         \/ \E t \in Threads : Others(t)

(* Threads that can go on go on, each for a few steps; script ends, but need *)
(* not do anything, nobody need call terminate(), no timeout need end a      *)
(* wait.  A notifier gets the mutex although the teardown may come back for  *)
(* it each time its wait ends.                                               *)
WFairness == /\ WF_allvars(WorkerStep) /\ WF_allvars(ParentStep)
             /\ WF_allvars(\E t \in Threads : Others(t))
             /\ SF_allvars(\E t \in Threads : Notify(t) /\ UNCHANGED own)

WSpec == WInit /\ [][WNext]_allvars /\ WFairness

-----------------------------------------------------------------------------
(* Properties *)

\* A job script started before shutdown() is completed with script, never
\* thrown away, unless the worker was told to end or its entry could not be
\* loaded: the keep-alive of a job, the queue and the pending batch leave no
\* moment at which is_event_loop_alive() is false too early, in spin()'s loop
\* or, for what a beforeExit listener starts, in on_before_exit()'s.
CompletionsRun ==
    \A j \in kept : task[j] = "released" => requested_terminate \/ failed

\* Exit handlers begin only in a worker its parent has not asked to end, or
\* asked so late that the request is still on its way to the trap of a running
\* worker: a worker that left its loop because it saw the flag waits in
\* shutdown() until the parent has marked it, and one that reports an error
\* looks at the state first.
StoppedRunsNoHandlers ==
    [][~InHandlers /\ InHandlers' => ~asked \/ (vm_handle /\ ~TrapRaised)]_allvars

\* A worker asleep in a poll, of spin()'s loop or of on_before_exit()'s, has a
\* wake-up on the way for everything it should get up for: a queued task and
\* the request to terminate.
PollerHasWaker ==
    worker = "asleep" /\ ~woken =>
        /\ Queued # {} => \E t \in Tasks : pc[t] \in {"pushed", "wakeup"}
        /\ requested_terminate =>
              parent \in {"flagged", "marked"}
              \/ (parent = "stopped" /\ pc[Parent] \in {"idle", "entered", "wakeup"})

\* A worker that was asked to terminate, or ends by itself, is joined: neither
\* loop sleeps again on work that a stopped VM will not complete.
TerminationJoins == requested_terminate ~> worker = "joined"

\* What was posted is run or released: a moment comes at which nothing waits in
\* a queue (and nothing is posted twice), in whichever loop the worker lives.
PostedIsHandled == HasTasks ~> ~HasTasks
=============================================================================
