------------------------------ MODULE Watcher ------------------------------
(***************************************************************************)
(* eirctl watch (cmd/eirctl/watch.go, internal/watch/watch.go): one        *)
(* Watcher.Run per configured watcher, each with a goroutine for the first *)
(* run of its task, a loop over file events and one handler per event; on  *)
(* an interrupt, one Close per watcher.  They all share one TaskRunner, of *)
(* which the meeting of Run and Cancel is kept: RunnerCancel, whose Runs   *)
(* are the first run of each watcher's task and one run per event, and     *)
(* whose Cancellers are the handlers and the goroutine that waits for the  *)
(* signal.                                                                 *)
(*                                                                         *)
(* Left out: globbing, the env and variables a handler adds to the task,   *)
(* and the second's pause of the loop.                                     *)
(***************************************************************************)
EXTENDS RunnerCancel, Naturals

CONSTANTS
  Watchers,  \* the configured watchers
  Events,    \* file events, one name for each occurrence
  WatcherOf, \* the watcher that sees the event
  Matching,  \* the events of a kind the watcher listens to (Watcher.events)
  Signal     \* the goroutine of buildTaskRunner that waits for ctx.Done()

ASSUME WatcherAssumption ==
  /\ WatcherOf \in [Events -> Watchers]
  /\ Matching \subseteq Events
  /\ Watchers \cap Events = {} /\ Signal \notin Events
  /\ Runs = Watchers \cup Events
  /\ Cancellers = Events \cup {Signal}

VARIABLES
  starter,   \* where Watcher.Run is
  loop,      \* where the loop is; "done" when finished is closed
  locked,    \* the watchers whose mu is held for good
  isClosed,  \* the watchers whose isClosed is set
  fsw,       \* the fsnotify watcher
  pending,   \* events fsnotify has still to deliver
  handler,   \* where the handler of each event is
  closer,    \* where Close is
  signalled, \* 1 when rootCmd.ctx is done
  process

watchVars == <<starter, loop, locked, isClosed, fsw, pending, handler, closer, signalled, process>>
allVars == <<vars, watchVars>>

WatchTypeOK ==
  /\ TypeOK
  /\ starter \in [Watchers -> {"idle", "events", "finished", "returned"}]
  /\ loop \in [Watchers -> {"idle", "top", "poll", "done"}]
  /\ locked \subseteq Watchers
  /\ isClosed \subseteq Watchers
  /\ fsw \in [Watchers -> {"open", "closing", "closed"}]
  /\ pending \subseteq Events
  /\ handler \in [Events -> {"none", "started", "gone"}]
  /\ closer \in [Watchers -> {"idle", "mark", "wait", "returned"}]
  /\ signalled \in {0, 1}
  /\ process \in {"running", "finished"}

WatchInit ==
  /\ Init
  /\ starter = [w \in Watchers |-> "idle"]
  /\ loop = [w \in Watchers |-> "idle"]
  /\ locked = {}
  /\ isClosed = {}
  /\ fsw = [w \in Watchers |-> "open"]
  /\ pending = {}
  /\ handler = [e \in Events |-> "none"]
  /\ closer = [w \in Watchers |-> "idle"]
  /\ signalled = 0
  /\ process = "running"

Alive == process = "running" /\ panicked = 0

HandlersOf(w) == {e \in Events : WatcherOf[e] = w /\ handler[e] = "started"}
-----------------------------------------------------------------------------
\* Mutant of StartWatcher: after the error of fsw.Add it still waits for finished.
StartWatcherMutantWaits(w) ==
  /\ Alive
  /\ starter[w] = "idle"
  /\ \/ /\ starter' = [starter EXCEPT ![w] = "events"]
        /\ loop' = [loop EXCEPT ![w] = "top"]
     \/ /\ starter' = [starter EXCEPT ![w] = "finished"]
        /\ UNCHANGED loop
  /\ UNCHANGED <<vars, locked, isClosed, fsw, pending, handler, closer, signalled, process>>

\* Watcher.Run: fsw.Add of every path, then the two goroutines; or its error.
StartWatcher(w) ==
  /\ Alive
  /\ starter[w] = "idle"
  /\ \/ /\ starter' = [starter EXCEPT ![w] = "events"]
        /\ loop' = [loop EXCEPT ![w] = "top"]
     \/ /\ starter' = [starter EXCEPT ![w] = "returned"]
        /\ UNCHANGED loop
  /\ UNCHANGED <<vars, locked, isClosed, fsw, pending, handler, closer, signalled, process>>

\* The goroutine of the first run of the task.
BeginFirstRun(w) ==
  /\ Alive
  /\ loop[w] # "idle"
  /\ BeginRun(w)
  /\ UNCHANGED watchVars

EndFirstRun(w) ==
  /\ Alive
  /\ EndRun(w)
  /\ UNCHANGED watchVars

\* Mutant of LoopTop: the loop also breaks, with the mutex, once fsw is closed.
LoopTopMutantBreaks(w) ==
  /\ Alive
  /\ loop[w] = "top"
  /\ w \notin locked
  /\ LET leaves == w \in isClosed \/ fsw[w] # "open"
     IN /\ loop' = [loop EXCEPT ![w] = IF leaves THEN "done" ELSE "poll"]
        /\ locked' = IF leaves THEN locked \cup {w} ELSE locked
  /\ UNCHANGED <<vars, starter, isClosed, fsw, pending, handler, closer, signalled, process>>

\* mu.Lock(), isClosed, mu.Unlock(); the break leaves the mutex locked.
LoopTop(w) ==
  /\ Alive
  /\ loop[w] = "top"
  /\ w \notin locked
  /\ loop' = [loop EXCEPT ![w] = IF w \in isClosed THEN "done" ELSE "poll"]
  /\ locked' = IF w \in isClosed THEN locked \cup {w} ELSE locked
  /\ UNCHANGED <<vars, starter, isClosed, fsw, pending, handler, closer, signalled, process>>

\* An event is received: eventsWg.Add(1) and go w.handle(event).
Receive(e) ==
  /\ Alive
  /\ loop[WatcherOf[e]] = "poll"
  /\ fsw[WatcherOf[e]] # "closed"
  /\ e \in pending
  /\ pending' = pending \ {e}
  /\ handler' = [handler EXCEPT ![e] = "started"]
  /\ loop' = [loop EXCEPT ![WatcherOf[e]] = "top"]
  /\ UNCHANGED <<vars, starter, locked, isClosed, fsw, closer, signalled, process>>

\* No event is ready, or an error of fsnotify is logged.
PollAgain(w) ==
  /\ Alive
  /\ loop[w] = "poll"
  /\ fsw[w] # "closed"
  /\ loop' = [loop EXCEPT ![w] = "top"]
  /\ UNCHANGED <<vars, starter, locked, isClosed, fsw, pending, handler, closer, signalled, process>>

\* Events or Errors is closed: the loop returns, with the mutex free.
PollClosed(w) ==
  /\ Alive
  /\ loop[w] = "poll"
  /\ fsw[w] = "closed"
  /\ loop' = [loop EXCEPT ![w] = "done"]
  /\ UNCHANGED <<vars, starter, locked, isClosed, fsw, pending, handler, closer, signalled, process>>

\* eventsWg.Wait() returns: no handler is at work at that moment ...
EventsWait(w) ==
  /\ Alive
  /\ starter[w] = "events"
  /\ HandlersOf(w) = {}
  /\ starter' = [starter EXCEPT ![w] = "finished"]
  /\ UNCHANGED <<vars, loop, locked, isClosed, fsw, pending, handler, closer, signalled, process>>

\* ... and <-w.finished.
WatcherReturns(w) ==
  /\ Alive
  /\ starter[w] = "finished"
  /\ loop[w] = "done"
  /\ starter' = [starter EXCEPT ![w] = "returned"]
  /\ UNCHANGED <<vars, loop, locked, isClosed, fsw, pending, handler, closer, signalled, process>>
-----------------------------------------------------------------------------
(***************************************************************************)
(* handle(event): return for an event of another kind; else Cancel, then   *)
(* Run of the watcher's task, then eventsWg.Done().                        *)
(***************************************************************************)
Ignore(e) ==
  /\ Alive
  /\ handler[e] = "started"
  /\ e \notin Matching
  /\ handler' = [handler EXCEPT ![e] = "gone"]
  /\ UNCHANGED <<vars, starter, loop, locked, isClosed, fsw, pending, closer, signalled, process>>

HandlerCancels(e) ==
  /\ Alive
  /\ handler[e] = "started"
  /\ e \in Matching
  /\ CancelCall(e)
  /\ UNCHANGED watchVars

HandlerCancelReturns(e) ==
  /\ Alive
  /\ CancelReturn(e)
  /\ UNCHANGED watchVars

\* Mutant of BeginRerun: the handler does not wait for Cancel.
BeginRerunMutantDoesNotWait(e) ==
  /\ Alive
  /\ waiter[e] # "idle"
  /\ BeginRun(e)
  /\ UNCHANGED watchVars

BeginRerun(e) ==
  /\ Alive
  /\ waiter[e] = "returned"
  /\ BeginRun(e)
  /\ UNCHANGED watchVars

EndRerun(e) ==
  /\ Alive
  /\ EndRun(e)
  /\ handler' = [handler EXCEPT ![e] = "gone"]
  /\ UNCHANGED <<starter, loop, locked, isClosed, fsw, pending, closer, signalled, process>>
-----------------------------------------------------------------------------
\* The world: a file changes, and fsnotify closes its channels after Close.
FileEvent(e) ==
  /\ Alive
  /\ handler[e] = "none" /\ e \notin pending
  /\ starter[WatcherOf[e]] # "idle" /\ fsw[WatcherOf[e]] = "open"
  /\ pending' = pending \cup {e}
  /\ UNCHANGED <<vars, starter, loop, locked, isClosed, fsw, handler, closer, signalled, process>>

ChannelsClose(w) ==
  /\ Alive
  /\ fsw[w] = "closing"
  /\ fsw' = [fsw EXCEPT ![w] = "closed"]
  /\ UNCHANGED <<vars, starter, loop, locked, isClosed, pending, handler, closer, signalled, process>>

\* SIGINT or SIGTERM: rootCmd.ctx is done, and the runner is cancelled.
Interrupt ==
  /\ Alive
  /\ signalled = 0
  /\ signalled' = 1
  /\ UNCHANGED <<vars, starter, loop, locked, isClosed, fsw, pending, handler, closer, process>>

SignalCancels ==
  /\ Alive
  /\ signalled = 1
  /\ CancelCall(Signal)
  /\ UNCHANGED watchVars

SignalCancelReturns ==
  /\ Alive
  /\ CancelReturn(Signal)
  /\ UNCHANGED watchVars

\* Close: fsw.Close() without the lock, isClosed under it, then <-w.finished.
CloseFsw(w) ==
  /\ Alive
  /\ signalled = 1
  /\ closer[w] = "idle"
  /\ fsw' = [fsw EXCEPT ![w] = "closing"]
  /\ closer' = [closer EXCEPT ![w] = "mark"]
  /\ UNCHANGED <<vars, starter, loop, locked, isClosed, pending, handler, signalled, process>>

CloseMark(w) ==
  /\ Alive
  /\ closer[w] = "mark"
  /\ w \notin locked
  /\ isClosed' = isClosed \cup {w}
  /\ closer' = [closer EXCEPT ![w] = "wait"]
  /\ UNCHANGED <<vars, starter, loop, locked, fsw, pending, handler, signalled, process>>

CloseReturns(w) ==
  /\ Alive
  /\ closer[w] = "wait"
  /\ loop[w] = "done"
  /\ closer' = [closer EXCEPT ![w] = "returned"]
  /\ UNCHANGED <<vars, starter, loop, locked, isClosed, fsw, pending, handler, signalled, process>>

\* wg.Wait() of the command: every Watcher.Run has returned.
ProcessEnds ==
  /\ Alive
  /\ \A w \in Watchers : starter[w] = "returned"
  /\ process' = "finished"
  /\ UNCHANGED <<vars, starter, loop, locked, isClosed, fsw, pending, handler, closer, signalled>>

Watch(w) == StartWatcher(w) \/ EventsWait(w) \/ WatcherReturns(w)

FirstRun(w) == BeginFirstRun(w) \/ EndFirstRun(w)

Poll(w) ==
  LoopTop(w) \/ PollAgain(w) \/ PollClosed(w) \/ \E e \in Events : WatcherOf[e] = w /\ Receive(e)

Handle(e) ==
  Ignore(e) \/ HandlerCancels(e) \/ HandlerCancelReturns(e) \/ BeginRerun(e) \/ EndRerun(e)

Close(w) == CloseFsw(w) \/ CloseMark(w) \/ CloseReturns(w) \/ ChannelsClose(w)

WatchNext ==
  \/ \E w \in Watchers : Watch(w) \/ FirstRun(w) \/ Poll(w) \/ Close(w)
  \/ \E e \in Events : Handle(e) \/ FileEvent(e)
  \/ Interrupt \/ SignalCancels \/ SignalCancelReturns \/ ProcessEnds

WatchSpec == WatchInit /\ [][WatchNext]_allVars

(***************************************************************************)
(* Every goroutine that can run does, and tasks end.  Files need not       *)
(* change, and the interrupt need not come.  select picks a ready case, so *)
(* an event that stays ready is received in the end.                       *)
(***************************************************************************)
WatchFairness ==
  /\ \A w \in Watchers : /\ WF_allVars(Watch(w))
                         /\ WF_allVars(FirstRun(w))
                         /\ WF_allVars(Poll(w))
                         /\ WF_allVars(Close(w))
  /\ \A e \in Events : WF_allVars(Handle(e)) /\ SF_allVars(Receive(e))
  /\ WF_allVars(SignalCancels \/ SignalCancelReturns)
  /\ WF_allVars(ProcessEnds)

WatchFairSpec == WatchSpec /\ WatchFairness
-----------------------------------------------------------------------------
Ended == process = "finished" \/ panicked = 1

NothingRuns == doneCh = "open" /\ \A r \in Runs : run[r] # "running"

(***************************************************************************)
(* A handler runs the task again only after an earlier run has ended: its  *)
(* Cancel is released by nothing else (watch.go:185).                      *)
(***************************************************************************)
RerunFollowsRun ==
  \A e \in Events : run[e] # "idle" => \E r \in Runs \ {e} : run[r] = "returned"

(***************************************************************************)
(* watchers.adoc:5: a watcher runs its task "whenever a matching           *)
(* filesystem event occurs", at least as long as nobody interrupts it.     *)
(***************************************************************************)
EventRunsTask ==
  \A e \in Matching : handler[e] = "started" ~> run[e] # "idle" \/ signalled = 1

(***************************************************************************)
(* Close never waits for the mutex the loop leaves locked: only a Close    *)
(* that has set isClosed makes the loop leave in that way, and then the    *)
(* loop has left.                                                          *)
(***************************************************************************)
CloseIsNotLockedOut ==
  \A w \in Watchers : w \in locked => closer[w] \in {"wait", "returned"} /\ loop[w] = "done"

(***************************************************************************)
(* eirctl watch ends after an interrupt: every watcher is closed, its loop *)
(* leaves and Watcher.Run returns.  It hangs in one way only, when         *)
(* Watcher.Run waits in eventsWg.Wait() for a handler whose Cancel has no  *)
(* run left to wait for.                                                   *)
(***************************************************************************)
InterruptEndsWatch ==
  signalled = 1 ~>
    Ended \/ \E w \in Watchers : /\ starter[w] = "events"
                                 /\ \E e \in HandlersOf(w) : waiter[e] = "waiting"
                                 /\ NothingRuns
=============================================================================
