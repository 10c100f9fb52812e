------------------------------- MODULE SipBLoop -------------------------------
(***************************************************************************)
(* The threads of sipB::SipBClient and what they share.                    *)
(*                                                                         *)
(* One control thread of the application calls init(), startRegister() and *)
(* stop().  startRegister() starts the event thread, whose eventLoop()     *)
(* takes an event from the eXosip context, processes it, and then runs the *)
(* closures that other threads handed over with async().  Workers are      *)
(* those other threads: application threads that complete a request, and   *)
(* poller threads that report a socket error.                              *)
(*                                                                         *)
(* The modules that extend this one say what an event and a closure do.    *)
(***************************************************************************)
EXTENDS Naturals, Sequences

CONSTANTS
  Workers,   \* the threads that call async()
  Tasks,     \* the closures they hand over
  Idle,      \* what posting holds for a worker that is not inside async()
  MaxInits   \* bound: the number of contexts init() creates

ASSUME LoopAssumption ==
  /\ Idle \notin Tasks
  /\ MaxInits \in Nat

VARIABLES
  exCtx,     \* _ex_ctx: 0 is nullptr, g > 0 the g-th context init() created
  inits,     \* the number of contexts created so far
  running,   \* _running
  thread,    \* where the event thread stands; "none": not joinable
  stopping,  \* the control thread is inside stop(), past its early return
  posting,   \* per worker, the closure of an async() that passed its test
  runList,   \* _run_list
  batch,     \* eventLoop's local list, without the closures already run
  fault      \* "none", or how the process died

loopVars ==
  <<exCtx, inits, running, thread, stopping, posting, runList, batch, fault>>

ThreadStates == {"none", "head", "poll", "take", "run", "exited"}
Faults == {"none", "nullContext", "joinableThread", "exception"}

LoopTypeOK ==
  /\ exCtx \in 0..MaxInits
  /\ inits \in 0..MaxInits
  /\ running \in BOOLEAN
  /\ thread \in ThreadStates
  /\ stopping \in BOOLEAN
  /\ posting \in [Workers -> Tasks \cup {Idle}]
  /\ runList \in Seq(Tasks)
  /\ batch \in Seq(Tasks)
  /\ fault \in Faults

LoopInit ==
  /\ exCtx = 0
  /\ inits = 0
  /\ running = FALSE
  /\ thread = "none"
  /\ stopping = FALSE
  /\ posting = [w \in Workers |-> Idle]
  /\ runList = <<>>
  /\ batch = <<>>
  /\ fault = "none"

Alive == fault = "none"

-----------------------------------------------------------------------------
(* The control thread.                                                     *)

\* init(): a second call on a live context and the three failures leave every
\* variable as it was.
InitContext ==
  /\ Alive /\ ~stopping
  /\ exCtx = 0
  /\ inits < MaxInits
  /\ inits' = inits + 1
  /\ exCtx' = inits + 1
  /\ UNCHANGED <<running, thread, stopping, posting, runList, batch, fault>>

\* startRegister(): the assignment to a joinable std::thread terminates.
StartLoop ==
  /\ Alive /\ ~stopping
  /\ exCtx # 0
  /\ running' = TRUE
  /\ IF thread = "none"
     THEN thread' = "head" /\ UNCHANGED fault
     ELSE fault' = "joinableThread" /\ UNCHANGED thread
  /\ UNCHANGED <<exCtx, inits, stopping, posting, runList, batch>>

\* stop() up to the join.
StopBegin ==
  /\ Alive /\ ~stopping
  /\ running
  /\ running' = FALSE
  /\ stopping' = TRUE
  /\ UNCHANGED <<exCtx, inits, thread, posting, runList, batch, fault>>

\* A defect: stop() detaches the thread instead of joining it.
StopEndDetached ==
  /\ Alive /\ stopping
  /\ exCtx' = 0
  /\ stopping' = FALSE
  /\ UNCHANGED <<inits, running, thread, posting, runList, batch, fault>>

\* stop() from the return of the join to its end: unregister and quit.
StopEnd ==
  /\ Alive /\ stopping
  /\ thread = "exited"
  /\ thread' = "none"
  /\ exCtx' = 0
  /\ stopping' = FALSE
  /\ UNCHANGED <<inits, running, posting, runList, batch, fault>>

-----------------------------------------------------------------------------
(* async(), on a worker: the test is made without the mutex.               *)

AsyncTest(w, task) ==
  /\ Alive
  /\ posting[w] = Idle
  /\ posting' = IF exCtx # 0 /\ running
                THEN [posting EXCEPT ![w] = task]
                ELSE posting
  /\ UNCHANGED <<exCtx, inits, running, thread, stopping, runList, batch, fault>>

\* A defect: the closure is moved from before it is appended.
AsyncPushMoved(w) ==
  /\ Alive
  /\ posting[w] # Idle
  /\ posting' = [posting EXCEPT ![w] = Idle]
  /\ runList' = Append(runList, posting'[w])
  /\ UNCHANGED <<exCtx, inits, running, thread, stopping, batch, fault>>

AsyncPush(w) ==
  /\ Alive
  /\ posting[w] # Idle
  /\ runList' = Append(runList, posting[w])
  /\ posting' = [posting EXCEPT ![w] = Idle]
  /\ fault' = IF exCtx = 0 THEN "nullContext" ELSE fault
  /\ UNCHANGED <<exCtx, inits, running, thread, stopping, batch>>

-----------------------------------------------------------------------------
(* eventLoop(), apart from what an event and a closure do.                 *)

\* A defect: while (true)
LoopHeadForever ==
  /\ Alive
  /\ thread = "head"
  /\ thread' = "poll"
  /\ UNCHANGED <<exCtx, inits, running, stopping, posting, runList, batch, fault>>

\* while (_running)
LoopHead ==
  /\ Alive
  /\ thread = "head"
  /\ thread' = IF running THEN "poll" ELSE "exited"
  /\ UNCHANGED <<exCtx, inits, running, stopping, posting, runList, batch, fault>>

\* The event has been processed, or the wait timed out.
Polled ==
  /\ Alive
  /\ thread = "poll"
  /\ thread' = "take"
  /\ UNCHANGED <<exCtx, inits, running, stopping, posting, batch>>

\* A defect: _run_list = list
TakeTasksBackwards ==
  /\ Alive
  /\ thread = "take"
  /\ thread' = "run"
  /\ runList' = batch
  /\ UNCHANGED <<exCtx, inits, running, stopping, posting, batch, fault>>

\* list = _run_list: a copy, made under the mutex.
TakeTasks ==
  /\ Alive
  /\ thread = "take"
  /\ thread' = "run"
  /\ batch' = runList
  /\ UNCHANGED <<exCtx, inits, running, stopping, posting, runList, fault>>

\* for (auto &function: list): the closure at the head of the batch ...
TaskStep ==
  /\ Alive
  /\ thread = "run"
  /\ batch # <<>>
  /\ batch' = Tail(batch)
  /\ UNCHANGED <<exCtx, inits, running, thread, stopping, posting, runList, fault>>

\* ... and the end of the body.
BatchDone ==
  /\ Alive
  /\ thread = "run"
  /\ batch = <<>>
  /\ thread' = "head"
  /\ UNCHANGED <<exCtx, inits, running, stopping, posting, runList, batch, fault>>

=============================================================================
