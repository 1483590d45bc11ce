------------------------------ MODULE Scheduler ------------------------------
(***************************************************************************)
(* The scheduler of imputio (imputio/src/executor/handle.rs): one          *)
(* ExecHandleCoordinator, its round-robin index shared by every thread     *)
(* that spawns, submits or drives, one unbounded channel per executor, and *)
(* the executors with their five task queues.  The driver thread of the    *)
(* runtime (imputio/src/runtime.rs) sends the Poll transactions without    *)
(* which no task is ever polled.                                           *)
(*                                                                         *)
(* Futures are the users' code: a future here spawns the tasks it awaits   *)
(* and submits its I/O operations, is Pending some times, and is then      *)
(* Ready, never Ready, or panics.                                          *)
(***************************************************************************)
EXTENDS Integers, Sequences

CONSTANTS
  NHandles,        (* number of handles, hence of executors                *)
  Callers,         (* client threads: they spawn and submit, and may block *)
  Driver,          (* the thread ImputioRuntime::run starts                *)
  Tasks,           (* the futures the clients and the tasks spawn          *)
  IoOps,           (* the operations they submit to the I/O poller         *)
  None,            (* no task, no argument                                 *)
  Prio,            (* Prio[t]: its Priority, 1 (High) to 4 (BestEffort)    *)
  Awaits,          (* Awaits[t]: the tasks t spawns and awaits             *)
  Submits,         (* Submits[t]: the operations t submits while polled    *)
  Blocking,        (* tasks that block their thread on a handle            *)
  Endless,         (* tasks whose poll is never Ready                      *)
  Panics,          (* tasks whose poll may panic                           *)
  Breaking,        (* executors whose poller may panic                     *)
  FairnessFeature, (* is the cargo feature "fairness" on?                  *)
  MayShutDown,     (* may the runtime be shut down?                        *)
  MaxPending,      (* bound: a future is Pending of its own this often     *)
  MaxPolls         (* bound: undelivered Poll transactions per channel     *)

Execs   == 0 .. NHandles - 1
Levels  == 0 .. 4
Threads == Execs \cup Callers \cup {Driver}

\* The tasks and the operations that clients, not tasks, hand in.
Roots     == Tasks \ UNION {Awaits[t] : t \in Tasks}
ClientOps == IoOps \ UNION {Submits[t] : t \in Tasks}

ASSUME HandlesAssumption == NHandles \in Nat \ {0}
ASSUME ThreadsAssumption ==
  /\ Callers \cap Execs = {}
  /\ Driver \notin Callers \cup Execs
ASSUME NoneAssumption == None \notin Tasks \cup IoOps
ASSUME TasksAssumption ==
  /\ Prio \in [Tasks -> 1 .. 4]
  /\ Awaits \in [Tasks -> SUBSET Tasks]
  /\ Submits \in [Tasks -> SUBSET IoOps]
  /\ Blocking \subseteq Tasks
  /\ Endless \subseteq Tasks
  /\ Panics \subseteq Tasks
\* A future has one owner: no two tasks spawn the same one.
ASSUME TreeAssumption ==
  \A t, u \in Tasks : t # u => /\ Awaits[t] \cap Awaits[u] = {}
                               /\ Submits[t] \cap Submits[u] = {}
ASSUME FlagsAssumption ==
  /\ FairnessFeature \in BOOLEAN /\ MayShutDown \in BOOLEAN
  /\ Breaking \subseteq Execs
ASSUME BoundsAssumption == MaxPending \in Nat /\ MaxPolls \in Nat \ {0}

VARIABLES
  index,     (* ExecHandleCoordinator.index                                *)
  step,      (* step[th]: where thread th is in a call on the coordinator  *)
  job,       (* job[th]: the transaction that call will send               *)
  slot,      (* slot[th]: the handle that call chose                       *)
  chan,      (* chan[h]: transactions sent to executor h and not received  *)
  tasks,     (* tasks[h][p]: Executor.tasks of h, a queue per priority     *)
  pc,        (* pc[h]: where Executor::run of h is in its loop             *)
  running,   (* running[h]: the task in poll_task on executor h, or None   *)
  phase,     (* phase[t]: who owns the task object, or how it ended        *)
  pendings,  (* pendings[t]: how often t was Pending of its own            *)
  reply,     (* reply[o]: the bounded(1) reply channel of operation o      *)
  pollerUp,  (* pollerUp[h]: does the poller of h still hold its receiver? *)
  shutdown   (* the shutdown flag shared by the coordinator and its threads*)

callVars == <<index, step, job, slot>>
execVars == <<tasks, pc, running, pendings>>
vars == <<callVars, chan, execVars, phase, reply, pollerUp, shutdown>>

Spawn(t)      == [op |-> "Spawn", arg |-> t]
Poll          == [op |-> "Poll", arg |-> None]
SubmitIoOp(o) == [op |-> "SubmitIoOp", arg |-> o]
NoCall        == [op |-> "NoCall", arg |-> None]

Transactions == {Poll} \cup {Spawn(t) : t \in Tasks} \cup {SubmitIoOp(o) : o \in IoOps}

Phases == {"new", "call", "channel", "queue", "polling", "done", "panicked", "dropped"}

EmptyQueues == [p \in Levels |-> <<>>]

TypeOK ==
  /\ index \in Execs
  /\ step \in [Threads -> {"idle", "store", "send", "wait"}]
  /\ job \in [Threads -> Transactions \cup {NoCall}]
  /\ slot \in [Threads -> Execs]
  /\ chan \in [Execs -> Seq(Transactions)]
  /\ tasks \in [Execs -> [Levels -> Seq(Tasks)]]
  /\ pc \in [Execs -> {"recv", "poll", "check", "exited"}]
  /\ running \in [Execs -> Tasks \cup {None}]
  /\ phase \in [Tasks -> Phases]
  /\ pendings \in [Tasks -> 0 .. MaxPending]
  /\ reply \in [IoOps -> {"unused", "pending", "ok", "err"}]
  /\ pollerUp \in [Execs -> BOOLEAN]
  /\ shutdown \in BOOLEAN

Init ==
  /\ index = 0
  /\ step = [th \in Threads |-> "idle"]
  /\ job = [th \in Threads |-> NoCall]
  /\ slot = [th \in Threads |-> 0]
  /\ chan = [h \in Execs |-> <<>>]
  /\ tasks = [h \in Execs |-> EmptyQueues]
  /\ pc = [h \in Execs |-> "recv"]
  /\ running = [h \in Execs |-> None]
  /\ phase = [t \in Tasks |-> "new"]
  /\ pendings = [t \in Tasks |-> 0]
  /\ reply = [o \in IoOps |-> "unused"]
  /\ pollerUp = [h \in Execs |-> TRUE]
  /\ shutdown = FALSE

-----------------------------------------------------------------------------
(* A call on the coordinator: load the index, store it, send.  The load    *)
(* and the store are two atomic steps, so that other threads come between. *)

BeginAt(th, tr, chosen) ==
  /\ step[th] = "idle"
  /\ step' = [step EXCEPT ![th] = "store"]
  /\ job' = [job EXCEPT ![th] = tr]
  /\ slot' = [slot EXCEPT ![th] = chosen]
  /\ UNCHANGED index

\* Mutant: the modulo is forgotten.
BeginUnwrapped(th, tr) == BeginAt(th, tr, index + 1)

Begin(th, tr) == BeginAt(th, tr, (index + 1) % NHandles)

\* The call is over: its locals are gone.
End(th) ==
  /\ step' = [step EXCEPT ![th] = "idle"]
  /\ job' = [job EXCEPT ![th] = NoCall]
  /\ slot' = [slot EXCEPT ![th] = 0]
  /\ UNCHANGED index

\* A thread is free to call when it is a client's, or while it polls a task.
MaySpawn(th, t) == IF th \in Execs THEN running[th] # None /\ t \in Awaits[running[th]]
                                   ELSE th \in Callers /\ t \in Roots
MaySubmit(th, o) == IF th \in Execs THEN running[th] # None /\ o \in Submits[running[th]]
                                    ELSE th \in Callers /\ o \in ClientOps

CallSpawn(th, t) ==
  /\ phase[t] = "new"
  /\ MaySpawn(th, t)
  /\ Begin(th, Spawn(t))
  /\ phase' = [phase EXCEPT ![t] = "call"]
  /\ UNCHANGED <<chan, execVars, reply, pollerUp, shutdown>>

CallSubmit(th, o) ==
  /\ reply[o] = "unused"
  /\ MaySubmit(th, o)
  /\ Begin(th, SubmitIoOp(o))
  /\ reply' = [reply EXCEPT ![o] = "pending"]
  /\ UNCHANGED <<chan, execVars, phase, pollerUp, shutdown>>

\* Mutant: poll goes to the handle of the last call and does not advance.
CallPollSame ==
  /\ BeginAt(Driver, Poll, index)
  /\ UNCHANGED <<chan, execVars, phase, reply, pollerUp, shutdown>>

CallPoll ==
  /\ Begin(Driver, Poll)
  /\ UNCHANGED <<chan, execVars, phase, reply, pollerUp, shutdown>>

StoreIndex(th) ==
  /\ step[th] = "store"
  /\ index' = slot[th]
  /\ step' = [step EXCEPT ![th] = "send"]
  /\ UNCHANGED <<job, slot, chan, execVars, phase, reply, pollerUp, shutdown>>

\* An executor that has ended has dropped its receiver.
Sending(th, op) == step[th] = "send" /\ job[th].op = op
Connected(th)   == pc[slot[th]] # "exited"
Push(th)        == chan' = [chan EXCEPT ![slot[th]] = Append(@, job[th])]

\* A Poll beyond MaxPolls undelivered ones is not kept: the bound of the model.
Backlogged(h) == Len(SelectSeq(chan[h], LAMBDA tr : tr = Poll)) >= MaxPolls

SendPoll(th) ==
  /\ Sending(th, "Poll")
  /\ IF Connected(th) /\ ~Backlogged(slot[th]) THEN Push(th) ELSE UNCHANGED chan
  /\ End(th)
  /\ UNCHANGED <<execVars, phase, reply, pollerUp, shutdown>>

\* ExecHandle::spawn ignores a failed send: the handle it returns then waits
\* for a task that is gone.
SendSpawn(th) ==
  /\ Sending(th, "Spawn")
  /\ \/ /\ Connected(th)
        /\ Push(th)
        /\ phase' = [phase EXCEPT ![job[th].arg] = "channel"]
     \/ /\ ~Connected(th)
        /\ phase' = [phase EXCEPT ![job[th].arg] = "dropped"]
        /\ UNCHANGED chan
  /\ End(th)
  /\ UNCHANGED <<execVars, reply, pollerUp, shutdown>>

\* ExecHandle::submit_io_op blocks on the reply; a failed send drops the
\* sender of the reply, which is an answer too.
SendSubmit(th) ==
  /\ Sending(th, "SubmitIoOp")
  /\ \/ Connected(th) /\ Push(th) /\ UNCHANGED reply
     \/ /\ ~Connected(th)
        /\ reply' = [reply EXCEPT ![job[th].arg] = "err"]
        /\ UNCHANGED chan
  /\ step' = [step EXCEPT ![th] = "wait"]
  /\ UNCHANGED <<index, job, slot, execVars, phase, pollerUp, shutdown>>

\* Mutant: the wait for the reply times out, and the operation is still queued.
ReturnEarly(th) ==
  /\ step[th] = "wait"
  /\ reply' = [reply EXCEPT ![job[th].arg] = IF @ = "pending" THEN "err" ELSE @]
  /\ End(th)
  /\ UNCHANGED <<chan, execVars, phase, pollerUp, shutdown>>

Return(th) ==
  /\ step[th] = "wait"
  /\ reply[job[th].arg] \in {"ok", "err"}
  /\ End(th)
  /\ UNCHANGED <<chan, execVars, phase, reply, pollerUp, shutdown>>

Call(th) == StoreIndex(th) \/ SendPoll(th) \/ SendSpawn(th) \/ SendSubmit(th) \/ Return(th)

-----------------------------------------------------------------------------
(* Executor::run: one transaction, then the shutdown flag, and again.      *)

Receive(h, op) ==
  /\ pc[h] = "recv"
  /\ chan[h] # <<>>
  /\ Head(chan[h]).op = op
  /\ chan' = [chan EXCEPT ![h] = Tail(@)]

Goto(h, label) == pc' = [pc EXCEPT ![h] = label]

RecvSpawn(h) ==
  /\ Receive(h, "Spawn")
  /\ Goto(h, "check")
  /\ LET t == Head(chan[h]).arg IN
       /\ tasks' = [tasks EXCEPT ![h][Prio[t]] = Append(@, t)]
       /\ phase' = [phase EXCEPT ![t] = "queue"]
  /\ UNCHANGED <<callVars, running, pendings, reply, pollerUp, shutdown>>

\* Mutant: an error of the poller returns before the reply is sent.
RecvSubmitEarly(h) ==
  /\ Receive(h, "SubmitIoOp")
  /\ Goto(h, "check")
  /\ reply' = [reply EXCEPT ![Head(chan[h]).arg] = IF pollerUp[h] THEN "ok" ELSE @]
  /\ UNCHANGED <<callVars, tasks, running, pendings, phase, pollerUp, shutdown>>

RecvSubmit(h) ==
  /\ Receive(h, "SubmitIoOp")
  /\ Goto(h, "check")
  /\ reply' = [reply EXCEPT ![Head(chan[h]).arg] = IF pollerUp[h] THEN "ok" ELSE "err"]
  /\ UNCHANGED <<callVars, tasks, running, pendings, phase, pollerUp, shutdown>>

\* get_task scans the queues from the highest priority; with the feature
\* "fairness" a coin decides whether it scans only tasks[2..].
ScanTop  == {0} \* Mutant: the coin never falls on tasks[2..].
ScanFrom == IF FairnessFeature THEN {0, 2} ELSE {0}
Queued(h, from) == {p \in from .. 4 : tasks[h][p] # <<>>}

\* Executor::poll calls poll_task on t.
Run(h, t) ==
  /\ running' = [running EXCEPT ![h] = t]
  /\ phase' = [phase EXCEPT ![t] = "polling"]
  /\ Goto(h, "poll")
  /\ UNCHANGED <<callVars, pendings, reply, pollerUp, shutdown>>

\* Mutants: get_task scans the queues in reverse; it pops one task of each queue
\* and keeps the first; it hands out the task and leaves it in its queue.
RecvPollReversed(h) ==
  /\ Receive(h, "Poll")
  /\ \E p \in Queued(h, 0) :
       /\ \A q \in Queued(h, 0) : p >= q
       /\ tasks' = [tasks EXCEPT ![h][p] = Tail(@)]
       /\ Run(h, Head(tasks[h][p]))
RecvPollEager(h) ==
  /\ Receive(h, "Poll")
  /\ \E p \in Queued(h, 0) :
       /\ \A q \in Queued(h, 0) : p <= q
       /\ tasks' = [tasks EXCEPT ![h] =
                      [q \in Levels |-> IF @[q] = <<>> THEN <<>> ELSE Tail(@[q])]]
       /\ Run(h, Head(tasks[h][p]))
RecvPollPeek(h) ==
  /\ Receive(h, "Poll")
  /\ \E p \in Queued(h, 0) :
       /\ \A q \in Queued(h, 0) : p <= q
       /\ Run(h, Head(tasks[h][p]))
  /\ UNCHANGED tasks

ScanPoll(h, from) ==
  /\ Receive(h, "Poll")
  /\ \E p \in Queued(h, from) :
       /\ \A q \in Queued(h, from) : p <= q
       /\ tasks' = [tasks EXCEPT ![h][p] = Tail(@)]
       /\ Run(h, Head(tasks[h][p]))

RecvPoll(h) == \E from \in ScanFrom : ScanPoll(h, from)

RecvIdlePoll(h) ==
  /\ Receive(h, "Poll")
  /\ \E from \in ScanFrom : Queued(h, from) = {}
  /\ Goto(h, "check")
  /\ UNCHANGED <<callVars, tasks, running, pendings, phase, reply, pollerUp, shutdown>>

RecvNothing(h) ==
  /\ pc[h] = "recv"
  /\ chan[h] = <<>>
  /\ Goto(h, "check")
  /\ UNCHANGED <<callVars, chan, tasks, running, pendings, phase, reply, pollerUp, shutdown>>

Settled(t) == phase[t] \in {"done", "panicked"}

\* The future of t has done all it does before its result.
Launched(t) == /\ \A u \in Awaits[t] : phase[u] # "new"
               /\ \A o \in Submits[t] : reply[o] # "unused"
Resumable(t) == Launched(t) /\ \A u \in Awaits[t] : Settled(u)

\* The poll of the running task is about to return.
Polling(h) == pc[h] = "poll" /\ step[h] = "idle"

PollReady(h) ==
  /\ Polling(h)
  /\ running[h] \notin Endless
  /\ Resumable(running[h])
  /\ phase' = [phase EXCEPT ![running[h]] = "done"]
  /\ running' = [running EXCEPT ![h] = None]
  /\ Goto(h, "check")
  /\ UNCHANGED <<callVars, chan, tasks, pendings, reply, pollerUp, shutdown>>

\* The poll of t is Pending.
Pends(h, t) ==
  /\ Polling(h)
  /\ t \notin Blocking
  /\ t \in Endless \/ (Launched(t) /\ ~Resumable(t)) \/ pendings[t] < MaxPending
  /\ pendings' = [pendings EXCEPT ![t] = IF @ < MaxPending THEN @ + 1 ELSE @]
  /\ UNCHANGED <<callVars, chan, reply, pollerUp, shutdown>>

\* The executor has t again and puts it into its queue.
Requeue(h, t, queue) ==
  /\ tasks' = [tasks EXCEPT ![h][Prio[t]] = queue]
  /\ phase' = [phase EXCEPT ![t] = "queue"]
  /\ running' = [running EXCEPT ![h] = None]
  /\ Goto(h, "check")

\* Mutants: a Pending task goes back to the front of its queue; the executor
\* polls a Pending task again at once, until it is Ready.
PollPendingFirst(h) ==
  /\ Pends(h, running[h])
  /\ Requeue(h, running[h], <<running[h]>> \o tasks[h][Prio[running[h]]])
PollPendingAgain(h) ==
  /\ Pends(h, running[h])
  /\ UNCHANGED <<tasks, pc, running, phase>>

PollPending(h) ==
  /\ Pends(h, running[h])
  /\ Requeue(h, running[h], Append(tasks[h][Prio[running[h]]], running[h]))

InChan(h, t)  == \E i \in DOMAIN chan[h] : chan[h][i] = Spawn(t)
InQueue(h, t) == \E p \in Levels : \E i \in DOMAIN tasks[h][p] : tasks[h][p][i] = t

\* The thread of h ends and drops the Executor.  ImputioTask has no Drop: the
\* futures of the tasks it held leak with the senders of their results.  The
\* transactions left in the channel are never received.
ThreadEnds(h, ended) ==
  /\ Goto(h, "exited")
  /\ chan' = [chan EXCEPT ![h] = <<>>]
  /\ tasks' = [tasks EXCEPT ![h] = EmptyQueues]
  /\ phase' = [t \in Tasks |->
                 IF InChan(h, t) \/ InQueue(h, t) THEN "dropped" ELSE ended[t]]

\* A panic unwinds the future, so its handle sees a disconnect, and then the
\* executor thread.
PollPanic(h) ==
  /\ Polling(h)
  /\ running[h] \in Panics
  /\ ThreadEnds(h, [phase EXCEPT ![running[h]] = "panicked"])
  /\ running' = [running EXCEPT ![h] = None]
  /\ UNCHANGED <<callVars, pendings, reply, pollerUp, shutdown>>

\* The end of an iteration of the loop, which ends on this condition.
EndsIf(h, condition) ==
  /\ pc[h] = "check"
  /\ IF condition THEN ThreadEnds(h, phase)
                  ELSE Goto(h, "recv") /\ UNCHANGED <<chan, tasks, phase>>
  /\ UNCHANGED <<callVars, running, pendings, reply, pollerUp, shutdown>>

\* Mutants: the thread ends once its channel is empty and nothing is queued; it
\* ends on the flag only after its tasks.
CheckShutdownIdle(h) == EndsIf(h, shutdown \/ (chan[h] = <<>> /\ tasks[h] = EmptyQueues))
CheckShutdownDrained(h) == EndsIf(h, shutdown /\ tasks[h] = EmptyQueues)

CheckShutdown(h) == EndsIf(h, shutdown)

\* PollerActor::run ends on the same flag, or any time in a panic that Poller has,
\* and drops its receiver.
PollerExit(h) ==
  /\ shutdown \/ h \in Breaking
  /\ pollerUp[h]
  /\ pollerUp' = [pollerUp EXCEPT ![h] = FALSE]
  /\ UNCHANGED <<callVars, chan, execVars, phase, reply, shutdown>>

Shutdown ==
  /\ MayShutDown
  /\ ~shutdown
  /\ shutdown' = TRUE
  /\ UNCHANGED <<callVars, chan, execVars, phase, reply, pollerUp>>

ClientCall(th) == (\E t \in Tasks : CallSpawn(th, t)) \/ (\E o \in IoOps : CallSubmit(th, o))

ExecStep(h) ==
  \/ ClientCall(h)
  \/ RecvSpawn(h) \/ RecvSubmit(h) \/ RecvPoll(h) \/ RecvIdlePoll(h) \/ RecvNothing(h)
  \/ PollReady(h) \/ PollPending(h) \/ PollPanic(h)
  \/ CheckShutdown(h)

Next ==
  \/ \E th \in Callers : ClientCall(th)
  \/ CallPoll
  \/ \E th \in Threads : Call(th)
  \/ \E h \in Execs : ExecStep(h) \/ PollerExit(h)
  \/ Shutdown

\* The operating system runs every thread.  Clients need not call anything and
\* nobody need shut down; after a shutdown the driver turns to another
\* coordinator, so it owes this one Polls only before.  The coin of get_task falls
\* on either side again and again while a Poll finds tasks there: rng.random() is
\* an independent draw for each Poll.
Fairness ==
  /\ WF_vars(~shutdown /\ CallPoll)
  /\ \A th \in Threads : WF_vars(Call(th))
  /\ \A h \in Execs : WF_vars(ExecStep(h)) /\ WF_vars(shutdown /\ PollerExit(h))
  /\ \A h \in Execs : \A from \in ScanFrom : SF_vars(ScanPoll(h, from))

Spec == Init /\ [][Next]_vars
FairSpec == Spec /\ Fairness

-----------------------------------------------------------------------------
(* Correctness.                                                            *)

\* A task object is in one place at a time: in one call, in one channel, in the
\* one queue of its priority, or in one poll.  poll_task turns the raw pointer
\* of an ImputioTask into a &mut without any lock (task/mod.rs), which is sound
\* only because no two executors ever hold the same task.
CallOwner ==
  \A th \in Threads, t \in Tasks : job[th] = Spawn(t) =>
    phase[t] = "call" /\ \A other \in Threads : job[other] = Spawn(t) => other = th
ChanOwner ==
  \A h \in Execs, t \in Tasks : \A i \in DOMAIN chan[h] : chan[h][i] = Spawn(t) =>
    /\ phase[t] = "channel"
    /\ \A g \in Execs : \A j \in DOMAIN chan[g] : chan[g][j] = Spawn(t) => g = h /\ j = i
QueueOwner ==
  \A h \in Execs, p \in Levels : \A i \in DOMAIN tasks[h][p] :
    /\ phase[tasks[h][p][i]] = "queue"
    /\ Prio[tasks[h][p][i]] = p
    /\ \A g \in Execs, q \in Levels : \A j \in DOMAIN tasks[g][q] :
         tasks[g][q][j] = tasks[h][p][i] => g = h /\ q = p /\ j = i
RunOwner ==
  \A h \in Execs : running[h] # None =>
    phase[running[h]] = "polling" /\ \A g \in Execs : running[g] = running[h] => g = h
OneOwner == CallOwner /\ ChanOwner /\ QueueOwner /\ RunOwner

\* A task that was spawned and has no result yet is somewhere: an executor that
\* is running never mislays one between its channel, its queues and its poll.
NothingLost ==
  \A t \in Tasks :
    /\ phase[t] = "call" => \E th \in Threads : job[th] = Spawn(t)
    /\ phase[t] = "channel" => \E h \in Execs : InChan(h, t)
    /\ phase[t] = "queue" => \E h \in Execs : InQueue(h, t)
    /\ phase[t] = "polling" => \E h \in Execs : running[h] = t

\* A thread blocked in submit_io_op is owed its reply by an executor that still
\* has the operation in its channel, unless that executor has ended.
ReplyOwed ==
  \A th \in Threads : step[th] = "wait" =>
    \/ reply[job[th].arg] \in {"ok", "err"}
    \/ \E i \in DOMAIN chan[slot[th]] : chan[slot[th]][i] = job[th]
    \/ pc[slot[th]] = "exited"

\* No operation is answered twice: the reply channel holds one answer, and a
\* second would block the executor on it.
RepliedOnce == [][\A o \in IoOps : reply[o] \in {"ok", "err"} => reply'[o] = reply[o]]_vars

\* What the comment of get_task says: a Poll handled while tasks are queued
\* polls one, and none that is queued at this executor is more urgent.
TakesPoll(h) == pc[h] = "recv" /\ pc[h]' # "recv" /\ chan[h] # <<>> /\ Head(chan[h]) = Poll
MostUrgent == [][\A h \in Execs : TakesPoll(h) /\ (\E t \in Tasks : InQueue(h, t)) =>
                   /\ running'[h] # None
                   /\ \A u \in Tasks : InQueue(h, u) => Prio[running'[h]] <= Prio[u]]_vars

\* The scheduler keeps the promise of TaskPool.
Pool == INSTANCE TaskPool WITH
  Workers  <- Execs,
  waiting  <- {t \in Tasks : phase[t] \in {"call", "channel", "queue"}},
  polling  <- running,
  settled  <- {t \in Tasks : Settled(t)},
  lost     <- {t \in Tasks : phase[t] = "dropped"},
  alive    <- {h \in Execs : pc[h] # "exited"},
  stopping <- shutdown
ImplementsTaskPool == Pool!Spec

\* As long as e is queued, get_task does not reach t.  With the feature, tasks[2..]
\* have a turn of their own.
Outranks(e, t) == Prio[e] < Prio[t] /\ ~(FairnessFeature /\ Prio[e] < 2 /\ 2 <= Prio[t])

\* Tasks that none outranks which may be Pending without end: an endless one, or
\* one that awaits another (a task awaiting a less urgent one on its executor
\* starves it: the wakers do nothing and the executor polls the awaiting task).
Urgent == {t \in Tasks : \A e \in Tasks : e \in Endless \/ Awaits[e] # {} => ~Outranks(e, t)}

\* Every such task that reached an executor is polled, again and again until it
\* is Ready, as long as that executor lives, even when another executor is dead:
\* equals in priority take turns, and with the feature fairness neither the Polls
\* the coin wastes starve a task of tasks[0..2] nor those tasks one of tasks[2..].
\* The calls of other threads come to an end here, so that the Polls of the driver
\* go round in the end, from wherever those calls left the index.
Served ==
  \A h \in Execs, t \in Urgent :
    InChan(h, t) \/ InQueue(h, t) ~> running[h] = t \/ pc[h] = "exited"

\* Every such task that ends completes, with the tasks it spawned and awaits on
\* whatever executors they landed, unless an executor has stopped.
Completes ==
  \A t \in Urgent \ Endless :
    phase[t] = "call" ~> Settled(t) \/ \E h \in Execs : pc[h] = "exited"

\* A client in submit_io_op returns as long as the executor it chose lives.
IoReturns ==
  \A th \in Callers : step[th] = "wait" ~> step[th] = "idle" \/ pc[slot[th]] = "exited"

\* After a shutdown every executor and every poller ends.
ShutdownStops == shutdown ~> \A h \in Execs : pc[h] = "exited" /\ ~pollerUp[h]

\* What the benches expect (benches/simple.rs): a task may block its thread on
\* the handle of a task it spawned, and gets the result.
BlockingCompletes == \A t \in Blocking : phase[t] = "call" ~> phase[t] = "done"
=============================================================================
