--------------------------- MODULE SchedulerProofs ---------------------------
(***************************************************************************)
(* Proofs, for every number of executors, clients, tasks and operations,   *)
(* that Scheduler keeps every task in one place until it has ended, and    *)
(* that it implements TaskPool.                                            *)
(***************************************************************************)
EXTENDS Scheduler, TLAPS

-----------------------------------------------------------------------------
(* What the operators on sequences do to the elements.                     *)

LEMMA AppendElements ==
  ASSUME NEW S, NEW s \in Seq(S), NEW e \in S
  PROVE  /\ Append(s, e) \in Seq(S)
         /\ DOMAIN Append(s, e) = DOMAIN s \cup {Len(s) + 1}
         /\ Len(s) + 1 \notin DOMAIN s
         /\ \A i \in DOMAIN s : Append(s, e)[i] = s[i]
         /\ Append(s, e)[Len(s) + 1] = e
  OBVIOUS

LEMMA TailElements ==
  ASSUME NEW S, NEW s \in Seq(S), s # <<>>
  PROVE  /\ Tail(s) \in Seq(S)
         /\ 1 \in DOMAIN s
         /\ Head(s) = s[1]
         /\ Head(s) \in S
         /\ \A i \in DOMAIN Tail(s) : i + 1 \in DOMAIN s /\ i + 1 # 1 /\ Tail(s)[i] = s[i + 1]
         /\ \A i \in DOMAIN s : i # 1 => i - 1 \in DOMAIN Tail(s) /\ Tail(s)[i - 1] = s[i]
  OBVIOUS

LEMMA ElementsInSet ==
  ASSUME NEW S, NEW s \in Seq(S), NEW i \in DOMAIN s
  PROVE  s[i] \in S /\ i \in Nat
  OBVIOUS

-----------------------------------------------------------------------------
(* Type correctness.                                                       *)

LEMMA ExecsType == 0 \in Execs /\ Execs \subseteq Nat
                   /\ \A i \in Execs : (i + 1) % NHandles \in Execs
  BY HandlesAssumption DEF Execs

\* Distinct transactions are told apart by their operation and argument.
LEMMA TransactionsDiffer ==
  /\ \A t, u : Spawn(t) = Spawn(u) <=> t = u
  /\ \A o, p : SubmitIoOp(o) = SubmitIoOp(p) <=> o = p
  /\ \A t, o : Spawn(t) # SubmitIoOp(o) /\ Spawn(t) # Poll /\ Spawn(t) # NoCall
  /\ \A o : SubmitIoOp(o) # Poll /\ SubmitIoOp(o) # NoCall
  /\ Poll # NoCall
  /\ \A t : Spawn(t).op = "Spawn" /\ Spawn(t).arg = t
  /\ \A o : SubmitIoOp(o).op = "SubmitIoOp" /\ SubmitIoOp(o).arg = o
  /\ Poll.op = "Poll" /\ NoCall.op = "NoCall"
  BY DEF Spawn, SubmitIoOp, Poll, NoCall

LEMMA TransactionTypes ==
  /\ Poll \in Transactions
  /\ \A t \in Tasks : Spawn(t) \in Transactions
  /\ \A o \in IoOps : SubmitIoOp(o) \in Transactions
  /\ \A tr \in Transactions :
       /\ tr.op \in {"Poll", "Spawn", "SubmitIoOp"}
       /\ tr.op = "Poll" => tr = Poll
       /\ tr.op = "Spawn" => tr.arg \in Tasks /\ tr = Spawn(tr.arg)
       /\ tr.op = "SubmitIoOp" => tr.arg \in IoOps /\ tr = SubmitIoOp(tr.arg)
<1>1. Poll \in Transactions /\ (\A t \in Tasks : Spawn(t) \in Transactions)
      /\ \A o \in IoOps : SubmitIoOp(o) \in Transactions
  BY DEF Transactions
<1>2. ASSUME NEW tr \in Transactions
      PROVE  tr = Poll \/ (\E t \in Tasks : tr = Spawn(t)) \/ \E o \in IoOps : tr = SubmitIoOp(o)
  BY <1>2 DEF Transactions
<1>3. QED
  BY <1>1, <1>2, TransactionsDiffer

\* Where a thread is in its call, and an executor in its loop, says what its
\* locals hold.
CallLocals == \A th \in Threads :
  /\ step[th] = "idle" <=> job[th] = NoCall
  /\ step[th] = "wait" => job[th].op = "SubmitIoOp"
LoopLocals == \A h \in Execs : pc[h] = "poll" <=> running[h] # None
EndedEmpty == \A h \in Execs : pc[h] = "exited" => chan[h] = <<>> /\ tasks[h] = EmptyQueues
LocalsMatch == CallLocals /\ LoopLocals /\ EndedEmpty

TypeInv == TypeOK /\ LocalsMatch

\* The locals of a thread inside a call.
LEMMA CallArgs ==
  ASSUME TypeInv, NEW th \in Threads, step[th] # "idle"
  PROVE  /\ job[th] \in Transactions /\ slot[th] \in Execs
         /\ job[th].op = "Poll" => job[th] = Poll
         /\ job[th].op = "Spawn" => job[th].arg \in Tasks /\ job[th] = Spawn(job[th].arg)
         /\ job[th].op = "SubmitIoOp" => job[th].arg \in IoOps /\ job[th] = SubmitIoOp(job[th].arg)
<1>1. job[th] \in Transactions /\ slot[th] \in Execs
  BY DEF TypeInv, TypeOK, Phases, LocalsMatch, CallLocals
<1>2. QED
  BY <1>1, TransactionTypes

\* What an executor does that finds a task for its Poll.
LEMMA Scanned ==
  ASSUME NEW h \in Execs, RecvPoll(h)
  PROVE  /\ Receive(h, "Poll")
         /\ \E p \in Levels : /\ tasks[h][p] # <<>>
                             /\ tasks' = [tasks EXCEPT ![h][p] = Tail(@)]
                             /\ Run(h, Head(tasks[h][p]))
<1>1. PICK from \in ScanFrom : ScanPoll(h, from)
  BY DEF RecvPoll
<1>2. PICK p \in Queued(h, from) : /\ tasks' = [tasks EXCEPT ![h][p] = Tail(@)]
                                  /\ Run(h, Head(tasks[h][p]))
  BY <1>1 DEF ScanPoll
<1>3. p \in Levels /\ tasks[h][p] # <<>>
  BY <1>2 DEF ScanFrom, Queued, Levels
<1> QED BY <1>1, <1>2, <1>3 DEF ScanPoll

LEMMA InitTypes == Init => TypeInv
  BY ExecsType
     DEF Init, TypeInv, TypeOK, LocalsMatch, CallLocals, LoopLocals, EndedEmpty, EmptyQueues

LEMMA NextTypes == TypeInv /\ [Next]_vars => TypeInv'
<1> USE DEF vars, callVars, execVars
<1> SUFFICES ASSUME TypeInv, [Next]_vars PROVE TypeInv'
  OBVIOUS
<1>1. ASSUME NEW th \in Threads, NEW t \in Tasks, CallSpawn(th, t) PROVE TypeInv'
  BY <1>1, ExecsType, TransactionTypes, TransactionsDiffer
     DEF TypeInv, TypeOK, Phases, LocalsMatch, CallLocals, LoopLocals, EndedEmpty, CallSpawn, Begin, BeginAt
<1>2. ASSUME NEW th \in Threads, NEW o \in IoOps, CallSubmit(th, o) PROVE TypeInv'
  BY <1>2, ExecsType, TransactionTypes, TransactionsDiffer
     DEF TypeInv, TypeOK, Phases, LocalsMatch, CallLocals, LoopLocals, EndedEmpty, CallSubmit, Begin, BeginAt
<1>3. CASE CallPoll
  BY <1>3, ExecsType, TransactionTypes, TransactionsDiffer
     DEF TypeInv, TypeOK, Phases, LocalsMatch, CallLocals, LoopLocals, EndedEmpty, CallPoll, Begin, BeginAt, Threads
<1>4. ASSUME NEW th \in Threads, StoreIndex(th) PROVE TypeInv'
  BY <1>4 DEF TypeInv, TypeOK, Phases, LocalsMatch, CallLocals, LoopLocals, EndedEmpty, StoreIndex
<1>5. ASSUME NEW th \in Threads, step[th] = "send", pc[slot[th]] # "exited", Push(th)
      PROVE  /\ chan' \in [Execs -> Seq(Transactions)]
             /\ \A h \in Execs : pc[h] = "exited" => chan'[h] = chan[h]
  <2>1. job[th] \in Transactions /\ slot[th] \in Execs
    BY <1>5, CallArgs
  <2>2. Append(chan[slot[th]], job[th]) \in Seq(Transactions)
    BY <2>1, AppendElements DEF TypeInv, TypeOK
  <2>3. QED
    BY <1>5, <2>1, <2>2 DEF TypeInv, TypeOK, Push
<1>6. ASSUME NEW th \in Threads, SendPoll(th) PROVE TypeInv'
  <2>1. CASE Push(th) /\ Connected(th)
    BY <1>5, <1>6, <2>1, ExecsType
       DEF TypeInv, TypeOK, Phases, LocalsMatch, CallLocals, LoopLocals, EndedEmpty, SendPoll,
           Sending, Connected, End
  <2>2. CASE UNCHANGED chan
    BY <1>6, <2>2, ExecsType
       DEF TypeInv, TypeOK, Phases, LocalsMatch, CallLocals, LoopLocals, EndedEmpty, SendPoll,
           Sending, End
  <2>3. QED
    BY <1>6, <2>1, <2>2 DEF SendPoll
<1>7. ASSUME NEW th \in Threads, SendSpawn(th) PROVE TypeInv'
  <2>1. job[th].arg \in Tasks
    BY <1>7, CallArgs DEF SendSpawn, Sending
  <2>2. /\ chan' \in [Execs -> Seq(Transactions)]
        /\ \A h \in Execs : pc[h] = "exited" => chan'[h] = chan[h]
    BY <1>5, <1>7 DEF TypeInv, TypeOK, SendSpawn, Sending, Connected
  <2>3. phase' \in [Tasks -> Phases]
    BY <1>7, <2>1 DEF TypeInv, TypeOK, Phases, SendSpawn
  <2>4. QED
    BY <1>7, <2>2, <2>3, ExecsType
       DEF TypeInv, TypeOK, Phases, LocalsMatch, CallLocals, LoopLocals, EndedEmpty, SendSpawn,
           Sending, End
<1>8. ASSUME NEW th \in Threads, SendSubmit(th) PROVE TypeInv'
  <2>1. job[th].arg \in IoOps
    BY <1>8, CallArgs DEF SendSubmit, Sending
  <2>2. CASE Push(th) /\ Connected(th)
    BY <1>5, <1>8, <2>1, <2>2
       DEF TypeInv, TypeOK, Phases, LocalsMatch, CallLocals, LoopLocals, EndedEmpty, SendSubmit,
           Sending, Connected
  <2>3. CASE UNCHANGED chan
    BY <1>8, <2>1, <2>3
       DEF TypeInv, TypeOK, Phases, LocalsMatch, CallLocals, LoopLocals, EndedEmpty, SendSubmit,
           Sending
  <2>4. QED
    BY <1>8, <2>2, <2>3 DEF SendSubmit
<1>9. ASSUME NEW th \in Threads, Return(th) PROVE TypeInv'
  BY <1>9, ExecsType
     DEF TypeInv, TypeOK, Phases, LocalsMatch, CallLocals, LoopLocals, EndedEmpty, Return, End
<1>10. ASSUME NEW h \in Execs, NEW op \in {"Poll", "Spawn", "SubmitIoOp"}, Receive(h, op)
       PROVE  /\ chan' \in [Execs -> Seq(Transactions)]
              /\ \A g \in Execs : pc[g] = "exited" => chan'[g] = chan[g]
              /\ pc[h] = "recv"
              /\ Head(chan[h]) \in Transactions
              /\ op = "Spawn" => Head(chan[h]).arg \in Tasks
              /\ op = "SubmitIoOp" => Head(chan[h]).arg \in IoOps
  <2>1. Tail(chan[h]) \in Seq(Transactions) /\ Head(chan[h]) \in Transactions
    BY <1>10, TailElements DEF TypeInv, TypeOK, Receive
  <2>2. QED
    BY <1>10, <2>1, TransactionTypes DEF TypeInv, TypeOK, Receive
<1>11. ASSUME NEW h \in Execs, NEW t \in Tasks,
              tasks' = [tasks EXCEPT ![h][Prio[t]] = Append(@, t)]
       PROVE  /\ tasks' \in [Execs -> [Levels -> Seq(Tasks)]]
              /\ \A g \in Execs : g # h => tasks'[g] = tasks[g]
  <2>1. Prio[t] \in Levels
    BY TasksAssumption DEF Levels
  <2>2. Append(tasks[h][Prio[t]], t) \in Seq(Tasks)
    BY <2>1, AppendElements DEF TypeInv, TypeOK
  <2>3. QED
    BY <1>11, <2>1, <2>2 DEF TypeInv, TypeOK
<1>12. ASSUME NEW h \in Execs, RecvSpawn(h) PROVE TypeInv'
  <2> DEFINE t == Head(chan[h]).arg
  <2>1. t \in Tasks /\ pc[h] = "recv" /\ chan' \in [Execs -> Seq(Transactions)]
        /\ \A g \in Execs : pc[g] = "exited" => chan'[g] = chan[g]
    BY <1>10, <1>12 DEF RecvSpawn
  <2>2. tasks' \in [Execs -> [Levels -> Seq(Tasks)]] /\ \A g \in Execs : g # h => tasks'[g] = tasks[g]
    BY <1>11, <1>12, <2>1 DEF RecvSpawn
  <2>3. TypeOK'
    BY <1>12, <2>1, <2>2 DEF TypeInv, TypeOK, Phases, RecvSpawn, Goto
  <2>4. LocalsMatch'
    <3>1. CallLocals'
      BY <1>12 DEF TypeInv, LocalsMatch, CallLocals, RecvSpawn
    <3>2. LoopLocals'
      BY <1>12, <2>1 DEF TypeInv, TypeOK, Phases, LocalsMatch, LoopLocals, RecvSpawn, Goto
    <3>3. EndedEmpty'
      BY <1>12, <2>1, <2>2 DEF TypeInv, TypeOK, Phases, LocalsMatch, EndedEmpty, RecvSpawn, Goto
    <3>4. QED
      BY <3>1, <3>2, <3>3 DEF LocalsMatch
  <2>5. QED
    BY <2>3, <2>4 DEF TypeInv
<1>13. ASSUME NEW h \in Execs, RecvSubmit(h) PROVE TypeInv'
  BY <1>10, <1>13
     DEF TypeInv, TypeOK, Phases, LocalsMatch, CallLocals, LoopLocals, EndedEmpty, RecvSubmit, Goto
<1>14. ASSUME NEW h \in Execs, RecvPoll(h) PROVE TypeInv'
  <2>1. PICK p \in Levels :
          /\ tasks[h][p] # <<>>
          /\ tasks' = [tasks EXCEPT ![h][p] = Tail(@)]
          /\ running' = [running EXCEPT ![h] = Head(tasks[h][p])]
          /\ phase' = [phase EXCEPT ![Head(tasks[h][p])] = "polling"]
          /\ Receive(h, "Poll")
          /\ Goto(h, "poll")
          /\ UNCHANGED <<callVars, pendings, reply, pollerUp, shutdown>>
    BY <1>14, Scanned DEF Run
  <2>2. Tail(tasks[h][p]) \in Seq(Tasks) /\ Head(tasks[h][p]) \in Tasks
    BY <2>1, TailElements DEF TypeInv, TypeOK
  <2>3. QED
    <3>1. /\ pc[h] = "recv" /\ chan' \in [Execs -> Seq(Transactions)]
          /\ \A g \in Execs : pc[g] = "exited" => chan'[g] = chan[g]
      BY <1>10, <2>1
    <3>2. TypeOK'
      BY <2>1, <2>2, <3>1 DEF TypeInv, TypeOK, Phases, Goto
    <3>3. LocalsMatch'
      <4>1. CallLocals'
        BY <2>1 DEF TypeInv, LocalsMatch, CallLocals
      <4>2. LoopLocals'
        BY <2>1, <2>2, <3>1, NoneAssumption
           DEF TypeInv, TypeOK, Phases, LocalsMatch, LoopLocals, Goto
      <4>3. EndedEmpty'
        BY <2>1, <3>1 DEF TypeInv, TypeOK, Phases, LocalsMatch, EndedEmpty, Goto
      <4>4. QED
        BY <4>1, <4>2, <4>3 DEF LocalsMatch
    <3>4. QED
      BY <3>2, <3>3 DEF TypeInv
<1>15. ASSUME NEW h \in Execs, RecvIdlePoll(h) PROVE TypeInv'
  BY <1>10, <1>15
     DEF TypeInv, TypeOK, Phases, LocalsMatch, CallLocals, LoopLocals, EndedEmpty, RecvIdlePoll, Goto
<1>16. ASSUME NEW h \in Execs, RecvNothing(h) PROVE TypeInv'
  BY <1>16
     DEF TypeInv, TypeOK, Phases, LocalsMatch, CallLocals, LoopLocals, EndedEmpty, RecvNothing, Goto
<1>17. ASSUME NEW h \in Execs, Polling(h) PROVE running[h] \in Tasks
  BY <1>17 DEF TypeInv, TypeOK, Phases, LocalsMatch, CallLocals, LoopLocals, EndedEmpty, Polling
<1>18. ASSUME NEW h \in Execs, PollReady(h) PROVE TypeInv'
  BY <1>17, <1>18
     DEF TypeInv, TypeOK, Phases, LocalsMatch, CallLocals, LoopLocals, EndedEmpty, PollReady, Polling,
         Goto
<1>19. ASSUME NEW h \in Execs, PollPending(h) PROVE TypeInv'
  <2>1. tasks' \in [Execs -> [Levels -> Seq(Tasks)]] /\ \A g \in Execs : g # h => tasks'[g] = tasks[g]
    BY <1>11, <1>17, <1>19 DEF PollPending, Pends, Requeue
  <2>2. pendings' \in [Tasks -> 0 .. MaxPending]
    BY <1>17, <1>19, BoundsAssumption DEF TypeInv, TypeOK, PollPending, Pends, Requeue
  <2>3. TypeOK'
    BY <1>17, <1>19, <2>1, <2>2 DEF TypeInv, TypeOK, Phases, PollPending, Pends, Requeue, Goto
  <2>4. LocalsMatch'
    BY <1>17, <1>19, <2>1
       DEF TypeInv, TypeOK, Phases, LocalsMatch, CallLocals, LoopLocals, EndedEmpty, PollPending, Pends, Requeue,
           Polling, Goto
  <2>5. QED
    BY <2>3, <2>4 DEF TypeInv
<1>20. ASSUME NEW h \in Execs, NEW ended, ThreadEnds(h, ended),
              ended \in [Tasks -> Phases]
       PROVE  /\ chan' \in [Execs -> Seq(Transactions)]
              /\ tasks' \in [Execs -> [Levels -> Seq(Tasks)]]
              /\ phase' \in [Tasks -> Phases]
              /\ pc' = [pc EXCEPT ![h] = "exited"]
              /\ \A g \in Execs : pc'[g] = "exited" => chan'[g] = <<>> /\ tasks'[g] = EmptyQueues
  BY <1>20
     DEF TypeInv, TypeOK, Phases, LocalsMatch, CallLocals, LoopLocals, EndedEmpty, ThreadEnds, Goto,
         EmptyQueues
<1>21. ASSUME NEW h \in Execs, PollPanic(h) PROVE TypeInv'
  <2> DEFINE ended == [phase EXCEPT ![running[h]] = "panicked"]
  <2>1. ThreadEnds(h, ended)
        /\ ended \in [Tasks -> Phases]
    BY <1>17, <1>21 DEF TypeInv, TypeOK, Phases, PollPanic
  <2> HIDE DEF ended
  <2>2. TypeOK' /\ EndedEmpty'
    BY <1>20, <1>21, <2>1 DEF TypeInv, TypeOK, EndedEmpty, PollPanic
  <2>3. CallLocals'
    BY <1>21 DEF TypeInv, LocalsMatch, CallLocals, PollPanic
  <2>4. pc' = [pc EXCEPT ![h] = "exited"] /\ running' = [running EXCEPT ![h] = None]
    BY <1>20, <1>21, <2>1 DEF PollPanic
  <2>5. LoopLocals'
    BY <2>4 DEF TypeInv, TypeOK, Phases, LocalsMatch, LoopLocals
  <2>6. QED
    BY <2>2, <2>3, <2>5 DEF TypeInv, LocalsMatch
<1>22. ASSUME NEW h \in Execs, CheckShutdown(h) PROVE TypeInv'
  <2>1. CallLocals'
    BY <1>22 DEF TypeInv, LocalsMatch, CallLocals, CheckShutdown, EndsIf
  <2>2. CASE shutdown
    <3>1. ThreadEnds(h, phase) /\ pc[h] = "check" /\ running' = running
      BY <1>22, <2>2 DEF CheckShutdown, EndsIf
    <3>2. TypeOK' /\ EndedEmpty'
      BY <1>20, <1>22, <3>1 DEF TypeInv, TypeOK, EndedEmpty, CheckShutdown, EndsIf
    <3>3. LoopLocals'
      BY <1>20, <3>1 DEF TypeInv, TypeOK, Phases, LocalsMatch, LoopLocals
    <3>4. QED
      BY <2>1, <3>2, <3>3 DEF TypeInv, LocalsMatch
  <2>3. CASE ~shutdown
    <3>1. /\ pc' = [pc EXCEPT ![h] = "recv"] /\ pc[h] = "check"
          /\ UNCHANGED <<chan, tasks, phase, running>>
      BY <1>22, <2>3 DEF CheckShutdown, EndsIf, Goto
    <3>2. TypeOK' /\ EndedEmpty' /\ LoopLocals'
      BY <1>22, <3>1 DEF TypeInv, TypeOK, Phases, LocalsMatch, LoopLocals, EndedEmpty, CheckShutdown, EndsIf
    <3>3. QED
      BY <2>1, <3>2 DEF TypeInv, LocalsMatch
  <2>4. QED
    BY <2>2, <2>3
<1>23. ASSUME NEW h \in Execs, PollerExit(h) PROVE TypeInv'
  BY <1>23 DEF TypeInv, TypeOK, Phases, LocalsMatch, CallLocals, LoopLocals, EndedEmpty, PollerExit
<1>24. CASE Shutdown
  BY <1>24 DEF TypeInv, TypeOK, Phases, LocalsMatch, CallLocals, LoopLocals, EndedEmpty, Shutdown
<1>25. CASE UNCHANGED vars
  BY <1>25 DEF TypeInv, TypeOK, Phases, LocalsMatch, CallLocals, LoopLocals, EndedEmpty
<1>26. QED
  BY <1>1, <1>2, <1>3, <1>4, <1>6, <1>7, <1>8, <1>9, <1>12, <1>13, <1>14, <1>15, <1>16,
     <1>18, <1>19, <1>21, <1>22, <1>23, <1>24, <1>25
     DEF Next, Call, ClientCall, ExecStep, Threads

\* Every reachable state has the types the code gives its fields.
THEOREM TypeCorrect == Spec => []TypeOK
<1>1. Spec => []TypeInv
  BY InitTypes, NextTypes, PTL DEF Spec
<1>2. QED
  BY <1>1, PTL DEF TypeInv

-----------------------------------------------------------------------------
(* Every task in one place.  First, what each of the five ways to change a *)
(* channel or a queue does to what is in it, and that it keeps the owners. *)

\* A channel or a set of queues nobody touches keeps its owners as long as the
\* tasks in it stay where they are.
LEMMA CallFrame ==
  ASSUME CallOwner,
         \A th \in Threads, t \in Tasks :
           job'[th] = Spawn(t) => job[th] = Spawn(t) /\ phase'[t] = phase[t]
  PROVE  CallOwner'
<1> SUFFICES ASSUME NEW th \in Threads, NEW t \in Tasks, job'[th] = Spawn(t)
             PROVE  phase'[t] = "call" /\ \A other \in Threads : job'[other] = Spawn(t) => other = th
  BY DEF CallOwner, Spawn
<1>1. QED
  BY DEF CallOwner

LEMMA ChanFrame ==
  ASSUME ChanOwner, UNCHANGED chan,
         \A t \in Tasks : phase[t] = "channel" => phase'[t] = "channel"
  PROVE  ChanOwner'
  BY DEF ChanOwner, Spawn

LEMMA QueuedAreTasks ==
  ASSUME TypeInv
  PROVE  \A h \in Execs, p \in Levels : \A i \in DOMAIN tasks[h][p] : tasks[h][p][i] \in Tasks
  BY ElementsInSet DEF TypeInv, TypeOK

LEMMA QueueFrame ==
  ASSUME TypeInv, QueueOwner, UNCHANGED tasks,
         \A t \in Tasks : phase[t] = "queue" => phase'[t] = "queue"
  PROVE  QueueOwner'
  BY QueuedAreTasks DEF QueueOwner

LEMMA RunFrame ==
  ASSUME TypeInv, RunOwner, UNCHANGED running,
         \A t \in Tasks : phase[t] = "polling" => phase'[t] = "polling"
  PROVE  RunOwner'
  BY DEF RunOwner, TypeInv, TypeOK

LEMMA PushOwners ==
  ASSUME TypeInv, CallOwner, ChanOwner,
         NEW th \in Threads, step[th] = "send", Push(th),
         \A t \in Tasks : phase[t] = "channel" \/ job[th] = Spawn(t) => phase'[t] = "channel"
  PROVE  /\ ChanOwner'
         /\ \A h \in Execs, t \in Tasks :
              InChan(h, t)' <=> InChan(h, t) \/ (h = slot[th] /\ job[th] = Spawn(t))
<1> DEFINE k == slot[th]
           n == Len(chan[k]) + 1
<1>1. job[th] \in Transactions /\ k \in Execs
  BY CallArgs
<1>2. /\ \A h \in Execs : h # k => chan'[h] = chan[h]
      /\ DOMAIN chan'[k] = DOMAIN chan[k] \cup {n} /\ n \notin DOMAIN chan[k]
      /\ \A i \in DOMAIN chan[k] : chan'[k][i] = chan[k][i]
      /\ chan'[k][n] = job[th]
  BY <1>1, AppendElements DEF Push, TypeInv, TypeOK
<1> HIDE DEF n, k
<1>3. \A h \in Execs : \A i \in DOMAIN chan'[h] :
        \/ i \in DOMAIN chan[h] /\ chan'[h][i] = chan[h][i]
        \/ h = k /\ i = n /\ chan'[h][i] = job[th]
  BY <1>2
<1>4. \A t \in Tasks : job[th] = Spawn(t) => \A h \in Execs : \A i \in DOMAIN chan[h] : chan[h][i] # Spawn(t)
  BY DEF CallOwner, ChanOwner
<1>5. ChanOwner'
  <2> SUFFICES ASSUME NEW h \in Execs, NEW t \in Tasks, NEW i \in DOMAIN chan'[h], chan'[h][i] = Spawn(t)
               PROVE  /\ phase'[t] = "channel"
                      /\ \A g \in Execs : \A j \in DOMAIN chan'[g] :
                           chan'[g][j] = Spawn(t) => g = h /\ j = i
    BY DEF ChanOwner, Spawn
  <2>1. CASE i \in DOMAIN chan[h] /\ chan'[h][i] = chan[h][i]
    <3>0. i \in DOMAIN chan[h] /\ chan[h][i] = Spawn(t)
      BY <2>1
    <3>1. /\ phase[t] = "channel"
          /\ \A g \in Execs : \A j \in DOMAIN chan[g] : chan[g][j] = Spawn(t) => g = h /\ j = i
      BY <3>0 DEF ChanOwner
    <3>2. ASSUME NEW g \in Execs, NEW j \in DOMAIN chan'[g], chan'[g][j] = Spawn(t)
          PROVE  g = h /\ j = i
      <4>1. job[th] # Spawn(t)
        BY <1>4, <3>0
      <4>2. j \in DOMAIN chan[g] /\ chan[g][j] = Spawn(t)
        BY <1>3, <3>2, <4>1
      <4>3. QED
        BY <3>1, <4>2
    <3>3. QED
      BY <3>1, <3>2
  <2>2. CASE h = k /\ i = n /\ chan'[h][i] = job[th]
    BY <1>3, <1>4, <2>2
  <2>3. QED
    BY <1>3, <2>1, <2>2
<1>6. ASSUME NEW h \in Execs, NEW t \in Tasks
      PROVE  InChan(h, t)' <=> InChan(h, t) \/ (h = k /\ job[th] = Spawn(t))
  BY <1>1, <1>2, <1>3 DEF InChan, Spawn
<1>7. QED
  BY <1>5, <1>6 DEF k

LEMMA ReceiveOwners ==
  ASSUME TypeInv, ChanOwner,
         NEW h \in Execs, NEW op \in {"Poll", "Spawn", "SubmitIoOp"}, Receive(h, op),
         \A t \in Tasks : phase[t] = "channel" /\ Head(chan[h]) # Spawn(t) => phase'[t] = "channel"
  PROVE  /\ ChanOwner'
         /\ \A g \in Execs, t \in Tasks :
              InChan(g, t)' <=> InChan(g, t) /\ Head(chan[h]) # Spawn(t)
<1>1. /\ \A g \in Execs : g # h => chan'[g] = chan[g]
      /\ 1 \in DOMAIN chan[h] /\ Head(chan[h]) = chan[h][1]
      /\ \A i \in DOMAIN chan'[h] : i + 1 \in DOMAIN chan[h] /\ i + 1 # 1 /\ chan'[h][i] = chan[h][i + 1]
      /\ \A i \in DOMAIN chan[h] : i # 1 => i - 1 \in DOMAIN chan'[h] /\ chan'[h][i - 1] = chan[h][i]
      /\ \A g \in Execs : \A i \in DOMAIN chan[g] \cup DOMAIN chan'[g] : i \in Int
  <2>1. chan[h] \in Seq(Transactions) /\ chan[h] # <<>>
    BY DEF Receive, TypeInv, TypeOK
  <2>2. chan'[h] = Tail(chan[h]) /\ \A g \in Execs : g # h => chan'[g] = chan[g]
    BY DEF Receive, TypeInv, TypeOK
  <2>3. /\ Tail(chan[h]) \in Seq(Transactions)
        /\ 1 \in DOMAIN chan[h] /\ Head(chan[h]) = chan[h][1]
        /\ \A i \in DOMAIN Tail(chan[h]) :
             i + 1 \in DOMAIN chan[h] /\ i + 1 # 1 /\ Tail(chan[h])[i] = chan[h][i + 1]
        /\ \A i \in DOMAIN chan[h] :
             i # 1 => i - 1 \in DOMAIN Tail(chan[h]) /\ Tail(chan[h])[i - 1] = chan[h][i]
    BY <2>1, TailElements
  <2>4. \A g \in Execs : chan[g] \in Seq(Transactions) /\ chan'[g] \in Seq(Transactions)
    <3>1. \A g \in Execs : chan[g] \in Seq(Transactions)
      BY DEF TypeInv, TypeOK
    <3>2. QED
      BY <2>2, <2>3, <3>1
  <2>5. \A g \in Execs : \A i \in DOMAIN chan[g] \cup DOMAIN chan'[g] : i \in Int
    BY <2>4, ElementsInSet
  <2>6. QED
    BY <2>2, <2>3, <2>5
<1>2. \A t \in Tasks : Head(chan[h]) = Spawn(t) =>
        \A g \in Execs : \A j \in DOMAIN chan[g] : chan[g][j] = Spawn(t) => g = h /\ j = 1
  BY <1>1 DEF ChanOwner
<1>3. ChanOwner'
  <2> SUFFICES ASSUME NEW g \in Execs, NEW t \in Tasks, NEW i \in DOMAIN chan'[g], chan'[g][i] = Spawn(t)
               PROVE  /\ phase'[t] = "channel"
                      /\ \A f \in Execs : \A j \in DOMAIN chan'[f] :
                           chan'[f][j] = Spawn(t) => f = g /\ j = i
    BY DEF ChanOwner, Spawn
  <2> DEFINE old(f, j) == IF f = h THEN j + 1 ELSE j
  <2>1. \A f \in Execs : \A j \in DOMAIN chan'[f] :
          /\ old(f, j) \in DOMAIN chan[f] /\ chan'[f][j] = chan[f][old(f, j)]
          /\ f = h => old(f, j) # 1
    BY <1>1
  <2>2. phase[t] = "channel" /\ Head(chan[h]) # Spawn(t)
    BY <1>2, <2>1 DEF ChanOwner
  <2>3. ASSUME NEW f \in Execs, NEW j \in DOMAIN chan'[f], chan'[f][j] = Spawn(t)
        PROVE  f = g /\ j = i
    <3>1. f = g /\ old(f, j) = old(g, i)
      BY <2>1, <2>3 DEF ChanOwner
    <3>2. QED
      BY <1>1, <3>1
  <2>4. QED
    BY <2>2, <2>3
<1>4. ASSUME NEW g \in Execs, NEW t \in Tasks
      PROVE  InChan(g, t)' <=> InChan(g, t) /\ Head(chan[h]) # Spawn(t)
  <2>1. CASE g = h
    BY <1>1, <1>2, <2>1 DEF InChan, Spawn
  <2>2. CASE g # h
    BY <1>1, <1>2, <2>2 DEF InChan, Spawn
  <2>3. QED
    BY <2>1, <2>2
<1>5. QED
  BY <1>3, <1>4

LEMMA EnqueueOwners ==
  ASSUME TypeInv, QueueOwner,
         NEW h \in Execs, NEW t \in Tasks, phase[t] # "queue",
         tasks' = [tasks EXCEPT ![h][Prio[t]] = Append(@, t)],
         phase'[t] = "queue",
         \A u \in Tasks : phase[u] = "queue" => phase'[u] = "queue"
  PROVE  /\ QueueOwner'
         /\ \A g \in Execs, u \in Tasks : InQueue(g, u)' <=> InQueue(g, u) \/ (g = h /\ u = t)
<1> DEFINE p == Prio[t]
           n == Len(tasks[h][p]) + 1
<1>1. p \in Levels /\ tasks[h][p] \in Seq(Tasks)
  BY TasksAssumption DEF TypeInv, TypeOK, Levels
<1>2. tasks'[h][p] = Append(tasks[h][p], t)
      /\ \A g \in Execs, q \in Levels : g # h \/ q # p => tasks'[g][q] = tasks[g][q]
  BY <1>1 DEF TypeInv, TypeOK
<1>3. /\ DOMAIN tasks'[h][p] = DOMAIN tasks[h][p] \cup {n} /\ n \notin DOMAIN tasks[h][p]
      /\ \A i \in DOMAIN tasks[h][p] : tasks'[h][p][i] = tasks[h][p][i]
      /\ tasks'[h][p][n] = t
  BY <1>1, <1>2, AppendElements
<1>4. \A g \in Execs, q \in Levels : \A i \in DOMAIN tasks[g][q] :
        tasks[g][q][i] # t /\ tasks[g][q][i] \in Tasks
  BY QueuedAreTasks DEF QueueOwner
<1> HIDE DEF n
<1>5. ASSUME NEW g \in Execs, NEW q \in Levels, NEW i \in DOMAIN tasks'[g][q]
      PROVE  \/ i \in DOMAIN tasks[g][q] /\ tasks'[g][q][i] = tasks[g][q][i]
             \/ g = h /\ q = p /\ i = n /\ tasks'[g][q][i] = t
  BY <1>2, <1>3
<1> HIDE DEF p
<1>6. QueueOwner'
  <2> SUFFICES ASSUME NEW g \in Execs, NEW q \in Levels, NEW i \in DOMAIN tasks'[g][q]
               PROVE  /\ phase'[tasks'[g][q][i]] = "queue"
                      /\ Prio[tasks'[g][q][i]] = q
                      /\ \A f \in Execs, r \in Levels : \A j \in DOMAIN tasks'[f][r] :
                           tasks'[f][r][j] = tasks'[g][q][i] => f = g /\ r = q /\ j = i
    BY DEF QueueOwner
  <2>1. CASE i \in DOMAIN tasks[g][q] /\ tasks'[g][q][i] = tasks[g][q][i]
    <3>1. /\ phase[tasks[g][q][i]] = "queue" /\ Prio[tasks[g][q][i]] = q
          /\ \A f \in Execs, r \in Levels : \A j \in DOMAIN tasks[f][r] :
               tasks[f][r][j] = tasks[g][q][i] => f = g /\ r = q /\ j = i
      BY <2>1 DEF QueueOwner
    <3>2. tasks[g][q][i] # t /\ tasks[g][q][i] \in Tasks
      BY <1>4, <2>1
    <3>3. QED
      BY <1>5, <2>1, <3>1, <3>2
  <2>2. CASE g = h /\ q = p /\ i = n /\ tasks'[g][q][i] = t
    BY <1>4, <1>5, <2>2 DEF p
  <2>3. QED
    BY <1>5, <2>1, <2>2
<1>7. ASSUME NEW g \in Execs, NEW u \in Tasks
      PROVE  InQueue(g, u)' <=> InQueue(g, u) \/ (g = h /\ u = t)
  <2>1. ASSUME NEW q \in Levels, NEW i \in DOMAIN tasks[g][q]
        PROVE  i \in DOMAIN tasks'[g][q] /\ tasks'[g][q][i] = tasks[g][q][i]
    BY <1>2, <1>3, <2>1
  <2>2. n \in DOMAIN tasks'[h][p] /\ tasks'[h][p][n] = t
    BY <1>3
  <2>3. QED
    BY <1>1, <1>5, <2>1, <2>2 DEF InQueue
<1>8. QED
  BY <1>6, <1>7

LEMMA DequeueOwners ==
  ASSUME TypeInv, QueueOwner,
         NEW h \in Execs, NEW p \in Levels, tasks[h][p] # <<>>,
         tasks' = [tasks EXCEPT ![h][p] = Tail(@)],
         \A u \in Tasks : phase[u] = "queue" /\ u # Head(tasks[h][p]) => phase'[u] = "queue"
  PROVE  /\ QueueOwner'
         /\ \A g \in Execs, u \in Tasks : InQueue(g, u)' <=> InQueue(g, u) /\ u # Head(tasks[h][p])
<1> DEFINE t == Head(tasks[h][p])
           old(g, q, i) == IF g = h /\ q = p THEN i + 1 ELSE i
           new(g, q, i) == IF g = h /\ q = p THEN i - 1 ELSE i
<1>1. tasks[h][p] \in Seq(Tasks)
  BY DEF TypeInv, TypeOK
<1>2. tasks'[h][p] = Tail(tasks[h][p])
      /\ \A g \in Execs, q \in Levels : g # h \/ q # p => tasks'[g][q] = tasks[g][q]
  BY DEF TypeInv, TypeOK
<1>3. /\ Tail(tasks[h][p]) \in Seq(Tasks)
      /\ 1 \in DOMAIN tasks[h][p] /\ t = tasks[h][p][1]
      /\ \A i \in DOMAIN Tail(tasks[h][p]) :
           i + 1 \in DOMAIN tasks[h][p] /\ i + 1 # 1 /\ Tail(tasks[h][p])[i] = tasks[h][p][i + 1]
      /\ \A i \in DOMAIN tasks[h][p] :
           i # 1 => i - 1 \in DOMAIN Tail(tasks[h][p]) /\ Tail(tasks[h][p])[i - 1] = tasks[h][p][i]
  BY <1>1, TailElements
<1>4. \A g \in Execs, q \in Levels : \A i \in DOMAIN tasks[g][q] \cup DOMAIN tasks'[g][q] : i \in Int
  <2>1. \A g \in Execs, q \in Levels : tasks[g][q] \in Seq(Tasks)
    BY DEF TypeInv, TypeOK
  <2>2. \A g \in Execs, q \in Levels : tasks'[g][q] \in Seq(Tasks)
    BY <1>2, <1>3, <2>1
  <2>3. QED
    BY <2>1, <2>2, ElementsInSet
<1> HIDE DEF t
<1>5. ASSUME NEW g \in Execs, NEW q \in Levels, NEW i \in DOMAIN tasks'[g][q]
      PROVE  /\ old(g, q, i) \in DOMAIN tasks[g][q]
             /\ tasks'[g][q][i] = tasks[g][q][old(g, q, i)]
             /\ g = h /\ q = p => old(g, q, i) # 1
  BY <1>2, <1>3
<1>6. ASSUME NEW g \in Execs, NEW q \in Levels, NEW i \in DOMAIN tasks[g][q], tasks[g][q][i] # t
      PROVE  new(g, q, i) \in DOMAIN tasks'[g][q] /\ tasks'[g][q][new(g, q, i)] = tasks[g][q][i]
  BY <1>2, <1>3, <1>6
<1>7. ASSUME NEW g \in Execs, NEW q \in Levels, NEW i \in DOMAIN tasks'[g][q]
      PROVE  tasks'[g][q][i] # t /\ tasks'[g][q][i] \in Tasks
  <2>1. 1 \in DOMAIN tasks[h][p] /\ tasks[h][p][1] = t
    BY <1>3
  <2>2. \A f \in Execs, r \in Levels : \A j \in DOMAIN tasks[f][r] :
          tasks[f][r][j] = t => f = h /\ r = p /\ j = 1
    BY <2>1 DEF QueueOwner
  <2>3. /\ old(g, q, i) \in DOMAIN tasks[g][q]
        /\ tasks'[g][q][i] = tasks[g][q][old(g, q, i)]
        /\ g = h /\ q = p => old(g, q, i) # 1
    BY <1>5
  <2> HIDE DEF old
  <2>4. tasks[g][q][old(g, q, i)] \in Tasks
    BY <2>3, QueuedAreTasks
  <2>5. tasks[g][q][old(g, q, i)] # t
    BY <2>2, <2>3
  <2>6. QED
    BY <2>3, <2>4, <2>5
<1>8. QueueOwner'
  <2> SUFFICES ASSUME NEW g \in Execs, NEW q \in Levels, NEW i \in DOMAIN tasks'[g][q]
               PROVE  /\ phase'[tasks'[g][q][i]] = "queue"
                      /\ Prio[tasks'[g][q][i]] = q
                      /\ \A f \in Execs, r \in Levels : \A j \in DOMAIN tasks'[f][r] :
                           tasks'[f][r][j] = tasks'[g][q][i] => f = g /\ r = q /\ j = i
    BY DEF QueueOwner
  <2>1. old(g, q, i) \in DOMAIN tasks[g][q] /\ tasks'[g][q][i] = tasks[g][q][old(g, q, i)]
    BY <1>5
  <2> HIDE DEF old
  <2>2. /\ phase[tasks[g][q][old(g, q, i)]] = "queue" /\ Prio[tasks[g][q][old(g, q, i)]] = q
        /\ \A f \in Execs, r \in Levels : \A j \in DOMAIN tasks[f][r] :
             tasks[f][r][j] = tasks[g][q][old(g, q, i)] => f = g /\ r = q /\ j = old(g, q, i)
    BY <2>1 DEF QueueOwner
  <2>3. phase'[tasks'[g][q][i]] = "queue" /\ Prio[tasks'[g][q][i]] = q
    BY <1>7, <2>1, <2>2 DEF t
  <2>4. ASSUME NEW f \in Execs, NEW r \in Levels, NEW j \in DOMAIN tasks'[f][r],
               tasks'[f][r][j] = tasks'[g][q][i]
        PROVE  f = g /\ r = q /\ j = i
    <3>1. old(f, r, j) \in DOMAIN tasks[f][r] /\ tasks[f][r][old(f, r, j)] = tasks[g][q][old(g, q, i)]
      BY <1>5, <2>1, <2>4
    <3>2. f = g /\ r = q /\ old(f, r, j) = old(g, q, i)
      BY <2>2, <3>1
    <3>3. QED
      BY <1>4, <3>2 DEF old
  <2>5. QED
    BY <2>3, <2>4
<1>9. ASSUME NEW g \in Execs, NEW u \in Tasks
      PROVE  InQueue(g, u)' <=> InQueue(g, u) /\ u # t
  <2> HIDE DEF old, new
  <2>1. ASSUME InQueue(g, u)' PROVE InQueue(g, u) /\ u # t
    <3>0. PICK q \in Levels : \E i \in DOMAIN tasks'[g][q] : tasks'[g][q][i] = u
      BY <2>1 DEF InQueue
    <3>1. PICK i \in DOMAIN tasks'[g][q] : tasks'[g][q][i] = u
      BY <3>0
    <3>2. old(g, q, i) \in DOMAIN tasks[g][q] /\ tasks[g][q][old(g, q, i)] = u /\ u # t
      BY <1>5, <1>7, <3>1
    <3>3. QED
      BY <3>2 DEF InQueue
  <2>2. ASSUME InQueue(g, u), u # t PROVE InQueue(g, u)'
    <3>0. PICK q \in Levels : \E i \in DOMAIN tasks[g][q] : tasks[g][q][i] = u
      BY <2>2 DEF InQueue
    <3>1. PICK i \in DOMAIN tasks[g][q] : tasks[g][q][i] = u
      BY <3>0
    <3>2. new(g, q, i) \in DOMAIN tasks'[g][q] /\ tasks'[g][q][new(g, q, i)] = u
      BY <1>6, <2>2, <3>1
    <3>3. QED
      BY <3>2 DEF InQueue
  <2>3. QED
    BY <2>1, <2>2
<1>10. QED
  BY <1>8, <1>9 DEF t

\* A thread that ends takes its channel and its queues with it, nobody else's.
LEMMA EndsOwners ==
  ASSUME TypeInv, ChanOwner, QueueOwner,
         NEW h \in Execs, NEW ended, ThreadEnds(h, ended),
         \A t \in Tasks : phase[t] # "polling" => ended[t] = phase[t]
  PROVE  /\ ChanOwner' /\ QueueOwner'
         /\ \A g \in Execs, t \in Tasks : InChan(g, t)' <=> InChan(g, t) /\ g # h
         /\ \A g \in Execs, t \in Tasks : InQueue(g, t)' <=> InQueue(g, t) /\ g # h
         /\ \A t \in Tasks : InChan(h, t) \/ InQueue(h, t) => phase'[t] = "dropped"
         /\ \A t \in Tasks : ~InChan(h, t) /\ ~InQueue(h, t) => phase'[t] = ended[t]
<1>1. /\ \A g \in Execs : g # h => chan'[g] = chan[g] /\ tasks'[g] = tasks[g]
      /\ DOMAIN chan'[h] = {} /\ \A p \in Levels : DOMAIN tasks'[h][p] = {}
  <2>1. chan'[h] = <<>> /\ tasks'[h] = EmptyQueues
        /\ \A g \in Execs : g # h => chan'[g] = chan[g] /\ tasks'[g] = tasks[g]
    BY DEF ThreadEnds, TypeInv, TypeOK
  <2>2. QED
    BY <2>1 DEF EmptyQueues
<1>2. /\ \A t \in Tasks : InChan(h, t) \/ InQueue(h, t) => phase'[t] = "dropped"
      /\ \A t \in Tasks : ~InChan(h, t) /\ ~InQueue(h, t) => phase'[t] = ended[t]
  BY DEF ThreadEnds
<1>3. ASSUME NEW g \in Execs, NEW t \in Tasks
      PROVE  /\ InChan(g, t)' <=> InChan(g, t) /\ g # h
             /\ InQueue(g, t)' <=> InQueue(g, t) /\ g # h
  <2>1. CASE g = h
    BY <1>1, <2>1 DEF InChan, InQueue
  <2>2. CASE g # h
    BY <1>1, <2>2 DEF InChan, InQueue, Spawn
  <2>3. QED
    BY <2>1, <2>2
<1>4. \A t \in Tasks, g \in Execs :
        /\ InChan(g, t) => phase[t] = "channel" /\ \A f \in Execs : InChan(f, t) => f = g
        /\ InQueue(g, t) => phase[t] = "queue" /\ \A f \in Execs : InQueue(f, t) => f = g
  BY DEF ChanOwner, QueueOwner, InChan, InQueue
<1>5. \A t \in Tasks, g \in Execs : g # h /\ (InChan(g, t) \/ InQueue(g, t)) => phase'[t] = phase[t]
  BY <1>2, <1>4
<1>6. ChanOwner'
  <2> SUFFICES ASSUME NEW g \in Execs, NEW t \in Tasks, NEW i \in DOMAIN chan'[g], chan'[g][i] = Spawn(t)
               PROVE  /\ phase'[t] = "channel"
                      /\ \A f \in Execs : \A j \in DOMAIN chan'[f] :
                           chan'[f][j] = Spawn(t) => f = g /\ j = i
    BY DEF ChanOwner, Spawn
  <2>1. g # h /\ i \in DOMAIN chan[g] /\ chan[g][i] = Spawn(t)
    BY <1>1
  <2>2. /\ phase[t] = "channel" /\ InChan(g, t)
        /\ \A f \in Execs : \A j \in DOMAIN chan[f] : chan[f][j] = Spawn(t) => f = g /\ j = i
    BY <2>1 DEF ChanOwner, InChan
  <2>3. phase'[t] = "channel"
    BY <1>5, <2>1, <2>2
  <2>4. ASSUME NEW f \in Execs, NEW j \in DOMAIN chan'[f], chan'[f][j] = Spawn(t) PROVE f = g /\ j = i
    <3>1. j \in DOMAIN chan[f] /\ chan[f][j] = Spawn(t)
      BY <1>1, <2>4
    <3>2. QED
      BY <2>2, <3>1
  <2>5. QED
    BY <2>3, <2>4
<1>7. QueueOwner'
  <2> SUFFICES ASSUME NEW g \in Execs, NEW q \in Levels, NEW i \in DOMAIN tasks'[g][q]
               PROVE  /\ phase'[tasks'[g][q][i]] = "queue"
                      /\ Prio[tasks'[g][q][i]] = q
                      /\ \A f \in Execs, r \in Levels : \A j \in DOMAIN tasks'[f][r] :
                           tasks'[f][r][j] = tasks'[g][q][i] => f = g /\ r = q /\ j = i
    BY DEF QueueOwner
  <2>1. g # h /\ i \in DOMAIN tasks[g][q] /\ tasks'[g][q][i] = tasks[g][q][i]
    BY <1>1
  <2> DEFINE t == tasks[g][q][i]
  <2>2. /\ t \in Tasks /\ InQueue(g, t) /\ phase[t] = "queue" /\ Prio[t] = q
        /\ \A f \in Execs, r \in Levels : \A j \in DOMAIN tasks[f][r] :
             tasks[f][r][j] = t => f = g /\ r = q /\ j = i
    BY <2>1, QueuedAreTasks DEF QueueOwner, InQueue
  <2>3. phase'[t] = "queue"
    BY <1>5, <2>1, <2>2
  <2>4. ASSUME NEW f \in Execs, NEW r \in Levels, NEW j \in DOMAIN tasks'[f][r], tasks'[f][r][j] = t
        PROVE  f = g /\ r = q /\ j = i
    <3>1. j \in DOMAIN tasks[f][r] /\ tasks[f][r][j] = t
      BY <1>1, <2>4
    <3>2. QED
      BY <2>2, <3>1
  <2>5. QED
    BY <2>1, <2>2, <2>3, <2>4
<1>8. QED
  BY <1>2, <1>3, <1>6, <1>7

\* Untouched channels and queues hold what they held.
LEMMA SameContents ==
  /\ UNCHANGED chan => \A h \in Execs, t \in Tasks : InChan(h, t)' <=> InChan(h, t)
  /\ UNCHANGED tasks => \A h \in Execs, t \in Tasks : InQueue(h, t)' <=> InQueue(h, t)
  BY DEF InChan, InQueue, Spawn

-----------------------------------------------------------------------------
(* The invariant: a task has one owner, and one that has not ended has one.*)

Coherent == OneOwner /\ NothingLost

\* Steps that move no task.
LEMMA SameOwners ==
  ASSUME TypeInv, Coherent, UNCHANGED <<tasks, running, phase>>,
         \A th \in Threads, t \in Tasks : job'[th] = Spawn(t) <=> job[th] = Spawn(t),
         ChanOwner', \A h \in Execs, t \in Tasks : InChan(h, t)' <=> InChan(h, t)
  PROVE  Coherent'
<1>1. CallOwner' /\ QueueOwner' /\ RunOwner'
  BY CallFrame, QueueFrame, RunFrame DEF Coherent, OneOwner
<1>2. NothingLost'
  BY SameContents DEF Coherent, NothingLost, Spawn
<1>3. QED
  BY <1>1, <1>2 DEF Coherent, OneOwner

LEMMA InitOwners == Init => Coherent
<1> SUFFICES ASSUME Init PROVE Coherent
  OBVIOUS
<1>1. /\ \A th \in Threads, t \in Tasks : job[th] # Spawn(t)
      /\ \A h \in Execs : DOMAIN chan[h] = {} /\ running[h] = None
      /\ \A h \in Execs, p \in Levels : DOMAIN tasks[h][p] = {}
      /\ \A t \in Tasks : phase[t] = "new"
  BY TransactionsDiffer DEF Init, EmptyQueues
<1>2. QED
  BY <1>1 DEF Coherent, OneOwner, CallOwner, ChanOwner, QueueOwner, RunOwner, NothingLost

LEMMA NextOwners == TypeInv /\ Coherent /\ [Next]_vars => Coherent'
<1> USE DEF vars, callVars, execVars
<1> SUFFICES ASSUME TypeInv, Coherent, [Next]_vars PROVE Coherent'
  OBVIOUS
<1>0. CallOwner /\ ChanOwner /\ QueueOwner /\ RunOwner /\ NothingLost
  BY DEF Coherent, OneOwner
<1>a. ASSUME UNCHANGED <<chan, tasks, running, phase>>,
             \A th \in Threads, t \in Tasks : job'[th] = Spawn(t) <=> job[th] = Spawn(t)
      PROVE  Coherent'
  BY <1>0, <1>a, ChanFrame, SameContents, SameOwners
<1>b. ASSUME NEW th \in Threads, NEW tr, job' = [job EXCEPT ![th] = tr],
             \A t \in Tasks : tr # Spawn(t) /\ job[th] # Spawn(t)
      PROVE  \A g \in Threads, t \in Tasks : job'[g] = Spawn(t) <=> job[g] = Spawn(t)
  BY <1>b DEF TypeInv, TypeOK
<1>1. ASSUME NEW th \in Threads, NEW t \in Tasks, CallSpawn(th, t) PROVE Coherent'
  <2>1. /\ phase[t] = "new" /\ phase' = [phase EXCEPT ![t] = "call"]
        /\ job[th] = NoCall /\ job' = [job EXCEPT ![th] = Spawn(t)]
        /\ UNCHANGED <<chan, tasks, running>>
    BY <1>1 DEF CallSpawn, Begin, BeginAt, TypeInv, LocalsMatch, CallLocals
  <2>2. /\ phase'[t] = "call" /\ job'[th] = Spawn(t)
        /\ \A u \in Tasks : u # t => phase'[u] = phase[u]
        /\ \A g \in Threads : g # th => job'[g] = job[g]
        /\ \A u \in Tasks : job[th] # Spawn(u) /\ (job'[th] = Spawn(u) => u = t)
    BY <2>1, TransactionsDiffer DEF TypeInv, TypeOK
  <2>3. CallOwner'
    <3> SUFFICES ASSUME NEW g \in Threads, NEW u \in Tasks, job'[g] = Spawn(u)
                 PROVE  phase'[u] = "call" /\ \A f \in Threads : job'[f] = Spawn(u) => f = g
      BY DEF CallOwner, Spawn
    <3>1. \A f \in Threads : job[f] # Spawn(t)
      BY <1>0, <2>1 DEF CallOwner
    <3>2. CASE u = t
      BY <2>2, <3>1, <3>2
    <3>3. CASE u # t
      BY <1>0, <2>2, <3>3 DEF CallOwner
    <3>4. QED
      BY <3>2, <3>3
  <2>4. ChanOwner' /\ QueueOwner' /\ RunOwner'
    BY <1>0, <2>1, <2>2, ChanFrame, QueueFrame, RunFrame
  <2>5. NothingLost'
    <3> SUFFICES ASSUME NEW u \in Tasks
                 PROVE  /\ phase'[u] = "call" => \E g \in Threads : job'[g] = Spawn(u)
                        /\ phase'[u] = "channel" => \E h \in Execs : InChan(h, u)'
                        /\ phase'[u] = "queue" => \E h \in Execs : InQueue(h, u)'
                        /\ phase'[u] = "polling" => \E h \in Execs : running'[h] = u
      BY DEF NothingLost, Spawn
    <3>1. CASE u = t
      BY <2>2, <3>1
    <3>2. CASE u # t
      BY <1>0, <2>1, <2>2, <3>2, SameContents DEF NothingLost
    <3>3. QED
      BY <3>1, <3>2
  <2>6. QED
    BY <2>3, <2>4, <2>5 DEF Coherent, OneOwner
<1>2. ASSUME NEW th \in Threads, NEW o \in IoOps, CallSubmit(th, o) PROVE Coherent'
  <2>1. /\ job[th] = NoCall /\ job' = [job EXCEPT ![th] = SubmitIoOp(o)]
        /\ UNCHANGED <<chan, tasks, running, phase>>
    BY <1>2 DEF CallSubmit, Begin, BeginAt, TypeInv, LocalsMatch, CallLocals
  <2>2. QED
    BY <1>a, <1>b, <2>1, TransactionsDiffer
<1>3. CASE CallPoll
  <2>1. /\ Driver \in Threads
        /\ job[Driver] = NoCall /\ job' = [job EXCEPT ![Driver] = Poll]
        /\ UNCHANGED <<chan, tasks, running, phase>>
    BY <1>3 DEF CallPoll, Begin, BeginAt, TypeInv, LocalsMatch, CallLocals, Threads
  <2>2. QED
    BY <1>a, <1>b, <2>1, TransactionsDiffer
<1>4. ASSUME NEW th \in Threads, StoreIndex(th) PROVE Coherent'
  BY <1>a, <1>4 DEF StoreIndex
\* A transaction that carries no task is pushed, and the call may end.
<1>5. ASSUME NEW th \in Threads, step[th] = "send", Push(th) \/ UNCHANGED chan,
             \A t \in Tasks : job[th] # Spawn(t),
             job' = job \/ job' = [job EXCEPT ![th] = NoCall],
             UNCHANGED <<tasks, running, phase>>
      PROVE  Coherent'
  <2>1. \A g \in Threads, t \in Tasks : job'[g] = Spawn(t) <=> job[g] = Spawn(t)
    <3>1. \A t \in Tasks : NoCall # Spawn(t)
      BY TransactionsDiffer
    <3>2. CASE job' = [job EXCEPT ![th] = NoCall]
      BY <1>b, <1>5, <3>1, <3>2
    <3>3. QED
      BY <1>5, <3>2
  <2>2. CASE Push(th)
    <3>1. ChanOwner' /\ \A h \in Execs, t \in Tasks : InChan(h, t)' <=> InChan(h, t)
      BY <1>0, <1>5, <2>2, PushOwners
    <3>2. QED
      BY <1>5, <2>1, <3>1, SameOwners
  <2>3. CASE UNCHANGED chan
    BY <1>a, <1>5, <2>1, <2>3
  <2>4. QED
    BY <1>5, <2>2, <2>3
<1>6. ASSUME NEW th \in Threads, SendPoll(th) PROVE Coherent'
  <2>1. \A t \in Tasks : job[th] # Spawn(t)
    BY <1>6, TransactionsDiffer DEF SendPoll, Sending
  <2>2. QED
    BY <1>5, <1>6, <2>1 DEF SendPoll, Sending, End
<1>7. ASSUME NEW th \in Threads, SendSubmit(th) PROVE Coherent'
  <2>1. \A t \in Tasks : job[th] # Spawn(t)
    BY <1>7, TransactionsDiffer DEF SendSubmit, Sending
  <2>2. QED
    BY <1>5, <1>7, <2>1 DEF SendSubmit, Sending
<1>8. ASSUME NEW th \in Threads, Return(th) PROVE Coherent'
  <2>1. \A t \in Tasks : job[th] # Spawn(t)
    BY <1>8, TransactionsDiffer DEF Return, TypeInv, LocalsMatch, CallLocals
  <2>2. QED
    BY <1>a, <1>b, <1>8, <2>1, TransactionsDiffer DEF Return, End
<1>9. ASSUME NEW th \in Threads, SendSpawn(th) PROVE Coherent'
  <2> DEFINE t == job[th].arg
             to == IF Connected(th) THEN "channel" ELSE "dropped"
  <2>1. t \in Tasks /\ job[th] = Spawn(t)
    BY <1>9, CallArgs DEF SendSpawn, Sending
  <2>2. /\ job' = [job EXCEPT ![th] = NoCall] /\ UNCHANGED <<tasks, running>>
        /\ phase' = [phase EXCEPT ![t] = to]
        /\ IF Connected(th) THEN Push(th) ELSE UNCHANGED chan
    BY <1>9 DEF SendSpawn, End
  <2>3. /\ phase[t] = "call" /\ phase'[t] = to
        /\ \A u \in Tasks : u # t => phase'[u] = phase[u]
        /\ \A g \in Threads : g # th => job'[g] = job[g]
        /\ \A u \in Tasks : job'[th] # Spawn(u) /\ (job[th] = Spawn(u) => u = t)
    BY <1>0, <2>1, <2>2, TransactionsDiffer DEF TypeInv, TypeOK, CallOwner
  <2>4. slot[th] \in Execs /\ step[th] = "send"
    BY <1>9, CallArgs DEF SendSpawn, Sending
  <2> HIDE DEF t
  <2>5. CallOwner'
    BY <1>0, <2>1, <2>3, CallFrame DEF CallOwner
  <2>6. QueueOwner' /\ RunOwner'
    BY <1>0, <2>2, <2>3, QueueFrame, RunFrame
  <2>7. /\ ChanOwner'
        /\ \A h \in Execs, u \in Tasks :
             InChan(h, u)' <=> InChan(h, u) \/ (Connected(th) /\ h = slot[th] /\ u = t)
    <3>1. CASE Connected(th)
      BY <1>0, <2>1, <2>2, <2>3, <2>4, <3>1, PushOwners
    <3>2. CASE ~Connected(th)
      BY <1>0, <2>2, <2>3, <3>2, ChanFrame, SameContents
    <3>3. QED
      BY <3>1, <3>2
  <2>8. NothingLost'
    <3> SUFFICES ASSUME NEW u \in Tasks
                 PROVE  /\ phase'[u] = "call" => \E g \in Threads : job'[g] = Spawn(u)
                        /\ phase'[u] = "channel" => \E h \in Execs : InChan(h, u)'
                        /\ phase'[u] = "queue" => \E h \in Execs : InQueue(h, u)'
                        /\ phase'[u] = "polling" => \E h \in Execs : running'[h] = u
      BY DEF NothingLost, Spawn
    <3>1. CASE u = t
      BY <2>3, <2>4, <2>7, <3>1
    <3>2. CASE u # t
      BY <1>0, <2>2, <2>3, <2>7, <3>2, SameContents DEF NothingLost
    <3>3. QED
      BY <3>1, <3>2
  <2>9. QED
    BY <2>5, <2>6, <2>7, <2>8 DEF Coherent, OneOwner
\* Locals of a receiving executor.
<1>c. ASSUME NEW h \in Execs, NEW op \in {"Poll", "Spawn", "SubmitIoOp"}, Receive(h, op)
      PROVE  /\ running[h] = None
             /\ Head(chan[h]) \in Transactions /\ Head(chan[h]).op = op
             /\ op = "Spawn" =>
                  /\ Head(chan[h]).arg \in Tasks
                  /\ InChan(h, Head(chan[h]).arg)
                  /\ Head(chan[h]) = Spawn(Head(chan[h]).arg)
             /\ op # "Spawn" => \A t \in Tasks : Head(chan[h]) # Spawn(t)
  <2>1. chan[h] \in Seq(Transactions) /\ chan[h] # <<>> /\ Head(chan[h]).op = op /\ pc[h] = "recv"
    BY <1>c DEF Receive, TypeInv, TypeOK
  <2>2. Head(chan[h]) \in Transactions /\ 1 \in DOMAIN chan[h] /\ Head(chan[h]) = chan[h][1]
    BY <2>1, TailElements
  <2>3. running[h] = None
    BY <2>1 DEF TypeInv, LocalsMatch, LoopLocals
  <2>4. QED
    BY <2>1, <2>2, <2>3, TransactionTypes, TransactionsDiffer DEF InChan
<1>10. ASSUME NEW h \in Execs, NEW op \in {"Poll", "SubmitIoOp"}, Receive(h, op),
              UNCHANGED <<job, tasks, running, phase>>
       PROVE  Coherent'
  <2>1. ChanOwner' /\ \A g \in Execs, t \in Tasks : InChan(g, t)' <=> InChan(g, t)
    BY <1>0, <1>c, <1>10, ReceiveOwners
  <2>2. QED
    BY <1>10, <2>1, SameOwners
<1>11. ASSUME NEW h \in Execs, RecvSubmit(h) PROVE Coherent'
  BY <1>10, <1>11 DEF RecvSubmit
<1>12. ASSUME NEW h \in Execs, RecvIdlePoll(h) PROVE Coherent'
  BY <1>10, <1>12 DEF RecvIdlePoll
<1>13. ASSUME NEW h \in Execs, RecvNothing(h) PROVE Coherent'
  BY <1>a, <1>13 DEF RecvNothing
<1>14. ASSUME NEW h \in Execs, RecvSpawn(h) PROVE Coherent'
  <2> DEFINE t == Head(chan[h]).arg
  <2>1. /\ t \in Tasks /\ InChan(h, t) /\ Head(chan[h]) = Spawn(t)
    BY <1>c, <1>14 DEF RecvSpawn
  <2>2. /\ tasks' = [tasks EXCEPT ![h][Prio[t]] = Append(@, t)]
        /\ phase' = [phase EXCEPT ![t] = "queue"]
        /\ UNCHANGED <<job, running>> /\ Receive(h, "Spawn")
    BY <1>14 DEF RecvSpawn
  <2>3. /\ phase[t] = "channel" /\ phase'[t] = "queue"
        /\ \A u \in Tasks : u # t => phase'[u] = phase[u]
        /\ \A u \in Tasks : Head(chan[h]) = Spawn(u) <=> u = t
    <3>1. phase[t] = "channel"
      BY <1>0, <2>1 DEF ChanOwner, InChan
    <3>2. \A u \in Tasks : Head(chan[h]) = Spawn(u) <=> u = t
      BY <2>1, TransactionsDiffer
    <3>3. phase'[t] = "queue" /\ \A u \in Tasks : u # t => phase'[u] = phase[u]
      BY <2>1, <2>2 DEF TypeInv, TypeOK
    <3>4. QED
      BY <3>1, <3>2, <3>3
  <2> HIDE DEF t
  <2>4. CallOwner' /\ RunOwner'
    BY <1>0, <2>2, <2>3, CallFrame, RunFrame DEF CallOwner
  <2>5. ChanOwner' /\ \A g \in Execs, u \in Tasks : InChan(g, u)' <=> InChan(g, u) /\ u # t
    BY <1>0, <2>2, <2>3, ReceiveOwners
  <2>6. QueueOwner' /\ \A g \in Execs, u \in Tasks : InQueue(g, u)' <=> InQueue(g, u) \/ (g = h /\ u = t)
    BY <1>0, <2>1, <2>2, <2>3, EnqueueOwners
  <2>7. NothingLost'
    <3> SUFFICES ASSUME NEW u \in Tasks
                 PROVE  /\ phase'[u] = "call" => \E g \in Threads : job'[g] = Spawn(u)
                        /\ phase'[u] = "channel" => \E g \in Execs : InChan(g, u)'
                        /\ phase'[u] = "queue" => \E g \in Execs : InQueue(g, u)'
                        /\ phase'[u] = "polling" => \E g \in Execs : running'[g] = u
      BY DEF NothingLost, Spawn
    <3>1. CASE u = t
      BY <2>3, <2>6, <3>1
    <3>2. CASE u # t
      BY <1>0, <2>2, <2>3, <2>5, <2>6, <3>2 DEF NothingLost
    <3>3. QED
      BY <3>1, <3>2
  <2>8. QED
    BY <2>4, <2>5, <2>6, <2>7 DEF Coherent, OneOwner
<1>15. ASSUME NEW h \in Execs, RecvPoll(h) PROVE Coherent'
  <2>1. PICK p \in Levels :
          /\ tasks[h][p] # <<>>
          /\ tasks' = [tasks EXCEPT ![h][p] = Tail(@)]
          /\ running' = [running EXCEPT ![h] = Head(tasks[h][p])]
          /\ phase' = [phase EXCEPT ![Head(tasks[h][p])] = "polling"]
    BY <1>15, Scanned DEF Run
  <2> DEFINE t == Head(tasks[h][p])
  <2>2. t \in Tasks /\ InQueue(h, t) /\ phase[t] = "queue"
    <3>1. tasks[h][p] \in Seq(Tasks)
      BY DEF TypeInv, TypeOK
    <3>2. t \in Tasks /\ 1 \in DOMAIN tasks[h][p] /\ t = tasks[h][p][1]
      BY <2>1, <3>1, TailElements
    <3>3. QED
      BY <1>0, <3>2 DEF InQueue, QueueOwner
  <2>3. running[h] = None /\ Receive(h, "Poll") /\ UNCHANGED job
    BY <1>c, <1>15, Scanned DEF Run
  <2>4. ChanOwner' /\ \A g \in Execs, u \in Tasks : InChan(g, u)' <=> InChan(g, u)
    BY <1>0, <1>c, <2>1, <2>2, <2>3, ReceiveOwners DEF TypeInv, TypeOK
  <2>5. QueueOwner' /\ \A g \in Execs, u \in Tasks : InQueue(g, u)' <=> InQueue(g, u) /\ u # t
    BY <1>0, <2>1, <2>2, DequeueOwners DEF TypeInv, TypeOK
  <2>6. /\ phase'[t] = "polling" /\ \A u \in Tasks : u # t => phase'[u] = phase[u]
        /\ running'[h] = t /\ \A g \in Execs : g # h => running'[g] = running[g]
    BY <2>1, <2>2 DEF TypeInv, TypeOK
  <2> HIDE DEF t
  <2>7. CallOwner'
    BY <1>0, <2>2, <2>3, <2>6, CallFrame DEF CallOwner
  <2>8. RunOwner'
    <3>1. \A g \in Execs : running[g] # None => running[g] # t /\ running[g] \in Tasks
      BY <1>0, <2>2 DEF RunOwner, TypeInv, TypeOK
    <3>2. \A g \in Execs : running'[g] # None => phase'[running'[g]] = "polling"
      BY <1>0, <2>6, <3>1 DEF RunOwner
    <3>3. ASSUME NEW g \in Execs, NEW f \in Execs, running'[g] # None, running'[f] = running'[g]
          PROVE  f = g
      BY <1>0, <2>2, <2>6, <3>1, <3>3 DEF RunOwner
    <3>4. QED
      BY <3>2, <3>3 DEF RunOwner
  <2>9. NothingLost'
    <3> SUFFICES ASSUME NEW u \in Tasks
                 PROVE  /\ phase'[u] = "call" => \E g \in Threads : job'[g] = Spawn(u)
                        /\ phase'[u] = "channel" => \E g \in Execs : InChan(g, u)'
                        /\ phase'[u] = "queue" => \E g \in Execs : InQueue(g, u)'
                        /\ phase'[u] = "polling" => \E g \in Execs : running'[g] = u
      BY DEF NothingLost, Spawn
    <3>1. CASE u = t
      BY <2>6, <3>1
    <3>2. CASE u # t
      BY <1>0, <2>2, <2>3, <2>4, <2>5, <2>6, <3>2, NoneAssumption DEF NothingLost
    <3>3. QED
      BY <3>1, <3>2
  <2>10. QED
    BY <2>4, <2>5, <2>7, <2>8, <2>9 DEF Coherent, OneOwner
\* The task being polled leaves its executor.
<1>d. ASSUME NEW h \in Execs, Polling(h) PROVE running[h] \in Tasks /\ phase[running[h]] = "polling"
  BY <1>0, <1>d DEF Polling, RunOwner, TypeInv, TypeOK, LocalsMatch, LoopLocals
<1>e. ASSUME NEW h \in Execs, running[h] \in Tasks, running' = [running EXCEPT ![h] = None],
             \A u \in Tasks : phase[u] = "polling" /\ u # running[h] => phase'[u] = "polling"
      PROVE  RunOwner' /\ \A g \in Execs, u \in Tasks : running'[g] = u <=> running[g] = u /\ u # running[h]
  <2>1. /\ running'[h] = None /\ \A g \in Execs : g # h => running'[g] = running[g]
        /\ \A g \in Execs : g # h => running[g] # running[h]
    BY <1>0, <1>e, NoneAssumption DEF RunOwner, TypeInv, TypeOK
  <2>2. RunOwner'
    BY <1>0, <1>e, <2>1 DEF RunOwner, TypeInv, TypeOK
  <2>3. QED
    BY <1>e, <2>1, <2>2, NoneAssumption
<1>16. ASSUME NEW h \in Execs, PollReady(h) PROVE Coherent'
  <2> DEFINE t == running[h]
  <2>1. /\ t \in Tasks /\ phase[t] = "polling" /\ phase' = [phase EXCEPT ![t] = "done"]
        /\ running' = [running EXCEPT ![h] = None] /\ UNCHANGED <<job, chan, tasks>>
    BY <1>d, <1>16 DEF PollReady
  <2>2. phase'[t] = "done" /\ \A u \in Tasks : u # t => phase'[u] = phase[u]
    BY <2>1 DEF TypeInv, TypeOK
  <2>3. RunOwner' /\ \A g \in Execs, u \in Tasks : running'[g] = u <=> running[g] = u /\ u # t
    BY <1>e, <2>1, <2>2
  <2> HIDE DEF t
  <2>4. CallOwner' /\ ChanOwner' /\ QueueOwner'
    BY <1>0, <2>1, <2>2, CallFrame, ChanFrame, QueueFrame DEF CallOwner
  <2>5. NothingLost'
    <3> SUFFICES ASSUME NEW u \in Tasks
                 PROVE  /\ phase'[u] = "call" => \E g \in Threads : job'[g] = Spawn(u)
                        /\ phase'[u] = "channel" => \E g \in Execs : InChan(g, u)'
                        /\ phase'[u] = "queue" => \E g \in Execs : InQueue(g, u)'
                        /\ phase'[u] = "polling" => \E g \in Execs : running'[g] = u
      BY DEF NothingLost, Spawn
    <3>1. QED
      BY <1>0, <2>1, <2>2, <2>3, SameContents DEF NothingLost
  <2>6. QED
    BY <2>3, <2>4, <2>5 DEF Coherent, OneOwner
<1>17. ASSUME NEW h \in Execs, PollPending(h) PROVE Coherent'
  <2> DEFINE t == running[h]
  <2>1. /\ t \in Tasks /\ phase[t] = "polling" /\ phase' = [phase EXCEPT ![t] = "queue"]
        /\ tasks' = [tasks EXCEPT ![h][Prio[t]] = Append(@, t)]
        /\ running' = [running EXCEPT ![h] = None] /\ UNCHANGED <<job, chan>>
    BY <1>d, <1>17 DEF PollPending, Pends, Requeue
  <2>2. phase'[t] = "queue" /\ \A u \in Tasks : u # t => phase'[u] = phase[u]
    BY <2>1 DEF TypeInv, TypeOK
  <2>3. RunOwner' /\ \A g \in Execs, u \in Tasks : running'[g] = u <=> running[g] = u /\ u # t
    BY <1>e, <2>1, <2>2
  <2> HIDE DEF t
  <2>4. CallOwner' /\ ChanOwner'
    BY <1>0, <2>1, <2>2, CallFrame, ChanFrame DEF CallOwner
  <2>5. QueueOwner' /\ \A g \in Execs, u \in Tasks : InQueue(g, u)' <=> InQueue(g, u) \/ (g = h /\ u = t)
    BY <1>0, <2>1, <2>2, EnqueueOwners
  <2>6. NothingLost'
    <3> SUFFICES ASSUME NEW u \in Tasks
                 PROVE  /\ phase'[u] = "call" => \E g \in Threads : job'[g] = Spawn(u)
                        /\ phase'[u] = "channel" => \E g \in Execs : InChan(g, u)'
                        /\ phase'[u] = "queue" => \E g \in Execs : InQueue(g, u)'
                        /\ phase'[u] = "polling" => \E g \in Execs : running'[g] = u
      BY DEF NothingLost, Spawn
    <3>1. QED
      BY <1>0, <2>1, <2>2, <2>3, <2>5, SameContents DEF NothingLost
  <2>7. QED
    BY <2>3, <2>4, <2>5, <2>6 DEF Coherent, OneOwner
<1>18. ASSUME NEW h \in Execs, PollPanic(h) PROVE Coherent'
  <2> DEFINE t == running[h]
             ended == [phase EXCEPT ![t] = "panicked"]
  <2>1. /\ t \in Tasks /\ phase[t] = "polling" /\ ThreadEnds(h, ended)
        /\ running' = [running EXCEPT ![h] = None] /\ UNCHANGED job
    BY <1>d, <1>18 DEF PollPanic
  <2>2. ended[t] = "panicked" /\ \A u \in Tasks : u # t => ended[u] = phase[u]
    BY <2>1 DEF TypeInv, TypeOK
  <2> HIDE DEF ended
  <2>3. /\ ChanOwner' /\ QueueOwner'
        /\ \A g \in Execs, u \in Tasks : InChan(g, u)' <=> InChan(g, u) /\ g # h
        /\ \A g \in Execs, u \in Tasks : InQueue(g, u)' <=> InQueue(g, u) /\ g # h
        /\ \A u \in Tasks : InChan(h, u) \/ InQueue(h, u) => phase'[u] = "dropped"
        /\ \A u \in Tasks : ~InChan(h, u) /\ ~InQueue(h, u) => phase'[u] = ended[u]
    BY <1>0, <2>1, <2>2, EndsOwners
  <2>4. \A g \in Execs, u \in Tasks :
          /\ InChan(g, u) => phase[u] = "channel"
          /\ InQueue(g, u) => phase[u] = "queue"
    BY <1>0 DEF ChanOwner, QueueOwner, InChan, InQueue
  <2>5. phase'[t] = "panicked" /\ \A u \in Tasks : phase[u] \in {"call", "polling"} /\ u # t => phase'[u] = phase[u]
    BY <2>1, <2>2, <2>3, <2>4
  <2>6. RunOwner' /\ \A g \in Execs, u \in Tasks : running'[g] = u <=> running[g] = u /\ u # t
    BY <1>e, <2>1, <2>5
  <2> HIDE DEF t
  <2>7. CallOwner'
    BY <1>0, <2>1, <2>5, CallFrame DEF CallOwner
  <2>8. NothingLost'
    <3> SUFFICES ASSUME NEW u \in Tasks
                 PROVE  /\ phase'[u] = "call" => \E g \in Threads : job'[g] = Spawn(u)
                        /\ phase'[u] = "channel" => \E g \in Execs : InChan(g, u)'
                        /\ phase'[u] = "queue" => \E g \in Execs : InQueue(g, u)'
                        /\ phase'[u] = "polling" => \E g \in Execs : running'[g] = u
      BY DEF NothingLost, Spawn
    <3>1. CASE u = t
      BY <2>5, <3>1
    <3>2. CASE InChan(h, u) \/ InQueue(h, u)
      BY <2>3, <3>2
    <3>3. CASE u # t /\ ~InChan(h, u) /\ ~InQueue(h, u)
      BY <1>0, <2>1, <2>2, <2>3, <2>6, <3>3 DEF NothingLost
    <3>4. QED
      BY <3>1, <3>2, <3>3
  <2>9. QED
    BY <2>3, <2>6, <2>7, <2>8 DEF Coherent, OneOwner
<1>19. ASSUME NEW h \in Execs, CheckShutdown(h) PROVE Coherent'
  <2>1. CASE ~shutdown
    BY <1>a, <1>19, <2>1 DEF CheckShutdown, EndsIf
  <2>2. CASE shutdown
    <3>1. ThreadEnds(h, phase) /\ UNCHANGED <<job, running>>
      BY <1>19, <2>2 DEF CheckShutdown, EndsIf
    <3>2. /\ ChanOwner' /\ QueueOwner'
          /\ \A g \in Execs, u \in Tasks : InChan(g, u)' <=> InChan(g, u) /\ g # h
          /\ \A g \in Execs, u \in Tasks : InQueue(g, u)' <=> InQueue(g, u) /\ g # h
          /\ \A u \in Tasks : InChan(h, u) \/ InQueue(h, u) => phase'[u] = "dropped"
          /\ \A u \in Tasks : ~InChan(h, u) /\ ~InQueue(h, u) => phase'[u] = phase[u]
      BY <1>0, <3>1, EndsOwners
    <3>3. \A g \in Execs, u \in Tasks :
            /\ InChan(g, u) => phase[u] = "channel"
            /\ InQueue(g, u) => phase[u] = "queue"
      BY <1>0 DEF ChanOwner, QueueOwner, InChan, InQueue
    <3>4. \A u \in Tasks : phase[u] \in {"call", "polling"} => phase'[u] = phase[u]
      BY <3>2, <3>3
    <3>5. CallOwner' /\ RunOwner'
      BY <1>0, <3>1, <3>4, CallFrame, RunFrame DEF CallOwner
    <3>6. NothingLost'
      <4> SUFFICES ASSUME NEW u \in Tasks
                   PROVE  /\ phase'[u] = "call" => \E g \in Threads : job'[g] = Spawn(u)
                          /\ phase'[u] = "channel" => \E g \in Execs : InChan(g, u)'
                          /\ phase'[u] = "queue" => \E g \in Execs : InQueue(g, u)'
                          /\ phase'[u] = "polling" => \E g \in Execs : running'[g] = u
        BY DEF NothingLost, Spawn
      <4>1. CASE InChan(h, u) \/ InQueue(h, u)
        BY <3>2, <4>1
      <4>2. CASE ~InChan(h, u) /\ ~InQueue(h, u)
        BY <1>0, <3>1, <3>2, <4>2 DEF NothingLost
      <4>3. QED
        BY <4>1, <4>2
    <3>7. QED
      BY <3>2, <3>5, <3>6 DEF Coherent, OneOwner
  <2>3. QED
    BY <2>1, <2>2
<1>20. ASSUME NEW h \in Execs, PollerExit(h) PROVE Coherent'
  BY <1>a, <1>20 DEF PollerExit
<1>21. CASE Shutdown
  BY <1>a, <1>21 DEF Shutdown
<1>22. CASE UNCHANGED vars
  BY <1>a, <1>22
<1>23. QED
  BY <1>1, <1>2, <1>3, <1>4, <1>6, <1>7, <1>8, <1>9, <1>11, <1>12, <1>13, <1>14, <1>15,
     <1>16, <1>17, <1>18, <1>19, <1>20, <1>21, <1>22
     DEF Next, Call, ClientCall, ExecStep, Threads

LEMMA Invariant == Spec => [](TypeInv /\ Coherent)
<1>1. Init => TypeInv /\ Coherent
  BY InitTypes, InitOwners
<1>2. TypeInv /\ Coherent /\ [Next]_vars => TypeInv' /\ Coherent'
  BY NextTypes, NextOwners
<1>3. QED
  BY <1>1, <1>2, PTL DEF Spec

\* No task object is ever in two places: the raw pointer it wraps has one user.
THEOREM SingleOwner == Spec => []OneOwner
  BY Invariant, PTL DEF Coherent

\* A spawned task whose executor runs is never mislaid.
THEOREM NoTaskLost == Spec => []NothingLost
  BY Invariant, PTL DEF Coherent

-----------------------------------------------------------------------------
(* Refinement: Scheduler implements TaskPool.                              *)

Waiting(t) == phase[t] \in {"call", "channel", "queue"}
Lost(t)    == phase[t] = "dropped"
Alive(h)   == pc[h] # "exited"

WaitingSet == {t \in Tasks : phase[t] \in {"call", "channel", "queue"}}
SettledSet == {t \in Tasks : Settled(t)}
LostSet    == {t \in Tasks : phase[t] = "dropped"}
AliveSet   == {h \in Execs : pc[h] # "exited"}

\* Steps that change none of what TaskPool sees.
LEMMA PoolStutters ==
  ASSUME UNCHANGED <<running, shutdown>>,
         \A t \in Tasks : (Waiting(t)' <=> Waiting(t)) /\ (Settled(t)' <=> Settled(t)) /\ (Lost(t)' <=> Lost(t)),
         \A h \in Execs : Alive(h)' <=> Alive(h)
  PROVE  UNCHANGED Pool!vars
<1>1. WaitingSet' = WaitingSet
  BY DEF WaitingSet, Waiting
<1>2. SettledSet' = SettledSet
  BY DEF SettledSet, Settled
<1>3. LostSet' = LostSet
  BY DEF LostSet, Lost
<1>4. AliveSet' = AliveSet
  BY DEF AliveSet, Alive
<1>5. QED
  BY <1>1, <1>2, <1>3, <1>4 DEF Pool!vars, WaitingSet, SettledSet, LostSet, AliveSet

LEMMA InitPool == Init => Pool!Init
  BY DEF Init, Pool!Init, Settled

LEMMA NextPool == TypeInv /\ Coherent /\ [Next]_vars => [Pool!Next]_Pool!vars
<1> USE DEF vars, callVars, execVars
<1> SUFFICES ASSUME TypeInv, Coherent, [Next]_vars PROVE Pool!Next \/ UNCHANGED Pool!vars
  OBVIOUS
<1>0. CallOwner /\ ChanOwner /\ QueueOwner /\ RunOwner /\ NothingLost
  BY DEF Coherent, OneOwner
\* Steps that leave every task and every executor as they were.
<1>a. ASSUME UNCHANGED <<running, shutdown, phase>>, \A h \in Execs : Alive(h)' <=> Alive(h)
      PROVE  UNCHANGED Pool!vars
  BY <1>a, PoolStutters DEF Waiting, Settled, Lost
\* An executor that moves within its loop stays alive.
<1>b. ASSUME NEW h \in Execs, NEW l \in {"recv", "poll", "check"}, pc[h] # "exited", Goto(h, l)
      PROVE  \A g \in Execs : Alive(g)' <=> Alive(g)
  BY <1>b DEF Alive, Goto, TypeInv, TypeOK
<1>c. UNCHANGED pc => \A g \in Execs : Alive(g)' <=> Alive(g)
  BY DEF Alive
<1>d. ASSUME UNCHANGED phase
      PROVE  WaitingSet' = WaitingSet /\ SettledSet' = SettledSet /\ LostSet' = LostSet
  BY <1>d DEF WaitingSet, SettledSet, LostSet, Settled
<1>e. ASSUME \A g \in Execs : Alive(g)' <=> Alive(g) PROVE AliveSet' = AliveSet
  BY <1>e DEF AliveSet, Alive
<1>1. ASSUME NEW th \in Threads, NEW t \in Tasks, CallSpawn(th, t) PROVE Pool!Next
  <2>1. /\ phase[t] = "new" /\ phase' = [phase EXCEPT ![t] = "call"]
        /\ UNCHANGED <<running, shutdown, pc>>
    BY <1>1 DEF CallSpawn
  <2>2. /\ phase'[t] = "call" /\ \A u \in Tasks : u # t => phase'[u] = phase[u]
    BY <2>1 DEF TypeInv, TypeOK
  <2>3. WaitingSet' = WaitingSet \cup {t} /\ SettledSet' = SettledSet /\ LostSet' = LostSet
    BY <2>1, <2>2 DEF WaitingSet, SettledSet, LostSet, Settled
  <2>4. t \notin WaitingSet \cup Pool!Polled \cup SettledSet \cup LostSet
    BY <1>0, <2>1, NoneAssumption DEF WaitingSet, SettledSet, LostSet, Settled, Pool!Polled, RunOwner
  <2>5. AliveSet' = AliveSet
    BY <1>c, <1>e, <2>1
  <2>6. Pool!Submit(t)
    BY <2>1, <2>3, <2>4, <2>5 DEF Pool!Submit, WaitingSet, SettledSet, LostSet, AliveSet
  <2>7. QED
    BY <2>6 DEF Pool!Next
<1>2. ASSUME NEW th \in Threads, SendSpawn(th) PROVE Pool!Next \/ UNCHANGED Pool!vars
  <2> DEFINE t == job[th].arg
  <2>1. /\ t \in Tasks /\ job[th] = Spawn(t) /\ slot[th] \in Execs
        /\ UNCHANGED <<running, shutdown, pc>>
    BY <1>2, CallArgs DEF SendSpawn, Sending
  <2>2. phase[t] = "call"
    BY <1>0, <2>1 DEF CallOwner
  <2>3. CASE Connected(th)
    <3>1. /\ phase'[t] = "channel" /\ \A u \in Tasks : u # t => phase'[u] = phase[u]
      BY <1>2, <2>1, <2>3 DEF SendSpawn, TypeInv, TypeOK
    <3>2. QED
      BY <1>c, <2>1, <2>2, <3>1, PoolStutters DEF Waiting, Settled, Lost
  <2>4. CASE ~Connected(th)
    <3>1. /\ phase'[t] = "dropped" /\ \A u \in Tasks : u # t => phase'[u] = phase[u]
      BY <1>2, <2>1, <2>4 DEF SendSpawn, TypeInv, TypeOK
    <3>2. /\ t \in WaitingSet /\ WaitingSet' = WaitingSet \ {t}
          /\ SettledSet' = SettledSet /\ LostSet' = LostSet \cup {t}
      BY <2>1, <2>2, <3>1 DEF WaitingSet, SettledSet, LostSet, Settled
    <3>3. AliveSet # Execs /\ AliveSet' = AliveSet
      BY <1>c, <1>e, <2>1, <2>4 DEF AliveSet, Connected
    <3>4. PICK u \in Tasks : u = t
      BY <2>1
    <3>5. Pool!Lose(u)
      BY <2>1, <3>2, <3>3, <3>4 DEF Pool!Lose, WaitingSet, SettledSet, LostSet, AliveSet
    <3>6. QED
      BY <3>5 DEF Pool!Next
  <2>5. QED
    BY <2>3, <2>4
<1>3. ASSUME NEW h \in Execs, RecvSpawn(h) PROVE UNCHANGED Pool!vars
  <2> DEFINE t == Head(chan[h]).arg
  <2>1. t \in Tasks /\ phase[t] = "channel" /\ pc[h] = "recv"
    <3>1. chan[h] \in Seq(Transactions) /\ chan[h] # <<>> /\ Head(chan[h]).op = "Spawn" /\ pc[h] = "recv"
      BY <1>3 DEF RecvSpawn, Receive, TypeInv, TypeOK
    <3>2. Head(chan[h]) \in Transactions /\ 1 \in DOMAIN chan[h] /\ Head(chan[h]) = chan[h][1]
      BY <3>1, TailElements
    <3>3. t \in Tasks /\ chan[h][1] = Spawn(t)
      BY <3>1, <3>2, TransactionTypes
    <3>4. QED
      BY <1>0, <3>1, <3>2, <3>3 DEF ChanOwner
  <2>2. phase'[t] = "queue" /\ \A u \in Tasks : u # t => phase'[u] = phase[u]
    BY <1>3, <2>1 DEF RecvSpawn, TypeInv, TypeOK
  <2>3. UNCHANGED <<running, shutdown>> /\ \A g \in Execs : Alive(g)' <=> Alive(g)
    BY <1>3, <1>b, <2>1 DEF RecvSpawn
  <2>4. QED
    BY <2>1, <2>2, <2>3, PoolStutters DEF Waiting, Settled, Lost
<1>4. ASSUME NEW h \in Execs, RecvPoll(h) PROVE Pool!Next
  <2>1. PICK p \in Levels :
          /\ tasks[h][p] # <<>>
          /\ running' = [running EXCEPT ![h] = Head(tasks[h][p])]
          /\ phase' = [phase EXCEPT ![Head(tasks[h][p])] = "polling"]
    BY <1>4, Scanned DEF Run
  <2> DEFINE t == Head(tasks[h][p])
  <2>2. t \in Tasks /\ phase[t] = "queue"
    <3>1. tasks[h][p] \in Seq(Tasks)
      BY DEF TypeInv, TypeOK
    <3>2. t \in Tasks /\ 1 \in DOMAIN tasks[h][p] /\ t = tasks[h][p][1]
      BY <2>1, <3>1, TailElements
    <3>3. QED
      BY <1>0, <3>2 DEF QueueOwner
  <2>3. pc[h] = "recv" /\ running[h] = None /\ UNCHANGED shutdown /\ Goto(h, "poll")
    BY <1>4, Scanned DEF Run, Receive, TypeInv, TypeOK, LocalsMatch, LoopLocals
  <2>4. phase'[t] = "polling" /\ \A u \in Tasks : u # t => phase'[u] = phase[u]
    BY <2>1, <2>2 DEF TypeInv, TypeOK
  <2>5. /\ t \in WaitingSet /\ WaitingSet' = WaitingSet \ {t}
        /\ SettledSet' = SettledSet /\ LostSet' = LostSet
    BY <2>2, <2>4 DEF WaitingSet, SettledSet, LostSet, Settled
  <2>6. h \in AliveSet /\ AliveSet' = AliveSet
    BY <1>b, <1>e, <2>3 DEF AliveSet
  <2>7. PICK u \in Tasks : u = t
    BY <2>2
  <2>8. Pool!Start(h, u)
    BY <2>1, <2>3, <2>5, <2>6, <2>7 DEF Pool!Start, WaitingSet, SettledSet, LostSet, AliveSet
  <2>9. QED
    BY <2>8 DEF Pool!Next
<1>f. ASSUME NEW h \in Execs, Polling(h)
      PROVE  running[h] \in Tasks /\ phase[running[h]] = "polling" /\ pc[h] = "poll"
  BY <1>0, <1>f DEF Polling, RunOwner, TypeInv, TypeOK, LocalsMatch, LoopLocals
<1>5. ASSUME NEW h \in Execs, PollReady(h) PROVE Pool!Next
  <2> DEFINE t == running[h]
  <2>1. /\ t \in Tasks /\ phase[t] = "polling" /\ phase' = [phase EXCEPT ![t] = "done"]
        /\ running' = [running EXCEPT ![h] = None] /\ UNCHANGED shutdown
        /\ Goto(h, "check") /\ pc[h] = "poll"
    BY <1>f, <1>5 DEF PollReady
  <2>2. phase'[t] = "done" /\ \A u \in Tasks : u # t => phase'[u] = phase[u]
    BY <2>1 DEF TypeInv, TypeOK
  <2>3. WaitingSet' = WaitingSet /\ SettledSet' = SettledSet \cup {t} /\ LostSet' = LostSet
    BY <2>1, <2>2 DEF WaitingSet, SettledSet, LostSet, Settled
  <2>4. AliveSet' = AliveSet
    BY <1>b, <1>e, <2>1
  <2>5. Pool!Finish(h)
    BY <2>1, <2>3, <2>4 DEF Pool!Finish, WaitingSet, SettledSet, LostSet, AliveSet
  <2>6. QED
    BY <2>5 DEF Pool!Next
<1>6. ASSUME NEW h \in Execs, PollPending(h) PROVE Pool!Next
  <2> DEFINE t == running[h]
  <2>1. /\ t \in Tasks /\ phase[t] = "polling" /\ phase' = [phase EXCEPT ![t] = "queue"]
        /\ running' = [running EXCEPT ![h] = None] /\ UNCHANGED shutdown
        /\ Goto(h, "check") /\ pc[h] = "poll"
    BY <1>f, <1>6 DEF PollPending, Pends, Requeue
  <2>2. phase'[t] = "queue" /\ \A u \in Tasks : u # t => phase'[u] = phase[u]
    BY <2>1 DEF TypeInv, TypeOK
  <2>3. WaitingSet' = WaitingSet \cup {t} /\ SettledSet' = SettledSet /\ LostSet' = LostSet
    BY <2>1, <2>2 DEF WaitingSet, SettledSet, LostSet, Settled
  <2>4. AliveSet' = AliveSet
    BY <1>b, <1>e, <2>1
  <2>5. Pool!Yield(h)
    BY <2>1, <2>3, <2>4 DEF Pool!Yield, WaitingSet, SettledSet, LostSet, AliveSet
  <2>6. QED
    BY <2>5 DEF Pool!Next
\* What a thread that ends loses: the tasks in its channel and its queues.
<1>g. ASSUME NEW h \in Execs, NEW ended, ThreadEnds(h, ended),
             \A t \in Tasks : phase[t] # "polling" => ended[t] = phase[t],
             \A t \in Tasks : phase[t] = "polling" => ended[t] \in {"polling", "panicked"}
      PROVE  \E S \in SUBSET WaitingSet :
               /\ WaitingSet' = WaitingSet \ S /\ LostSet' = LostSet \cup S
               /\ SettledSet' = SettledSet \cup {t \in Tasks : ended[t] = "panicked"}
               /\ AliveSet' = AliveSet \ {h}
  <2> DEFINE S == {t \in Tasks : InChan(h, t) \/ InQueue(h, t)}
  <2>1. /\ \A t \in S : phase'[t] = "dropped"
        /\ \A t \in Tasks \ S : phase'[t] = ended[t]
    BY <1>0, <1>g, EndsOwners
  <2>2. S \subseteq WaitingSet
    BY <1>0 DEF ChanOwner, QueueOwner, InChan, InQueue, WaitingSet
  <2> HIDE DEF S
  <2>3. WaitingSet' = WaitingSet \ S /\ LostSet' = LostSet \cup S
    BY <1>g, <2>1, <2>2 DEF WaitingSet, LostSet
  <2>4. SettledSet' = SettledSet \cup {t \in Tasks : ended[t] = "panicked"}
    BY <1>g, <2>1, <2>2 DEF WaitingSet, SettledSet, Settled
  <2>5. AliveSet' = AliveSet \ {h}
    BY <1>g DEF ThreadEnds, Goto, AliveSet, TypeInv, TypeOK
  <2>6. QED
    BY <2>2, <2>3, <2>4, <2>5
<1>7. ASSUME NEW h \in Execs, PollPanic(h) PROVE Pool!Next
  <2> DEFINE t == running[h]
             ended == [phase EXCEPT ![t] = "panicked"]
  <2>1. /\ t \in Panics /\ t \in Tasks /\ phase[t] = "polling" /\ ThreadEnds(h, ended)
        /\ running' = [running EXCEPT ![h] = None] /\ UNCHANGED shutdown
    BY <1>f, <1>7 DEF PollPanic
  <2>2. /\ ended[t] = "panicked"
        /\ \A u \in Tasks : u # t => ended[u] = phase[u]
    BY <2>1 DEF TypeInv, TypeOK
  <2> HIDE DEF ended
  <2>3. PICK S \in SUBSET WaitingSet :
          /\ WaitingSet' = WaitingSet \ S /\ LostSet' = LostSet \cup S
          /\ SettledSet' = SettledSet \cup {u \in Tasks : ended[u] = "panicked"}
          /\ AliveSet' = AliveSet \ {h}
    BY <1>g, <2>1, <2>2
  <2>4. SettledSet' = SettledSet \cup {t}
    BY <2>1, <2>2, <2>3 DEF SettledSet, Settled
  <2>5. Pool!Crash(h, S)
    BY <2>1, <2>3, <2>4 DEF Pool!Crash, WaitingSet, SettledSet, LostSet, AliveSet
  <2>6. QED
    BY <2>5 DEF Pool!Next, WaitingSet
<1>8. ASSUME NEW h \in Execs, CheckShutdown(h) PROVE Pool!Next \/ UNCHANGED Pool!vars
  <2>1. pc[h] = "check" /\ running[h] = None /\ UNCHANGED <<running, shutdown>>
    BY <1>8 DEF CheckShutdown, EndsIf, TypeInv, LocalsMatch, LoopLocals
  <2>2. CASE ~shutdown
    BY <1>a, <1>b, <1>8, <2>1, <2>2 DEF CheckShutdown, EndsIf
  <2>3. CASE shutdown
    <3>1. PICK S \in SUBSET WaitingSet :
            /\ WaitingSet' = WaitingSet \ S /\ LostSet' = LostSet \cup S
            /\ SettledSet' = SettledSet \cup {t \in Tasks : phase[t] = "panicked"}
            /\ AliveSet' = AliveSet \ {h}
      BY <1>g, <1>8, <2>3 DEF CheckShutdown, EndsIf
    <3>2. SettledSet' = SettledSet /\ h \in AliveSet
      BY <2>1, <3>1 DEF SettledSet, Settled, AliveSet
    <3>3. Pool!Retire(h, S)
      BY <2>1, <2>3, <3>1, <3>2 DEF Pool!Retire, WaitingSet, SettledSet, LostSet, AliveSet
    <3>4. QED
      BY <3>3 DEF Pool!Next, WaitingSet
  <2>4. QED
    BY <2>2, <2>3
<1>9. CASE Shutdown
  <2>1. AliveSet' = AliveSet /\ WaitingSet' = WaitingSet /\ SettledSet' = SettledSet /\ LostSet' = LostSet
    BY <1>c, <1>d, <1>e, <1>9 DEF Shutdown
  <2>2. Pool!Stop
    BY <1>9, <2>1 DEF Shutdown, Pool!Stop, WaitingSet, SettledSet, LostSet, AliveSet
  <2>3. QED
    BY <2>2 DEF Pool!Next
<1>10. ASSUME NEW h \in Execs, RecvSubmit(h) \/ RecvIdlePoll(h) \/ RecvNothing(h)
       PROVE  UNCHANGED Pool!vars
  BY <1>a, <1>b, <1>10 DEF RecvSubmit, RecvIdlePoll, RecvNothing, Receive
<1>11. ASSUME NEW th \in Threads,
              \/ \E o \in IoOps : CallSubmit(th, o)
              \/ StoreIndex(th) \/ SendPoll(th) \/ SendSubmit(th) \/ Return(th)
       PROVE  UNCHANGED Pool!vars
  BY <1>a, <1>c, <1>11 DEF CallSubmit, StoreIndex, SendPoll, SendSubmit, Return
<1>12. ASSUME CallPoll \/ (\E h \in Execs : PollerExit(h)) \/ UNCHANGED vars
       PROVE  UNCHANGED Pool!vars
  BY <1>a, <1>c, <1>12 DEF CallPoll, PollerExit
<1>13. QED
  BY <1>1, <1>2, <1>3, <1>4, <1>5, <1>6, <1>7, <1>8, <1>9, <1>10, <1>11, <1>12
     DEF Next, Call, ClientCall, ExecStep, Threads

\* The scheduler keeps the promise of TaskPool: each task is handed in once,
\* polled by one executor at a time, never again after Ready, and lost only
\* when an executor ended, by a panic or after a shutdown.
THEOREM Refinement == Spec => ImplementsTaskPool
<1>1. Spec => [](TypeInv /\ Coherent)
  BY Invariant
<1>2. TypeInv /\ Coherent /\ [Next]_vars => [Pool!Next]_Pool!vars
  BY NextPool
<1>3. QED
  BY <1>1, <1>2, InitPool, PTL DEF Spec, ImplementsTaskPool, Pool!Spec
=============================================================================
