------------------------ MODULE SchedulerReplyProofs ------------------------
(***************************************************************************)
(* Proofs, for every number of executors, clients, tasks and operations,   *)
(* about the replies that Scheduler gives to the operations submitted, and *)
(* about the task that get_task takes.                                     *)
(***************************************************************************)
EXTENDS SchedulerProofs

-----------------------------------------------------------------------------
(* Every wait has its answer, its operation in the channel, or an executor *)
(* that is gone.                                                           *)

Owed(th) ==
  \/ reply[job[th].arg] \in {"ok", "err"}
  \/ \E i \in DOMAIN chan[slot[th]] : chan[slot[th]][i] = job[th]
  \/ pc[slot[th]] = "exited"

\* A thread that goes on waiting is owed its reply, since a channel loses an
\* operation only at its front or at the end of its executor, and no answer and
\* no end is taken back.
LEMMA OwedKept ==
  ASSUME TypeInv, ReplyOwed, NEW th \in Threads, step[th] = "wait",
         job'[th] = job[th], slot'[th] = slot[th],
         \A o \in IoOps : reply[o] \in {"ok", "err"} => reply'[o] \in {"ok", "err"},
         \A h \in Execs : pc[h] = "exited" => pc'[h] = "exited",
         \A h \in Execs :
           \/ \A i \in DOMAIN chan[h] : i \in DOMAIN chan'[h] /\ chan'[h][i] = chan[h][i]
           \/ pc'[h] = "exited"
           \/ /\ chan[h] # <<>> /\ chan'[h] = Tail(chan[h])
              /\ \A o \in IoOps : Head(chan[h]) = SubmitIoOp(o) => reply'[o] \in {"ok", "err"}
  PROVE  Owed(th)'
<1>1. slot[th] \in Execs /\ job[th].arg \in IoOps /\ job[th] = SubmitIoOp(job[th].arg)
  BY CallArgs DEF TypeInv, LocalsMatch, CallLocals
<1> DEFINE h == slot[th]
           o == job[th].arg
<1>2. chan[h] \in Seq(Transactions)
  BY <1>1 DEF TypeInv, TypeOK
<1>3. CASE reply[o] \in {"ok", "err"} \/ pc[h] = "exited"
  BY <1>1, <1>3 DEF Owed
<1>4. ASSUME NEW i \in DOMAIN chan[h], chan[h][i] = job[th] PROVE Owed(th)'
  <2>1. CASE \A j \in DOMAIN chan[h] : j \in DOMAIN chan'[h] /\ chan'[h][j] = chan[h][j]
    BY <1>1, <1>4, <2>1 DEF Owed
  <2>2. CASE pc'[h] = "exited"
    BY <2>2 DEF Owed
  <2>3. CASE /\ chan[h] # <<>> /\ chan'[h] = Tail(chan[h])
             /\ \A p \in IoOps : Head(chan[h]) = SubmitIoOp(p) => reply'[p] \in {"ok", "err"}
    <3>1. CASE i = 1
      BY <1>1, <1>2, <1>4, <2>3, <3>1, TailElements DEF Owed
    <3>2. CASE i # 1
      <4>1. i - 1 \in DOMAIN chan'[h] /\ chan'[h][i - 1] = job'[th]
        BY <1>2, <1>4, <2>3, <3>2, TailElements
      <4> QED BY <4>1 DEF Owed
    <3> QED BY <3>1, <3>2
  <2> QED BY <1>1, <2>1, <2>2, <2>3
<1> QED BY <1>3, <1>4 DEF ReplyOwed

LEMMA NextOwed == TypeInv /\ ReplyOwed /\ [Next]_vars => ReplyOwed'
<1> USE DEF vars, callVars, execVars
<1> SUFFICES ASSUME TypeInv, ReplyOwed, [Next]_vars, NEW th \in Threads, step'[th] = "wait"
             PROVE  Owed(th)'
  BY DEF ReplyOwed, Owed
<1>t. /\ step \in [Threads -> {"idle", "store", "send", "wait"}]
      /\ job \in [Threads -> Transactions \cup {NoCall}]
      /\ slot \in [Threads -> Execs]
      /\ chan \in [Execs -> Seq(Transactions)]
      /\ pc \in [Execs -> {"recv", "poll", "check", "exited"}]
      /\ reply \in [IoOps -> {"unused", "pending", "ok", "err"}]
  BY DEF TypeInv, TypeOK
<1>1. ASSUME NEW caller \in Threads, NEW t \in Tasks, CallSpawn(caller, t) PROVE Owed(th)'
  BY <1>1, <1>t, OwedKept DEF CallSpawn, Begin, BeginAt
<1>2. ASSUME NEW caller \in Threads, NEW o \in IoOps, CallSubmit(caller, o) PROVE Owed(th)'
  BY <1>2, <1>t, OwedKept DEF CallSubmit, Begin, BeginAt
<1>3. CASE CallPoll
  BY <1>3, <1>t, OwedKept DEF CallPoll, Begin, BeginAt
<1>4. ASSUME NEW caller \in Threads, StoreIndex(caller) PROVE Owed(th)'
  BY <1>4, <1>t, OwedKept DEF StoreIndex
\* A send adds to the end of a channel.
<1>5. ASSUME NEW caller \in Threads, step[caller] # "idle", Push(caller) \/ UNCHANGED chan
      PROVE  \A h \in Execs : \A i \in DOMAIN chan[h] :
               i \in DOMAIN chan'[h] /\ chan'[h][i] = chan[h][i]
  <2>1. job[caller] \in Transactions /\ slot[caller] \in Execs
    BY <1>5, CallArgs
  <2> SUFFICES ASSUME NEW h \in Execs
               PROVE  \A i \in DOMAIN chan[h] : i \in DOMAIN chan'[h] /\ chan'[h][i] = chan[h][i]
    OBVIOUS
  <2>2. chan'[h] = chan[h] \/ chan'[h] = Append(chan[h], job[caller])
    BY <1>5, <1>t, <2>1 DEF Push
  <2>3. chan[h] \in Seq(Transactions)
    BY <1>t
  <2> QED BY <2>1, <2>2, <2>3, AppendElements
<1>6. ASSUME NEW caller \in Threads, SendPoll(caller) \/ SendSpawn(caller) PROVE Owed(th)'
  <2>1. /\ step[caller] = "send"
        /\ End(caller) /\ UNCHANGED <<pc, reply>>
    BY <1>6 DEF SendPoll, SendSpawn, Sending
  <2>2. step[caller] # "idle" /\ (Push(caller) \/ UNCHANGED chan)
    BY <1>6 DEF SendPoll, SendSpawn, Sending
  <2>3. step[th] = "wait" /\ job'[th] = job[th] /\ slot'[th] = slot[th]
    BY <1>t, <2>1 DEF End
  <2> QED BY <1>5, <2>1, <2>2, <2>3, OwedKept
<1>7. ASSUME NEW caller \in Threads, SendSubmit(caller) PROVE Owed(th)'
  <2>1. /\ step[caller] = "send" /\ UNCHANGED <<job, slot, pc>>
        /\ step' = [step EXCEPT ![caller] = "wait"]
        /\ job[caller].op = "SubmitIoOp"
    BY <1>7 DEF SendSubmit, Sending
  <2>2. job[caller].arg \in IoOps /\ job[caller] \in Transactions /\ slot[caller] \in Execs
    BY <2>1, CallArgs
  <2>3. CASE th = caller
    <3>1. CASE Push(caller)
      <4>1. /\ chan[slot[th]] \in Seq(Transactions)
            /\ chan'[slot[th]] = Append(chan[slot[th]], job[th])
        BY <1>t, <2>2, <2>3, <3>1 DEF Push
      <4>2. chan'[slot[th]][Len(chan[slot[th]]) + 1] = job[th]
            /\ Len(chan[slot[th]]) + 1 \in DOMAIN chan'[slot[th]]
        BY <2>2, <2>3, <4>1, AppendElements
      <4> QED BY <2>1, <4>2 DEF Owed
    <3>2. CASE reply' = [reply EXCEPT ![job[caller].arg] = "err"]
      BY <1>t, <2>1, <2>2, <2>3, <3>2 DEF Owed
    <3> QED BY <1>7, <3>1, <3>2 DEF SendSubmit
  <2>4. CASE th # caller
    <3>1. step[th] = "wait"
      BY <1>t, <2>1, <2>4
    <3>2. \A o \in IoOps : reply[o] \in {"ok", "err"} => reply'[o] \in {"ok", "err"}
      BY <1>7, <1>t DEF SendSubmit
    <3>3. \A h \in Execs : \A i \in DOMAIN chan[h] : i \in DOMAIN chan'[h] /\ chan'[h][i] = chan[h][i]
      BY <1>5, <1>7, <2>1 DEF SendSubmit
    <3> QED BY <2>1, <3>1, <3>2, <3>3, OwedKept
  <2> QED BY <2>3, <2>4
<1>8. ASSUME NEW caller \in Threads, Return(caller) PROVE Owed(th)'
  BY <1>8, <1>t, OwedKept DEF Return, End
\* The executors: nobody's call moves.
<1>9. ASSUME UNCHANGED <<step, job, slot>>,
             \A o \in IoOps : reply[o] \in {"ok", "err"} => reply'[o] \in {"ok", "err"},
             \A h \in Execs : pc[h] = "exited" => pc'[h] = "exited",
             \A h \in Execs :
               \/ chan'[h] = chan[h]
               \/ pc'[h] = "exited"
               \/ /\ chan[h] # <<>> /\ chan'[h] = Tail(chan[h])
                  /\ \A o \in IoOps : Head(chan[h]) = SubmitIoOp(o) => reply'[o] \in {"ok", "err"}
      PROVE  Owed(th)'
  BY <1>9, OwedKept
<1>10. ASSUME NEW h \in Execs, RecvSpawn(h) \/ RecvPoll(h) \/ RecvIdlePoll(h) PROVE Owed(th)'
  <2>1. /\ UNCHANGED <<step, job, slot, reply>>
        /\ chan[h] # <<>> /\ chan' = [chan EXCEPT ![h] = Tail(@)]
        /\ Head(chan[h]).op # "SubmitIoOp"
        /\ pc[h] = "recv" /\ \A g \in Execs : g # h => pc'[g] = pc[g]
    <3>1. CASE RecvSpawn(h) \/ RecvIdlePoll(h)
      BY <3>1, <1>t DEF RecvSpawn, RecvIdlePoll, Receive, Goto
    <3>2. CASE RecvPoll(h)
      BY <3>2, <1>t, Scanned DEF Receive, Run, Goto
    <3> QED BY <1>10, <3>1, <3>2
  <2>2. \A o \in IoOps : Head(chan[h]) # SubmitIoOp(o)
    BY <2>1, TransactionsDiffer
  <2> QED BY <1>9, <1>t, <2>1, <2>2
<1>11. ASSUME NEW h \in Execs, RecvSubmit(h) PROVE Owed(th)'
  <2>1. /\ UNCHANGED <<step, job, slot>>
        /\ chan[h] # <<>> /\ chan' = [chan EXCEPT ![h] = Tail(@)]
        /\ pc[h] = "recv" /\ \A g \in Execs : g # h => pc'[g] = pc[g]
    BY <1>11, <1>t DEF RecvSubmit, Receive, Goto
  <2>2. \A o \in IoOps : reply'[o] = reply[o] \/ reply'[o] \in {"ok", "err"}
    BY <1>11, <1>t DEF RecvSubmit
  <2>3. \A o \in IoOps : Head(chan[h]) = SubmitIoOp(o) => reply'[o] \in {"ok", "err"}
    BY <1>11, <1>t, TransactionsDiffer DEF RecvSubmit
  <2> QED BY <1>9, <1>t, <2>1, <2>2, <2>3
<1>12. ASSUME NEW h \in Execs, RecvNothing(h) \/ PollReady(h) \/ PollPending(h) PROVE Owed(th)'
  <2>1. /\ UNCHANGED <<step, job, slot, reply, chan>>
        /\ pc[h] # "exited" /\ \A g \in Execs : g # h => pc'[g] = pc[g]
    BY <1>12, <1>t DEF RecvNothing, PollReady, PollPending, Pends, Requeue, Polling, Goto
  <2> QED BY <1>9, <2>1
<1>13. ASSUME NEW h \in Execs, PollPanic(h) \/ CheckShutdown(h) PROVE Owed(th)'
  <2>1. /\ UNCHANGED <<step, job, slot, reply>>
        /\ pc[h] # "exited"
        /\ \A g \in Execs : g # h => pc'[g] = pc[g] /\ chan'[g] = chan[g]
        /\ pc'[h] = "exited" \/ chan'[h] = chan[h]
    BY <1>13, <1>t DEF PollPanic, CheckShutdown, EndsIf, ThreadEnds, Polling, Goto
  <2> QED BY <1>9, <2>1
<1>14. ASSUME (\E h \in Execs : PollerExit(h)) \/ Shutdown \/ UNCHANGED vars PROVE Owed(th)'
  BY <1>9, <1>14 DEF PollerExit, Shutdown
<1> QED
  BY <1>1, <1>2, <1>3, <1>4, <1>6, <1>7, <1>8, <1>10, <1>11, <1>12, <1>13, <1>14
     DEF Next, Call, ClientCall, ExecStep, Threads

\* A caller of submit_io_op never waits for an answer that an executor which is
\* running has mislaid.
THEOREM ReplyAlwaysOwed == Spec => []ReplyOwed
<1>1. Init => ReplyOwed
  BY DEF Init, ReplyOwed
<1>2. TypeInv /\ [Next]_vars => TypeInv'
  BY NextTypes
<1> QED BY <1>1, <1>2, InitTypes, NextOwed, PTL DEF Spec

-----------------------------------------------------------------------------
(* One answer.  An operation on its way to an executor is in one call or   *)
(* in one place of one channel, and nobody has answered it.                *)

Submitting(th, o) == step[th] \in {"store", "send"} /\ job[th] = SubmitIoOp(o)
Carried(h, i, o)  == i \in DOMAIN chan[h] /\ chan[h][i] = SubmitIoOp(o)

InCallOnce == \A th \in Threads, o \in IoOps : Submitting(th, o) =>
  /\ reply[o] = "pending"
  /\ \A other \in Threads : Submitting(other, o) => other = th
  /\ \A h \in Execs : \A i \in DOMAIN chan[h] : ~Carried(h, i, o)
InChanOnce == \A h \in Execs : \A i \in DOMAIN chan[h] : \A o \in IoOps : Carried(h, i, o) =>
  /\ reply[o] = "pending"
  /\ \A g \in Execs : \A j \in DOMAIN chan[g] : Carried(g, j, o) => g = h /\ j = i
Unanswered == InCallOnce /\ InChanOnce

\* Nothing new is on its way, and what is has no answer still.
LEMMA UnansweredKept ==
  ASSUME Unanswered, UNCHANGED chan,
         \A th \in Threads, o \in IoOps : Submitting(th, o)' => Submitting(th, o),
         \A o \in IoOps : reply[o] = "pending" => reply'[o] = "pending"
  PROVE  Unanswered'
<1>1. \A h \in Execs : \A i, o : Carried(h, i, o)' <=> Carried(h, i, o)
  BY DEF Carried, SubmitIoOp
<1>2. InCallOnce'
  BY <1>1 DEF Unanswered, InCallOnce
<1>3. InChanOnce'
  BY <1>1 DEF Unanswered, InChanOnce
<1> QED BY <1>2, <1>3 DEF Unanswered

\* An executor receives, or ends with what its channel still holds.
LEMMA UnansweredReceived ==
  ASSUME TypeInv, Unanswered, NEW h \in Execs, UNCHANGED <<step, job>>,
         \/ chan[h] # <<>> /\ chan' = [chan EXCEPT ![h] = Tail(chan[h])]
         \/ chan' = [chan EXCEPT ![h] = <<>>],
         \A o \in IoOps : \/ reply'[o] = reply[o]
                          \/ /\ chan[h] # <<>> /\ Head(chan[h]) = SubmitIoOp(o)
                             /\ chan' = [chan EXCEPT ![h] = Tail(chan[h])]
  PROVE  Unanswered'
<1>1. chan \in [Execs -> Seq(Transactions)]
  BY DEF TypeInv, TypeOK
<1>2. ASSUME NEW g \in Execs, NEW i, NEW o \in IoOps, Carried(g, i, o)'
      PROVE  \E k \in DOMAIN chan[g] : /\ Carried(g, k, o)
                                       /\ k = i \/ (k = i + 1 /\ g = h /\ i \in Nat)
                                       /\ reply'[o] = reply[o]
  <2>1. i \in DOMAIN chan'[g] /\ chan'[g][i] = SubmitIoOp(o)
    BY <1>2 DEF Carried, SubmitIoOp
  <2>2. CASE chan[h] # <<>> /\ chan' = [chan EXCEPT ![h] = Tail(chan[h])]
    <3>0. chan[h] \in Seq(Transactions) /\ chan[g] \in Seq(Transactions)
      BY <1>1
    <3>1. /\ 1 \in DOMAIN chan[h] /\ Head(chan[h]) = chan[h][1]
          /\ \A j \in DOMAIN Tail(chan[h]) : j + 1 \in DOMAIN chan[h] /\ j + 1 # 1
                                             /\ Tail(chan[h])[j] = chan[h][j + 1]
          /\ Tail(chan[h]) \in Seq(Transactions)
      BY <2>2, <3>0, TailElements
    <3>2. reply'[o] # reply[o] => Carried(h, 1, o)
      BY <3>1 DEF Carried
    <3>3. CASE g = h
      <4>1. chan'[g] = Tail(chan[h])
        BY <1>1, <2>2, <3>3
      <4>2. i + 1 \in DOMAIN chan[h] /\ i + 1 # 1 /\ chan[h][i + 1] = SubmitIoOp(o)
        BY <2>1, <3>1, <4>1
      <4>3. i \in Nat
        BY <2>1, <3>1, <4>1, ElementsInSet
      <4>4. Carried(h, i + 1, o)
        BY <4>2 DEF Carried
      <4>5. reply'[o] = reply[o]
        BY <3>1, <3>2, <4>2, <4>4 DEF Unanswered, InChanOnce
      <4> QED BY <3>3, <4>2, <4>3, <4>4, <4>5
    <3>4. CASE g # h
      <4>1. chan'[g] = chan[g]
        BY <1>1, <2>2, <3>4
      <4>2. Carried(g, i, o) /\ i \in DOMAIN chan[g]
        BY <2>1, <4>1 DEF Carried
      <4>3. reply'[o] = reply[o]
        BY <3>1, <3>2, <3>4, <4>2 DEF Unanswered, InChanOnce
      <4> QED BY <4>2, <4>3
    <3> QED BY <3>3, <3>4
  <2>3. CASE chan' = [chan EXCEPT ![h] = <<>>]
    <3>1. chan'[h] = <<>> /\ (g # h => chan'[g] = chan[g])
      BY <1>1, <2>3
    <3>2. g # h /\ chan'[g] = chan[g]
      BY <2>1, <3>1
    <3>3. Carried(g, i, o) /\ i \in DOMAIN chan[g]
      BY <2>1, <3>2 DEF Carried
    <3>4. reply'[o] = reply[o]
      <4> SUFFICES ASSUME chan[h] # <<>>, Head(chan[h]) = SubmitIoOp(o) PROVE FALSE
        OBVIOUS
      <4>1. chan[h] \in Seq(Transactions)
        BY <1>1
      <4>2. Carried(h, 1, o) /\ 1 \in DOMAIN chan[h]
        BY <4>1, TailElements DEF Carried
      <4> QED BY <3>2, <3>3, <4>2 DEF Unanswered, InChanOnce
    <3> QED BY <3>3, <3>4
  <2> QED BY <2>2, <2>3
<1>3. InChanOnce'
  <2> SUFFICES ASSUME NEW g \in Execs, NEW i \in DOMAIN chan'[g], NEW o \in IoOps, Carried(g, i, o)'
               PROVE  /\ reply'[o] = "pending"
                      /\ \A f \in Execs : \A j \in DOMAIN chan'[f] : Carried(f, j, o)' => f = g /\ j = i
    BY DEF InChanOnce
  <2>1. PICK k \in DOMAIN chan[g] : /\ Carried(g, k, o)
                                    /\ k = i \/ (k = i + 1 /\ g = h /\ i \in Nat)
                                    /\ reply'[o] = reply[o]
    BY <1>2
  <2>2. reply'[o] = "pending"
    BY <2>1 DEF Unanswered, InChanOnce
  <2>3. ASSUME NEW f \in Execs, NEW j \in DOMAIN chan'[f], Carried(f, j, o)' PROVE f = g /\ j = i
    <3>1. PICK l \in DOMAIN chan[f] : Carried(f, l, o) /\ (l = j \/ (l = j + 1 /\ f = h /\ j \in Nat))
      BY <1>2, <2>3
    <3>2. f = g /\ l = k
      BY <2>1, <3>1 DEF Unanswered, InChanOnce
    <3>3. (chan'[g] = Tail(chan[g]) /\ chan[g] # <<>>) \/ chan'[g] = chan[g] \/ chan'[g] = <<>>
      BY <1>1
    <3>4. CASE chan'[g] = chan[g] \/ chan'[g] = <<>>
      <4>1. Carried(g, i, o) /\ Carried(g, j, o) /\ j \in DOMAIN chan[g] /\ i \in DOMAIN chan[g]
        BY <2>3, <3>2, <3>4 DEF Carried, SubmitIoOp
      <4> QED BY <3>2, <4>1 DEF Unanswered, InChanOnce
    <3>5. CASE chan'[g] = Tail(chan[g]) /\ chan[g] # <<>>
      <4>1. chan[g] \in Seq(Transactions)
        BY <1>1
      <4>2. /\ i \in Nat /\ i + 1 \in DOMAIN chan[g] /\ Tail(chan[g])[i] = chan[g][i + 1]
            /\ j \in Nat /\ j + 1 \in DOMAIN chan[g] /\ Tail(chan[g])[j] = chan[g][j + 1]
        BY <2>3, <3>2, <3>5, <4>1, TailElements, ElementsInSet
      <4>3. Carried(g, i + 1, o) /\ Carried(g, j + 1, o)
        BY <2>3, <3>2, <3>5, <4>2 DEF Carried, SubmitIoOp
      <4>4. i + 1 = j + 1
        BY <4>2, <4>3 DEF Unanswered, InChanOnce
      <4> QED BY <3>2, <4>2, <4>4
    <3> QED BY <3>3, <3>4, <3>5
  <2> QED BY <2>2, <2>3
<1>4. InCallOnce'
  <2> SUFFICES ASSUME NEW th \in Threads, NEW o \in IoOps, Submitting(th, o)'
               PROVE  /\ reply'[o] = "pending"
                      /\ \A other \in Threads : Submitting(other, o)' => other = th
                      /\ \A g \in Execs : \A i \in DOMAIN chan'[g] : ~Carried(g, i, o)'
    BY DEF InCallOnce
  <2>1. \A other \in Threads : Submitting(other, o)' <=> Submitting(other, o)
    BY DEF Submitting, SubmitIoOp
  <2>2. \A g \in Execs : \A i \in DOMAIN chan[g] : ~Carried(g, i, o)
    BY <2>1 DEF Unanswered, InCallOnce
  <2>3. \A g \in Execs : \A i \in DOMAIN chan'[g] : ~Carried(g, i, o)'
    BY <1>2, <2>2
  <2>4. reply'[o] = reply[o]
    <3> SUFFICES ASSUME chan[h] # <<>>, Head(chan[h]) = SubmitIoOp(o) PROVE FALSE
      OBVIOUS
    <3>1. chan[h] \in Seq(Transactions)
      BY <1>1
    <3>2. Carried(h, 1, o) /\ 1 \in DOMAIN chan[h]
      BY <3>1, TailElements DEF Carried
    <3> QED BY <2>2, <3>2
  <2> QED BY <2>1, <2>3, <2>4 DEF Unanswered, InCallOnce
<1> QED BY <1>3, <1>4 DEF Unanswered

\* A thread sends: its operation, if it has one, goes from its call to a channel.
LEMMA UnansweredSent ==
  ASSUME TypeInv, Unanswered, NEW th \in Threads, step[th] = "send", Push(th), UNCHANGED reply,
         \A o \in IoOps : ~Submitting(th, o)',
         \A other \in Threads : other # th => step'[other] = step[other] /\ job'[other] = job[other]
  PROVE  Unanswered'
<1>1. /\ chan \in [Execs -> Seq(Transactions)]
      /\ slot[th] \in Execs /\ job[th] \in Transactions
  BY CallArgs DEF TypeInv, TypeOK
<1> DEFINE last == Len(chan[slot[th]]) + 1
<1>2. \A other \in Threads, o \in IoOps :
        Submitting(other, o)' => other # th /\ Submitting(other, o)
  BY DEF Submitting, SubmitIoOp
<1>3. ASSUME NEW h \in Execs, NEW i, NEW o \in IoOps, Carried(h, i, o)'
      PROVE  Carried(h, i, o) \/ (h = slot[th] /\ i = last /\ Submitting(th, o))
  <2>1. i \in DOMAIN chan'[h] /\ chan'[h][i] = SubmitIoOp(o)
    BY <1>3 DEF Carried, SubmitIoOp
  <2>2. CASE h # slot[th]
    BY <1>1, <2>1, <2>2 DEF Push, Carried
  <2>3. CASE h = slot[th]
    <3>1. chan'[h] = Append(chan[h], job[th]) /\ chan[h] \in Seq(Transactions)
      BY <1>1, <2>3 DEF Push
    <3>2. CASE i = last
      <4>1. job[th] = SubmitIoOp(o)
        BY <1>1, <2>1, <2>3, <3>1, <3>2, AppendElements
      <4> QED BY <2>3, <3>2, <4>1 DEF Submitting
    <3>3. CASE i # last
      <4>1. i \in DOMAIN chan[h] /\ chan[h][i] = SubmitIoOp(o)
        BY <1>1, <2>1, <2>3, <3>1, <3>3, AppendElements
      <4> QED BY <4>1 DEF Carried
    <3> QED BY <3>2, <3>3
  <2> QED BY <2>2, <2>3
<1>4. \A h \in Execs, o \in IoOps : \A i : Carried(h, i, o) => i \in DOMAIN chan[h]
  BY DEF Carried
<1>5. InCallOnce'
  <2> SUFFICES ASSUME NEW other \in Threads, NEW o \in IoOps, Submitting(other, o)'
               PROVE  /\ reply'[o] = "pending"
                      /\ \A more \in Threads : Submitting(more, o)' => more = other
                      /\ \A h \in Execs : \A i \in DOMAIN chan'[h] : ~Carried(h, i, o)'
    BY DEF InCallOnce
  <2>1. other # th /\ Submitting(other, o)
    BY <1>2
  <2>2. /\ reply[o] = "pending"
        /\ \A more \in Threads : Submitting(more, o) => more = other
        /\ \A h \in Execs : \A i \in DOMAIN chan[h] : ~Carried(h, i, o)
    BY <2>1 DEF Unanswered, InCallOnce
  <2>3. ASSUME NEW h \in Execs, NEW i, Carried(h, i, o)' PROVE FALSE
    <3>1. Carried(h, i, o) \/ Submitting(th, o)
      BY <1>3, <2>3
    <3> QED BY <1>4, <2>1, <2>2, <3>1
  <2> QED BY <1>2, <2>2, <2>3
<1>6. InChanOnce'
  <2> SUFFICES ASSUME NEW h \in Execs, NEW i \in DOMAIN chan'[h], NEW o \in IoOps, Carried(h, i, o)'
               PROVE  /\ reply'[o] = "pending"
                      /\ \A g \in Execs : \A j \in DOMAIN chan'[g] : Carried(g, j, o)' => g = h /\ j = i
    BY DEF InChanOnce
  <2>1. CASE Carried(h, i, o)
    <3>1. i \in DOMAIN chan[h]
      BY <1>4, <2>1
    <3>2. /\ reply[o] = "pending"
          /\ \A g \in Execs : \A j \in DOMAIN chan[g] : Carried(g, j, o) => g = h /\ j = i
      BY <2>1, <3>1 DEF Unanswered, InChanOnce
    <3>3. ~Submitting(th, o)
      BY <2>1, <3>1 DEF Unanswered, InCallOnce
    <3>4. ASSUME NEW g \in Execs, NEW j, Carried(g, j, o)' PROVE g = h /\ j = i
      <4>1. Carried(g, j, o)
        BY <1>3, <3>3, <3>4
      <4> QED BY <1>4, <3>2, <4>1
    <3> QED BY <3>2, <3>4
  <2>2. CASE h = slot[th] /\ i = last /\ Submitting(th, o)
    <3>1. /\ reply[o] = "pending"
          /\ \A g \in Execs : \A j \in DOMAIN chan[g] : ~Carried(g, j, o)
      BY <2>2 DEF Unanswered, InCallOnce
    <3>2. ASSUME NEW g \in Execs, NEW j, Carried(g, j, o)' PROVE g = h /\ j = i
      <4>1. Carried(g, j, o) \/ (g = slot[th] /\ j = last)
        BY <1>3, <3>2
      <4> QED BY <1>4, <2>2, <3>1, <4>1
    <3> QED BY <3>1, <3>2
  <2> QED BY <1>3, <2>1, <2>2
<1> QED BY <1>5, <1>6 DEF Unanswered

\* An executor that has ended is sent an operation: the send fails.
LEMMA UnansweredRefused ==
  ASSUME TypeInv, Unanswered, NEW th \in Threads, NEW p \in IoOps, Submitting(th, p), UNCHANGED chan,
         \A o \in IoOps : ~Submitting(th, o)',
         \A other \in Threads : other # th => step'[other] = step[other] /\ job'[other] = job[other],
         \A o \in IoOps : o # p => reply'[o] = reply[o]
  PROVE  Unanswered'
<1>1. \A other \in Threads, o \in IoOps : Submitting(other, o)' => o # p /\ Submitting(other, o)
  BY DEF Submitting, SubmitIoOp, Unanswered, InCallOnce
<1>2. \A h \in Execs, o \in IoOps : \A i : Carried(h, i, o)' <=> Carried(h, i, o)
  BY DEF Carried, SubmitIoOp
<1>3. \A h \in Execs : \A i \in DOMAIN chan[h] : ~Carried(h, i, p)
  BY DEF Unanswered, InCallOnce
<1>4. InCallOnce'
  <2> SUFFICES ASSUME NEW other \in Threads, NEW o \in IoOps, Submitting(other, o)'
               PROVE  /\ reply'[o] = "pending"
                      /\ \A more \in Threads : Submitting(more, o)' => more = other
                      /\ \A h \in Execs : \A i \in DOMAIN chan[h] : ~Carried(h, i, o)'
    BY DEF InCallOnce
  <2>1. Submitting(other, o) /\ o # p
    BY <1>1
  <2>2. /\ reply[o] = "pending"
        /\ \A more \in Threads : Submitting(more, o) => more = other
        /\ \A h \in Execs : \A i \in DOMAIN chan[h] : ~Carried(h, i, o)
    BY <2>1 DEF Unanswered, InCallOnce
  <2> QED BY <1>1, <1>2, <2>1, <2>2
<1>5. InChanOnce'
  <2> SUFFICES ASSUME NEW h \in Execs, NEW i \in DOMAIN chan[h], NEW o \in IoOps, Carried(h, i, o)'
               PROVE  /\ reply'[o] = "pending"
                      /\ \A g \in Execs : \A j \in DOMAIN chan[g] : Carried(g, j, o)' => g = h /\ j = i
    BY DEF InChanOnce
  <2>1. Carried(h, i, o) /\ o # p
    BY <1>2, <1>3
  <2>2. /\ reply[o] = "pending"
        /\ \A g \in Execs : \A j \in DOMAIN chan[g] : Carried(g, j, o) => g = h /\ j = i
    BY <2>1 DEF Unanswered, InChanOnce
  <2> QED BY <1>2, <2>1, <2>2
<1> QED BY <1>4, <1>5 DEF Unanswered

LEMMA NextUnanswered == TypeInv /\ Unanswered /\ [Next]_vars => Unanswered'
<1> USE DEF vars, callVars, execVars
<1> SUFFICES ASSUME TypeInv, Unanswered, [Next]_vars PROVE Unanswered'
  OBVIOUS
<1>t. /\ step \in [Threads -> {"idle", "store", "send", "wait"}]
      /\ job \in [Threads -> Transactions \cup {NoCall}]
      /\ slot \in [Threads -> Execs]
      /\ chan \in [Execs -> Seq(Transactions)]
      /\ reply \in [IoOps -> {"unused", "pending", "ok", "err"}]
  BY DEF TypeInv, TypeOK
\* A thread begins a call that carries no operation.
<1>1. ASSUME NEW caller \in Threads, NEW tr, Begin(caller, tr), UNCHANGED <<chan, reply>>,
             \A o : tr # SubmitIoOp(o)
      PROVE  Unanswered'
  <2>1. \A th \in Threads, o \in IoOps : Submitting(th, o)' => Submitting(th, o)
    BY <1>1, <1>t DEF Begin, BeginAt, Submitting, SubmitIoOp
  <2> QED BY <1>1, <2>1, UnansweredKept
<1>2. ASSUME NEW caller \in Threads, NEW t \in Tasks, CallSpawn(caller, t) PROVE Unanswered'
  BY <1>1, <1>2, TransactionsDiffer DEF CallSpawn
<1>3. CASE CallPoll
  BY <1>1, <1>3, TransactionsDiffer DEF CallPoll, Threads
<1>4. ASSUME NEW caller \in Threads, NEW p \in IoOps, CallSubmit(caller, p) PROVE Unanswered'
  <2>1. /\ reply[p] = "unused" /\ reply' = [reply EXCEPT ![p] = "pending"] /\ UNCHANGED chan
        /\ step' = [step EXCEPT ![caller] = "store"]
        /\ job' = [job EXCEPT ![caller] = SubmitIoOp(p)]
    BY <1>4 DEF CallSubmit, Begin, BeginAt
  <2>2. /\ \A th \in Threads : ~Submitting(th, p)
        /\ \A h \in Execs : \A i \in DOMAIN chan[h] : ~Carried(h, i, p)
    BY <2>1 DEF Unanswered, InCallOnce, InChanOnce
  <2>3. \A th \in Threads, o \in IoOps :
          Submitting(th, o)' => (th = caller /\ o = p) \/ (th # caller /\ o # p /\ Submitting(th, o))
    <3> SUFFICES ASSUME NEW th \in Threads, NEW o \in IoOps, Submitting(th, o)'
                 PROVE  (th = caller /\ o = p) \/ (th # caller /\ o # p /\ Submitting(th, o))
      OBVIOUS
    <3>1. CASE th = caller
      BY <1>t, <2>1, <3>1, TransactionsDiffer DEF Submitting, SubmitIoOp
    <3>2. CASE th # caller
      <4>1. Submitting(th, o)
        BY <1>t, <2>1, <3>2 DEF Submitting, SubmitIoOp
      <4> QED BY <2>2, <3>2, <4>1
    <3> QED BY <3>1, <3>2
  <2>4. \A h \in Execs : \A i, o : Carried(h, i, o)' <=> Carried(h, i, o)
    BY <2>1 DEF Carried, SubmitIoOp
  <2>5. reply'[p] = "pending" /\ \A o \in IoOps : o # p => reply'[o] = reply[o]
    BY <1>t, <2>1
  <2>6. InCallOnce'
    <3> SUFFICES ASSUME NEW th \in Threads, NEW o \in IoOps, Submitting(th, o)'
                 PROVE  /\ reply'[o] = "pending"
                        /\ \A other \in Threads : Submitting(other, o)' => other = th
                        /\ \A h \in Execs : \A i \in DOMAIN chan[h] : ~Carried(h, i, o)'
      BY <2>1 DEF InCallOnce
    <3>1. CASE o = p
      BY <2>2, <2>3, <2>4, <2>5, <3>1
    <3>2. CASE o # p
      <4>1. Submitting(th, o)
        BY <2>3, <3>2
      <4>2. /\ reply[o] = "pending"
            /\ \A other \in Threads : Submitting(other, o) => other = th
            /\ \A h \in Execs : \A i \in DOMAIN chan[h] : ~Carried(h, i, o)
        BY <4>1 DEF Unanswered, InCallOnce
      <4> QED BY <2>3, <2>4, <2>5, <3>2, <4>2
    <3> QED BY <3>1, <3>2
  <2>7. InChanOnce'
    <3> SUFFICES ASSUME NEW h \in Execs, NEW i \in DOMAIN chan[h], NEW o \in IoOps, Carried(h, i, o)'
                 PROVE  /\ reply'[o] = "pending"
                        /\ \A g \in Execs : \A j \in DOMAIN chan[g] : Carried(g, j, o)' => g = h /\ j = i
      BY <2>1 DEF InChanOnce
    <3>1. Carried(h, i, o) /\ o # p
      BY <2>2, <2>4
    <3>2. /\ reply[o] = "pending"
          /\ \A g \in Execs : \A j \in DOMAIN chan[g] : Carried(g, j, o) => g = h /\ j = i
      BY <3>1 DEF Unanswered, InChanOnce
    <3> QED BY <2>4, <2>5, <3>1, <3>2
  <2> QED BY <2>6, <2>7 DEF Unanswered
<1>5. ASSUME NEW caller \in Threads, StoreIndex(caller) PROVE Unanswered'
  <2>1. \A th \in Threads, o \in IoOps : Submitting(th, o)' => Submitting(th, o)
    BY <1>5, <1>t DEF StoreIndex, Submitting, SubmitIoOp
  <2> QED BY <1>5, <2>1, UnansweredKept DEF StoreIndex
\* A send, and how the thread goes on after it.
<1>6. ASSUME NEW caller \in Threads, step[caller] = "send",
             \/ End(caller)
             \/ UNCHANGED job /\ step' = [step EXCEPT ![caller] = "wait"]
      PROVE  /\ \A o \in IoOps : ~Submitting(caller, o)'
             /\ \A other \in Threads : other # caller => step'[other] = step[other] /\ job'[other] = job[other]
  BY <1>6, <1>t DEF End, Submitting
<1>7. ASSUME NEW caller \in Threads, SendPoll(caller) \/ SendSpawn(caller) PROVE Unanswered'
  <2>1. /\ step[caller] = "send" /\ End(caller) /\ UNCHANGED reply
        /\ Push(caller) \/ UNCHANGED chan
    BY <1>7 DEF SendPoll, SendSpawn, Sending
  <2>2. CASE Push(caller)
    BY <1>6, <2>1, <2>2, UnansweredSent
  <2>3. CASE UNCHANGED chan
    <3>1. \A th \in Threads, o \in IoOps : Submitting(th, o)' => Submitting(th, o)
      BY <1>6, <2>1 DEF Submitting, SubmitIoOp
    <3> QED BY <2>1, <2>3, <3>1, UnansweredKept
  <2> QED BY <2>1, <2>2, <2>3
<1>8. ASSUME NEW caller \in Threads, SendSubmit(caller) PROVE Unanswered'
  <2>1. /\ step[caller] = "send" /\ job[caller].op = "SubmitIoOp"
        /\ UNCHANGED job /\ step' = [step EXCEPT ![caller] = "wait"]
    BY <1>8 DEF SendSubmit, Sending
  <2>2. CASE Push(caller) /\ UNCHANGED reply
    BY <1>6, <2>1, <2>2, UnansweredSent
  <2>3. CASE reply' = [reply EXCEPT ![job[caller].arg] = "err"] /\ UNCHANGED chan
    <3> DEFINE p == job[caller].arg
    <3>1. p \in IoOps /\ job[caller] = SubmitIoOp(p)
      BY <2>1, CallArgs
    <3>2. Submitting(caller, p)
      BY <2>1, <3>1 DEF Submitting
    <3>3. \A o \in IoOps : o # p => reply'[o] = reply[o]
      BY <1>t, <2>3
    <3> QED BY <1>6, <2>1, <2>3, <3>1, <3>2, <3>3, UnansweredRefused
  <2> QED BY <1>8, <2>2, <2>3 DEF SendSubmit
<1>9. ASSUME NEW caller \in Threads, Return(caller) PROVE Unanswered'
  <2>1. \A th \in Threads, o \in IoOps : Submitting(th, o)' => Submitting(th, o)
    BY <1>9, <1>t DEF Return, End, Submitting, SubmitIoOp
  <2> QED BY <1>9, <2>1, UnansweredKept DEF Return
\* The executors.
<1>10. ASSUME UNCHANGED <<step, job, reply, chan>> PROVE Unanswered'
  <2>1. \A th \in Threads, o \in IoOps : Submitting(th, o)' => Submitting(th, o)
    BY <1>10 DEF Submitting, SubmitIoOp
  <2> QED BY <1>10, <2>1, UnansweredKept
<1>11. ASSUME NEW h \in Execs, RecvSpawn(h) \/ RecvPoll(h) \/ RecvIdlePoll(h) PROVE Unanswered'
  <2>1. /\ UNCHANGED <<step, job, reply>>
        /\ chan[h] # <<>> /\ chan' = [chan EXCEPT ![h] = Tail(chan[h])]
    BY <1>11, Scanned DEF RecvSpawn, RecvIdlePoll, Receive, Run
  <2> QED BY <2>1, UnansweredReceived
<1>12. ASSUME NEW h \in Execs, RecvSubmit(h) PROVE Unanswered'
  <2>1. /\ UNCHANGED <<step, job>>
        /\ chan[h] # <<>> /\ chan' = [chan EXCEPT ![h] = Tail(chan[h])]
        /\ Head(chan[h]).op = "SubmitIoOp"
    BY <1>12 DEF RecvSubmit, Receive
  <2>2. chan[h] \in Seq(Transactions)
    BY <1>t
  <2>3. Head(chan[h]) = SubmitIoOp(Head(chan[h]).arg)
    BY <2>1, <2>2, TailElements, TransactionTypes
  <2>4. \A o \in IoOps : reply'[o] = reply[o] \/ Head(chan[h]) = SubmitIoOp(o)
    BY <1>12, <1>t, <2>3 DEF RecvSubmit
  <2> QED BY <2>1, <2>4, UnansweredReceived
<1>13. ASSUME NEW h \in Execs, RecvNothing(h) \/ PollReady(h) \/ PollPending(h) PROVE Unanswered'
  BY <1>10, <1>13 DEF RecvNothing, PollReady, PollPending, Pends
<1>14. ASSUME NEW h \in Execs, PollPanic(h) \/ CheckShutdown(h) PROVE Unanswered'
  <2>1. /\ UNCHANGED <<step, job, reply>>
        /\ UNCHANGED chan \/ chan' = [chan EXCEPT ![h] = <<>>]
    BY <1>14 DEF PollPanic, CheckShutdown, EndsIf, ThreadEnds
  <2>2. CASE UNCHANGED chan
    BY <1>10, <2>1, <2>2
  <2>3. CASE chan' = [chan EXCEPT ![h] = <<>>]
    BY <2>1, <2>3, UnansweredReceived
  <2> QED BY <2>1, <2>2, <2>3
<1>15. ASSUME (\E h \in Execs : PollerExit(h)) \/ Shutdown \/ UNCHANGED vars PROVE Unanswered'
  BY <1>10, <1>15 DEF PollerExit, Shutdown
<1> QED
  BY <1>2, <1>3, <1>4, <1>5, <1>7, <1>8, <1>9, <1>11, <1>12, <1>13, <1>14, <1>15
     DEF Next, Call, ClientCall, ExecStep, Threads

\* A step that answers an operation finds it pending, since what is still on its
\* way has no answer.
LEMMA AnsweredKept ==
  TypeInv /\ Unanswered /\ [Next]_vars =>
    \A o \in IoOps : reply[o] \in {"ok", "err"} => reply'[o] = reply[o]
<1> USE DEF vars, callVars, execVars
<1> SUFFICES ASSUME TypeInv, Unanswered, [Next]_vars, NEW o \in IoOps, reply[o] \in {"ok", "err"}
             PROVE  reply'[o] = reply[o]
  OBVIOUS
<1>t. /\ chan \in [Execs -> Seq(Transactions)]
      /\ reply \in [IoOps -> {"unused", "pending", "ok", "err"}]
  BY DEF TypeInv, TypeOK
<1>1. CASE UNCHANGED reply
  BY <1>1
<1>2. ASSUME NEW caller \in Threads, NEW p \in IoOps, CallSubmit(caller, p) PROVE reply'[o] = reply[o]
  BY <1>2, <1>t DEF CallSubmit
<1>3. ASSUME NEW caller \in Threads, SendSubmit(caller) PROVE reply'[o] = reply[o]
  <2>1. step[caller] = "send" /\ job[caller].op = "SubmitIoOp"
        /\ (UNCHANGED reply \/ reply' = [reply EXCEPT ![job[caller].arg] = "err"])
    BY <1>3 DEF SendSubmit, Sending
  <2>2. job[caller].arg \in IoOps /\ Submitting(caller, job[caller].arg)
    BY <2>1, CallArgs DEF Submitting
  <2>3. reply[job[caller].arg] = "pending"
    BY <2>2 DEF Unanswered, InCallOnce
  <2> QED BY <1>t, <2>1, <2>2, <2>3
<1>4. ASSUME NEW h \in Execs, RecvSubmit(h) PROVE reply'[o] = reply[o]
  <2>1. chan[h] # <<>> /\ Head(chan[h]).op = "SubmitIoOp" /\ chan[h] \in Seq(Transactions)
        /\ \E answer : reply' = [reply EXCEPT ![Head(chan[h]).arg] = answer]
    BY <1>4, <1>t DEF RecvSubmit, Receive
  <2>2. /\ 1 \in DOMAIN chan[h] /\ Head(chan[h]) = chan[h][1] /\ Head(chan[h]) \in Transactions
    BY <2>1, TailElements
  <2>3. Head(chan[h]).arg \in IoOps /\ chan[h][1] = SubmitIoOp(Head(chan[h]).arg)
    BY <2>1, <2>2, TransactionTypes
  <2>4. reply[Head(chan[h]).arg] = "pending"
    BY <2>2, <2>3 DEF Unanswered, InChanOnce, Carried
  <2> QED BY <1>t, <2>1, <2>3, <2>4
<1>5. ASSUME ~(UNCHANGED reply)
      PROVE  \/ \E th \in Threads, p \in IoOps : CallSubmit(th, p)
             \/ \E th \in Threads : SendSubmit(th)
             \/ \E h \in Execs : RecvSubmit(h)
  BY <1>5 DEF Next, ClientCall, Call, ExecStep, Threads, CallSpawn, CallPoll, StoreIndex, SendPoll,
              SendSpawn, Return, RecvSpawn, RecvPoll, ScanPoll, RecvIdlePoll, RecvNothing, Run, PollReady,
              PollPending, Pends, PollPanic, CheckShutdown, EndsIf, PollerExit, Shutdown
<1> QED BY <1>1, <1>2, <1>3, <1>4, <1>5

\* No operation is ever answered twice, whatever threads submit and executors end.
THEOREM OneReply == Spec => RepliedOnce
<1>1. Init => Unanswered
  BY DEF Init, Unanswered, InCallOnce, InChanOnce, Submitting, Carried
<1>2. TypeInv /\ [Next]_vars => TypeInv'
  BY NextTypes
<1>3. Spec => [](TypeInv /\ Unanswered)
  BY <1>1, <1>2, InitTypes, NextUnanswered, PTL DEF Spec
<1>4. TypeInv /\ Unanswered /\ [Next]_vars
        => [\A o \in IoOps : reply[o] \in {"ok", "err"} => reply'[o] = reply[o]]_vars
  BY AnsweredKept
<1> QED BY <1>3, <1>4, PTL DEF Spec, RepliedOnce

-----------------------------------------------------------------------------
(* The most urgent task.                                                   *)

\* Only its own Poll moves an executor on from a Poll.
LEMMA OnlyPoll ==
  ASSUME TypeInv, [Next]_vars, NEW h \in Execs, TakesPoll(h)
  PROVE  RecvPoll(h) \/ RecvIdlePoll(h)
<1> USE DEF vars, callVars, execVars
<1>1. /\ pc[h] = "recv" /\ pc'[h] # "recv" /\ chan[h] # <<>> /\ Head(chan[h]).op = "Poll"
      /\ pc \in [Execs -> {"recv", "poll", "check", "exited"}]
  BY TransactionsDiffer DEF TakesPoll, TypeInv, TypeOK
<1>2. ASSUME NEW g \in Execs, ExecStep(g), g # h PROVE FALSE
  <2>1. pc'[h] = pc[h]
    BY <1>1, <1>2
       DEF ExecStep, ClientCall, CallSpawn, CallSubmit, RecvSpawn, RecvSubmit, RecvPoll, ScanPoll,
           RecvIdlePoll, RecvNothing, Run, PollReady, PollPending, Pends, Requeue, PollPanic, CheckShutdown, EndsIf,
           ThreadEnds, Goto
  <2> QED BY <1>1, <2>1
<1>3. ASSUME ExecStep(h) PROVE RecvPoll(h) \/ RecvIdlePoll(h)
  BY <1>1, <1>3
     DEF ExecStep, ClientCall, CallSpawn, CallSubmit, RecvSpawn, RecvSubmit, Receive, RecvNothing,
         PollReady, PollPending, Pends, PollPanic, Polling, CheckShutdown, EndsIf
<1>4. UNCHANGED pc => FALSE
  BY <1>1
<1>5. \E g \in Execs : ExecStep(g)
  BY <1>4 DEF Next, ClientCall, Call, CallSpawn, CallSubmit, CallPoll, StoreIndex, SendPoll, SendSpawn,
              SendSubmit, Return, PollerExit, Shutdown
<1> QED BY <1>2, <1>3, <1>5

\* Without the feature "fairness", a Poll handled while tasks are queued polls one
\* of them, and none that is queued at this executor is more urgent.
LEMMA PollsMostUrgent ==
  ASSUME TypeInv, Coherent, FairnessFeature = FALSE, [Next]_vars, NEW h \in Execs, TakesPoll(h),
         NEW t \in Tasks, InQueue(h, t)
  PROVE  /\ running'[h] # None
         /\ \A u \in Tasks : InQueue(h, u) => Prio[running'[h]] <= Prio[u]
<1>t. /\ tasks[h] \in [Levels -> Seq(Tasks)] /\ running \in [Execs -> Tasks \cup {None}]
      /\ Prio \in [Tasks -> 1 .. 4] /\ None \notin Tasks
  BY TasksAssumption, NoneAssumption DEF TypeInv, TypeOK
\* Whatever is queued is queued at its own level.
<1>1. ASSUME NEW u \in Tasks, InQueue(h, u) PROVE Prio[u] \in Queued(h, 0)
  <2>1. PICK q \in Levels : \E i \in DOMAIN tasks[h][q] : tasks[h][q][i] = u
    BY <1>1 DEF InQueue
  <2>2. Prio[u] = q /\ tasks[h][q] # <<>>
    BY <2>1 DEF Coherent, OneOwner, QueueOwner
  <2> QED BY <2>2 DEF Queued, Levels
<1>2. RecvPoll(h)
  <2>1. Queued(h, 0) # {}
    BY <1>1
  <2>2. ~RecvIdlePoll(h)
    BY <2>1 DEF RecvIdlePoll, ScanFrom
  <2> QED BY <2>2, OnlyPoll
<1>3. PICK p \in Levels : /\ p \in Queued(h, 0) /\ \A q \in Queued(h, 0) : p <= q
                          /\ Run(h, Head(tasks[h][p]))
  <2>1. ScanPoll(h, 0)
    BY <1>2 DEF RecvPoll, ScanFrom
  <2>2. \A p \in Queued(h, 0) : p \in Levels
    BY DEF Queued, Levels
  <2> QED BY <2>1, <2>2 DEF ScanPoll
<1>4. /\ Head(tasks[h][p]) \in Tasks
      /\ 1 \in DOMAIN tasks[h][p] /\ Head(tasks[h][p]) = tasks[h][p][1]
  <2>1. tasks[h][p] # <<>> /\ tasks[h][p] \in Seq(Tasks)
    BY <1>3, <1>t DEF Queued
  <2> QED BY <2>1, TailElements
<1>5. running'[h] = Head(tasks[h][p]) /\ Prio[Head(tasks[h][p])] = p
  BY <1>3, <1>4, <1>t DEF Run, Coherent, OneOwner, QueueOwner
<1> QED BY <1>1, <1>3, <1>4, <1>5, <1>t

\* What the comment of get_task says, for every number of tasks and executors,
\* when the feature "fairness" is off.
THEOREM MostUrgentFirst == ASSUME FairnessFeature = FALSE PROVE Spec => MostUrgent
<1>1. Spec => [](TypeInv /\ Coherent)
  BY Invariant
<1>2. TypeInv /\ Coherent /\ [Next]_vars =>
        [\A h \in Execs : TakesPoll(h) /\ (\E t \in Tasks : InQueue(h, t)) =>
           /\ running'[h] # None
           /\ \A u \in Tasks : InQueue(h, u) => Prio[running'[h]] <= Prio[u]]_vars
  BY PollsMostUrgent
<1> QED BY <1>1, <1>2, PTL DEF Spec, MostUrgent

=============================================================================
