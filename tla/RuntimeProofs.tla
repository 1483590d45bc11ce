---------------------------- MODULE RuntimeProofs ----------------------------
(***************************************************************************)
(* Theorems of Runtime, for any number of runtimes and any capacity.       *)
(***************************************************************************)
EXTENDS Runtime, TLAPS

\* Owners and drivers are different threads, one of each for a runtime.
LEMMA ThreadsDiffer ==
  \A r, q \in Runtimes : /\ Owner(r) \in Threads /\ Driver(r) \in Threads
                         /\ Owner(r) \in Owners /\ Driver(r) \in Drivers
                         /\ Owner(r) \notin Drivers /\ Driver(r) \notin Owners
                         /\ Owner(r) # Driver(q)
                         /\ (Owner(r) = Owner(q) => r = q)
                         /\ (Driver(r) = Driver(q) => r = q)
<1>1. \A r, q \in Runtimes : Owner(r) # Driver(q)
  BY DEF Owner, Driver
<1>2. \A r, q \in Runtimes : (Owner(r) = Owner(q) => r = q) /\ (Driver(r) = Driver(q) => r = q)
  BY DEF Owner, Driver
<1>3. QED
  BY <1>1, <1>2 DEF Threads, Owners, Drivers

LEMMA InitTypes == Init => TypeOK
  BY CapacityAssumption DEF Init, TypeOK, OwnerPc, DriverPc

LEMMA NextTypes == TypeOK /\ [Next]_vars => TypeOK'
<1> SUFFICES ASSUME TypeOK, [Next]_vars PROVE TypeOK'
  OBVIOUS
<1> USE DEF TypeOK, Goto, OwnerPc, DriverPc, Stopping
<1>1. ASSUME NEW r \in Runtimes, OwnerCalls(r) PROVE TypeOK'
  BY <1>1 DEF OwnerCalls, Run, BlockOn, BeginShutdown, BeginDrop
<1>2. ASSUME NEW r \in Runtimes, Put(r) PROVE notices' \in [Runtimes -> 0 .. Capacity] /\ sent' \in [Runtimes -> Nat]
  <2>1. notices[r] + 1 \in 0 .. Capacity /\ sent[r] + 1 \in Nat
    BY <1>2, CapacityAssumption DEF Put
  <2>2. QED
    BY <1>2, <2>1 DEF Put
<1>3. ASSUME NEW r \in Runtimes, NEW th, notices[r] > 0, notices' = [notices EXCEPT ![r] = @ - 1]
      PROVE  notices' \in [Runtimes -> 0 .. Capacity]
  <2>1. notices[r] - 1 \in 0 .. Capacity
    BY <1>3, CapacityAssumption
  <2>2. QED
    BY <1>3, <2>1
<1>4. ASSUME NEW th \in Threads, Stop(th) PROVE TypeOK'
  <2>1. Stopped(th) \in {"exited", "dropped", "idle"}
    BY DEF Stopped
  <2>2. CASE StopLoad(th)
    BY <2>2 DEF StopLoad
  <2>3. CASE StopFlag(th)
    BY <2>3 DEF StopFlag
  <2>4. CASE StopStore(th)
    BY <2>1, <2>4 DEF StopStore
  <2>5. QED
    BY <1>4, <2>2, <2>3, <2>4 DEF Stop
<1>5. ASSUME NEW r \in Runtimes, OwnerStep(r) PROVE TypeOK'
  <2>1. CASE Publish(r)
    BY <2>1 DEF Publish
  <2>2. CASE Launch(r)
    BY <2>2 DEF Launch
  <2>3. CASE Unblock(r)
    BY <1>3, <2>3 DEF Unblock
  <2>4. CASE OwnerSend(r)
    BY <1>2, <2>4 DEF OwnerSend
  <2>5. CASE Stop(Owner(r))
    BY <1>4, <2>5, ThreadsDiffer
  <2>6. QED
    BY <1>5, <2>1, <2>2, <2>3, <2>4, <2>5 DEF OwnerStep
<1>6. ASSUME NEW r \in Runtimes, DriverStep(r) PROVE TypeOK'
  <2>1. CASE DriverRecv(r)
    BY <1>3, <2>1 DEF DriverRecv
  <2>2. CASE Stop(Driver(r))
    BY <1>4, <2>2, ThreadsDiffer
  <2>3. QED
    BY <1>6, <2>1, <2>2 DEF DriverStep
<1>7. ASSUME NEW r \in Runtimes, ThreadsEnd(r) PROVE TypeOK'
  BY <1>7 DEF ThreadsEnd
<1>8. ASSUME NEW r \in Runtimes, UserSend(r) PROVE TypeOK'
  BY <1>2, <1>8 DEF UserSend
<1>9. CASE UNCHANGED vars
  BY <1>9 DEF vars
<1>10. QED
  BY <1>1, <1>5, <1>6, <1>7, <1>8, <1>9 DEF Next

\* Runtime!TypeOK holds for any number of runtimes: notices fit the channel.
THEOREM RuntimeTypes == Spec => []TypeOK
  BY InitTypes, NextTypes, PTL DEF Spec

-----------------------------------------------------------------------------
(* A coordinator nobody has published yet is known to nobody, so nobody    *)
(* can have told it to stop; a driver exists only after the publication.   *)

Fresh(r) == ~started[r] \/ pc[Owner(r)] = "publish"
FreshUnknown == \A r \in Runtimes : Fresh(r) =>
  /\ executor # r
  /\ ~flag[r]
  /\ \A th \in Threads : held[th] # r
Launching == \A r \in Runtimes :
  /\ pc[Owner(r)] \in {"publish", "launch"} => started[r]
  /\ ~started[r] \/ pc[Owner(r)] \in {"publish", "launch"} => pc[Driver(r)] = "none"

Inv == FreshUnknown /\ Launching /\ StoppedIsReplaced /\ DroppedUnreachable

LEMMA InitInv == Init => Inv
<1> SUFFICES ASSUME Init PROVE Inv
  OBVIOUS
<1>1. \A r \in Runtimes : /\ executor # r /\ ~flag[r] /\ pc[Owner(r)] = "idle" /\ pc[Driver(r)] = "none"
                          /\ \A th \in Threads : held[th] # r
  BY ThreadsDiffer, InertAssumption DEF Init
<1>2. QED
  BY <1>1 DEF Inv, FreshUnknown, Launching, StoppedIsReplaced, DroppedUnreachable

\* Steps of one thread inside or between its calls.
LEMMA GotoInv ==
  ASSUME TypeOK, Inv, UNCHANGED <<executor, flag, held, started>>,
         NEW th \in Threads, NEW from, NEW to, Goto(th, from, to),
         from \notin {"none", "store"}, to \notin {"publish", "launch", "dropped"}
  PROVE  Inv'
<1>1. \A t \in Threads : /\ pc'[t] \in {"publish", "launch", "dropped"} => pc'[t] = pc[t]
                         /\ pc[t] \in {"none", "store"} => pc'[t] = pc[t]
  BY DEF Goto, TypeOK
<1>2. \A r \in Runtimes : Owner(r) \in Threads /\ Driver(r) \in Threads
  BY ThreadsDiffer
<1>3. FreshUnknown'
  BY <1>1, <1>2 DEF Inv, FreshUnknown, Fresh
<1>4. Launching'
  BY <1>1, <1>2 DEF Inv, Launching
<1>5. StoppedIsReplaced'
  <2> SUFFICES ASSUME NEW r \in Runtimes, executor = r, flag[r]
               PROVE  \E t \in Threads : pc'[t] = "store" /\ held'[t] = r
    BY DEF StoppedIsReplaced
  <2>1. PICK t \in Threads : pc[t] = "store" /\ held[t] = r
    BY DEF Inv, StoppedIsReplaced
  <2>2. QED
    BY <1>1, <2>1
<1>6. DroppedUnreachable'
  BY <1>1, <1>2 DEF Inv, DroppedUnreachable
<1>7. QED
  BY <1>3, <1>4, <1>5, <1>6 DEF Inv

\* Steps that move no thread.
LEMMA StillInv ==
  ASSUME Inv, UNCHANGED <<executor, flag, held, started, pc>>
  PROVE  Inv'
  BY DEF Inv, FreshUnknown, Fresh, Launching, StoppedIsReplaced, DroppedUnreachable

LEMMA StopInv ==
  ASSUME TypeOK, Inv, NEW th \in Threads, Stop(th)
  PROVE  Inv'
<1>0. \A r \in Runtimes : Owner(r) \in Threads /\ Driver(r) \in Threads
  BY ThreadsDiffer
<1>1. CASE StopLoad(th)
  <2>1. /\ pc[th] = "load" /\ pc' = [pc EXCEPT ![th] = "flag"]
        /\ held' = [held EXCEPT ![th] = executor] /\ UNCHANGED <<executor, started, flag>>
    BY <1>1 DEF StopLoad, Goto
  <2>2. \A t \in Threads : /\ pc'[t] \in {"publish", "launch", "dropped"} => pc'[t] = pc[t]
                           /\ pc[t] \in {"none", "store"} => pc'[t] = pc[t]
                           /\ held'[t] \in {held[t], executor}
                           /\ pc[t] = "store" => held'[t] = held[t]
    BY <2>1 DEF TypeOK
  <2>3. FreshUnknown'
    BY <1>0, <2>1, <2>2 DEF Inv, FreshUnknown, Fresh
  <2>4. Launching'
    BY <1>0, <2>1, <2>2 DEF Inv, Launching
  <2>5. StoppedIsReplaced'
    BY <2>1, <2>2 DEF Inv, StoppedIsReplaced
  <2>6. DroppedUnreachable'
    BY <1>0, <2>1, <2>2 DEF Inv, DroppedUnreachable
  <2>7. QED
    BY <2>3, <2>4, <2>5, <2>6 DEF Inv
<1>2. CASE StopFlag(th)
  <2>1. /\ pc[th] = "flag" /\ pc' = [pc EXCEPT ![th] = "store"]
        /\ flag' = [r \in Runtimes |-> flag[r] \/ held[th] = r]
        /\ UNCHANGED <<executor, started, held>>
    BY <1>2 DEF StopFlag, Goto
  <2>2. \A t \in Threads : /\ pc'[t] \in {"publish", "launch", "dropped"} => pc'[t] = pc[t]
                           /\ pc[t] = "none" => pc'[t] = pc[t]
    BY <2>1 DEF TypeOK
  <2>3. FreshUnknown'
    BY <1>0, <2>1, <2>2 DEF Inv, FreshUnknown, Fresh
  <2>4. Launching'
    BY <1>0, <2>1, <2>2 DEF Inv, Launching
  <2>5. StoppedIsReplaced'
    <3> SUFFICES ASSUME NEW r \in Runtimes, executor = r, flag'[r]
                 PROVE  \E t \in Threads : pc'[t] = "store" /\ held[t] = r
      BY <2>1 DEF StoppedIsReplaced
    <3>1. CASE held[th] = r
      BY <2>1, <3>1 DEF TypeOK
    <3>2. CASE flag[r]
      <4>1. PICK t \in Threads : pc[t] = "store" /\ held[t] = r
        BY <3>2 DEF Inv, StoppedIsReplaced
      <4>2. QED
        BY <2>1, <4>1 DEF TypeOK
    <3>3. QED
      BY <2>1, <3>1, <3>2
  <2>6. DroppedUnreachable'
    BY <1>0, <2>1, <2>2 DEF Inv, DroppedUnreachable
  <2>7. QED
    BY <2>3, <2>4, <2>5, <2>6 DEF Inv
\* The one step that makes an owner "dropped" also publishes the inert coordinator.
<1>3. CASE StopStore(th)
  <2>1. /\ pc[th] = "store" /\ pc' = [pc EXCEPT ![th] = Stopped(th)]
        /\ executor' = Inert /\ held' = [held EXCEPT ![th] = Inert]
        /\ UNCHANGED <<started, flag>>
    BY <1>3 DEF StopStore, Goto
  <2>2. Stopped(th) \in {"exited", "dropped", "idle"}
    BY DEF Stopped
  <2>3. \A t \in Threads : /\ pc'[t] \in {"publish", "launch"} => pc'[t] = pc[t]
                           /\ pc[t] = "none" => pc'[t] = pc[t]
                           /\ held'[t] \in {held[t], Inert}
    BY <2>1, <2>2 DEF TypeOK
  <2>4. \A r \in Runtimes : executor' # r
    BY <2>1, InertAssumption
  <2>5. FreshUnknown'
    BY <1>0, <2>1, <2>3, <2>4, InertAssumption DEF Inv, FreshUnknown, Fresh
  <2>6. Launching'
    BY <1>0, <2>1, <2>3 DEF Inv, Launching
  <2>7. StoppedIsReplaced' /\ DroppedUnreachable'
    BY <2>4 DEF StoppedIsReplaced, DroppedUnreachable
  <2>8. QED
    BY <2>5, <2>6, <2>7 DEF Inv
<1>4. QED
  BY <1>1, <1>2, <1>3 DEF Stop

LEMMA NextInv == TypeOK /\ Inv /\ [Next]_vars => Inv'
<1> SUFFICES ASSUME TypeOK, Inv, [Next]_vars PROVE Inv'
  OBVIOUS
<1>0. \A r \in Runtimes : Owner(r) \in Threads /\ Driver(r) \in Threads
  BY ThreadsDiffer
<1>1. ASSUME NEW r \in Runtimes, Run(r) PROVE Inv'
  <2>1. /\ pc[Owner(r)] = "idle" /\ pc' = [pc EXCEPT ![Owner(r)] = "publish"] /\ ~started[r]
        /\ started' = [started EXCEPT ![r] = TRUE] /\ UNCHANGED <<executor, flag, held>>
    BY <1>1 DEF Run, Goto
  <2>2. \A t \in Threads : t # Owner(r) => pc'[t] = pc[t]
    BY <1>0, <2>1 DEF TypeOK
  <2>3. pc'[Owner(r)] = "publish" /\ started'[r]
    BY <1>0, <2>1 DEF TypeOK
  <2>4. \A q \in Runtimes : q # r => pc'[Owner(q)] = pc[Owner(q)] /\ started'[q] = started[q]
    BY <1>0, <2>1, <2>2, ThreadsDiffer DEF TypeOK
  <2>5. \A q \in Runtimes : pc'[Driver(q)] = pc[Driver(q)]
    BY <1>0, <2>2, ThreadsDiffer
  <2>6. FreshUnknown'
    BY <2>1, <2>4 DEF Inv, FreshUnknown, Fresh
  <2>7. Launching'
    BY <2>1, <2>3, <2>4, <2>5 DEF Inv, Launching
  <2>8. StoppedIsReplaced'
    BY <1>0, <2>1, <2>2 DEF Inv, StoppedIsReplaced
  <2>9. DroppedUnreachable'
    BY <2>1, <2>3, <2>4 DEF Inv, DroppedUnreachable
  <2>10. QED
    BY <2>6, <2>7, <2>8, <2>9 DEF Inv
<1>2. ASSUME NEW r \in Runtimes, Publish(r) PROVE Inv'
  <2>1. /\ pc[Owner(r)] = "publish" /\ pc' = [pc EXCEPT ![Owner(r)] = "launch"]
        /\ executor' = r /\ UNCHANGED <<started, flag, held>>
    BY <1>2 DEF Publish, Goto
  <2>2. started[r] /\ ~flag[r] /\ pc[Driver(r)] = "none"
    BY <2>1 DEF Inv, Launching, FreshUnknown, Fresh
  <2>3. pc'[Owner(r)] = "launch" /\ \A q \in Runtimes : q # r => pc'[Owner(q)] = pc[Owner(q)]
    BY <1>0, <2>1, ThreadsDiffer DEF TypeOK
  <2>4. \A q \in Runtimes : pc'[Driver(q)] = pc[Driver(q)]
    BY <1>0, <2>1, ThreadsDiffer DEF TypeOK
  <2>5. FreshUnknown'
    BY <2>1, <2>2, <2>3 DEF Inv, FreshUnknown, Fresh
  <2>6. Launching'
    BY <2>1, <2>2, <2>3, <2>4 DEF Inv, Launching
  <2>7. StoppedIsReplaced'
    BY <2>1, <2>2 DEF StoppedIsReplaced
  <2>8. DroppedUnreachable'
    BY <2>1, <2>3 DEF DroppedUnreachable
  <2>9. QED
    BY <2>5, <2>6, <2>7, <2>8 DEF Inv
<1>3. ASSUME NEW r \in Runtimes, Launch(r) PROVE Inv'
  <2>1. /\ pc[Owner(r)] = "launch" /\ pc' = [pc EXCEPT ![Owner(r)] = "idle", ![Driver(r)] = "run"]
        /\ UNCHANGED <<executor, started, flag, held>>
    BY <1>3 DEF Launch
  <2>2. pc[Driver(r)] = "none"
    BY <2>1 DEF Inv, Launching
  <2>3. pc'[Owner(r)] = "idle" /\ pc'[Driver(r)] = "run"
    BY <1>0, <2>1, ThreadsDiffer DEF TypeOK
  <2>4. \A t \in Threads : t \notin {Owner(r), Driver(r)} => pc'[t] = pc[t]
    BY <2>1 DEF TypeOK
  <2>5. \A q \in Runtimes : q # r => pc'[Owner(q)] = pc[Owner(q)] /\ pc'[Driver(q)] = pc[Driver(q)]
    BY <1>0, <2>4, ThreadsDiffer
  <2>6. started[r]
    BY <2>1, <2>2 DEF Inv, Launching
  <2>7. FreshUnknown'
    BY <2>1, <2>3, <2>5 DEF Inv, FreshUnknown, Fresh
  <2>8. Launching'
    BY <2>1, <2>3, <2>5, <2>6 DEF Inv, Launching
  <2>9. StoppedIsReplaced'
    <3> SUFFICES ASSUME NEW q \in Runtimes, executor = q, flag[q]
                 PROVE  \E t \in Threads : pc'[t] = "store" /\ held[t] = q
      BY <2>1 DEF StoppedIsReplaced
    <3>1. PICK t \in Threads : pc[t] = "store" /\ held[t] = q
      BY DEF Inv, StoppedIsReplaced
    <3>2. t \notin {Owner(r), Driver(r)}
      BY <2>1, <2>2, <3>1
    <3>3. QED
      BY <2>4, <3>1, <3>2
  <2>10. DroppedUnreachable'
    BY <2>1, <2>3, <2>5 DEF Inv, DroppedUnreachable
  <2>11. QED
    BY <2>7, <2>8, <2>9, <2>10 DEF Inv
<1>4. ASSUME NEW r \in Runtimes, BlockOn(r) \/ BeginShutdown(r) \/ BeginDrop(r) PROVE Inv'
  BY <1>0, <1>4, GotoInv DEF BlockOn, BeginShutdown, BeginDrop
<1>5. ASSUME NEW r \in Runtimes, Unblock(r) \/ OwnerSend(r) \/ DriverRecv(r) PROVE Inv'
  BY <1>0, <1>5, GotoInv DEF Unblock, OwnerSend, DriverRecv
<1>6. ASSUME NEW r \in Runtimes, Stop(Owner(r)) \/ Stop(Driver(r)) PROVE Inv'
  BY <1>0, <1>6, StopInv
<1>7. ASSUME NEW r \in Runtimes, ThreadsEnd(r) \/ UserSend(r) PROVE Inv'
  BY <1>7, StillInv DEF ThreadsEnd, UserSend
<1>8. CASE UNCHANGED vars
  BY <1>8, StillInv DEF vars
<1>9. QED
  BY <1>1, <1>2, <1>3, <1>4, <1>5, <1>6, <1>7, <1>8
     DEF Next, OwnerCalls, OwnerStep, DriverStep

LEMMA Invariant == Spec => []Inv
<1>1. Spec => [](TypeOK /\ Inv)
  BY InitTypes, NextTypes, InitInv, NextInv, PTL DEF Spec
<1>2. QED
  BY <1>1, PTL

\* No coordinator that was told to stop stays published, except while the thread
\* that told it so is about to replace it (runtime.rs, shutdown and the end of
\* the driver), for any number of runtimes.
THEOREM StoppedReplaced == Spec => []StoppedIsReplaced
<1>1. Inv => StoppedIsReplaced
  BY DEF Inv
<1>2. QED
  BY Invariant, <1>1, PTL

\* A dropped runtime is never reached again (runtime.rs, Drop).
THEOREM DroppedForGood == Spec => []DroppedUnreachable
<1>1. Inv => DroppedUnreachable
  BY DEF Inv
<1>2. QED
  BY Invariant, <1>1, PTL

-----------------------------------------------------------------------------
(* Every notice is in the channel or was the one its driver took.          *)

Counted == \A r \in Runtimes :
  sent[r] = notices[r] + (IF pc[Driver(r)] \in {"none", "run"} THEN 0 ELSE 1)

LEMMA InitCounted == Init => Counted
<1> SUFFICES ASSUME Init, NEW r \in Runtimes
             PROVE  sent[r] = notices[r] + (IF pc[Driver(r)] \in {"none", "run"} THEN 0 ELSE 1)
  BY DEF Counted
<1>1. sent[r] = 0 /\ notices[r] = 0
  BY DEF Init
<1>2. pc[Driver(r)] = "none"
  BY ThreadsDiffer DEF Init
<1>3. QED
  BY <1>1, <1>2

\* A step that moves no driver in or out of its loop, and puts in what it counts.
LEMMA CountedKept ==
  ASSUME Counted,
         \A q \in Runtimes : pc'[Driver(q)] \in {"none", "run"} <=> pc[Driver(q)] \in {"none", "run"},
         \A q \in Runtimes : sent'[q] - notices'[q] = sent[q] - notices[q],
         TypeOK, TypeOK'
  PROVE  Counted'
<1> SUFFICES ASSUME NEW q \in Runtimes
             PROVE  sent'[q] = notices'[q] + (IF pc'[Driver(q)] \in {"none", "run"} THEN 0 ELSE 1)
  BY DEF Counted
<1>1. sent[q] \in Int /\ sent'[q] \in Int /\ notices[q] \in Int /\ notices'[q] \in Int
  BY CapacityAssumption DEF TypeOK
<1>2. sent[q] = notices[q] + (IF pc[Driver(q)] \in {"none", "run"} THEN 0 ELSE 1)
  BY DEF Counted
<1>3. QED
  BY <1>1, <1>2

LEMMA PutCounts ==
  ASSUME TypeOK, NEW r \in Runtimes, Put(r)
  PROVE  \A q \in Runtimes : sent'[q] - notices'[q] = sent[q] - notices[q]
<1>1. \A q \in Runtimes : sent[q] \in Int /\ notices[q] \in Int
  BY CapacityAssumption DEF TypeOK
<1>2. \A q \in Runtimes : /\ q = r => sent'[q] = sent[q] + 1 /\ notices'[q] = notices[q] + 1
                          /\ q # r => sent'[q] = sent[q] /\ notices'[q] = notices[q]
  BY DEF Put, TypeOK
<1>3. QED
  BY <1>1, <1>2

LEMMA NextCounted == TypeOK /\ TypeOK' /\ Launching /\ Counted /\ [Next]_vars => Counted'
<1> SUFFICES ASSUME TypeOK, TypeOK', Launching, Counted, [Next]_vars PROVE Counted'
  OBVIOUS
<1>0. \A r, q \in Runtimes : Owner(r) \in Threads /\ Driver(r) \in Threads /\ Owner(r) # Driver(q)
                             /\ (Driver(r) = Driver(q) => r = q)
  BY ThreadsDiffer
<1>1. ASSUME NEW r \in Runtimes, NEW to, pc' = [pc EXCEPT ![Owner(r)] = to] \/ pc' = pc
      PROVE  \A q \in Runtimes : pc'[Driver(q)] = pc[Driver(q)]
  BY <1>0, <1>1 DEF TypeOK
<1>2. ASSUME NEW r \in Runtimes, Run(r) \/ BlockOn(r) \/ BeginShutdown(r) \/ BeginDrop(r)
      PROVE  Counted'
  <2>1. UNCHANGED <<sent, notices>> /\ \E to : pc' = [pc EXCEPT ![Owner(r)] = to]
    BY <1>2 DEF Run, BlockOn, BeginShutdown, BeginDrop, Goto
  <2>2. QED
    BY <1>1, <2>1, CountedKept
<1>3. ASSUME NEW r \in Runtimes, Publish(r) \/ Unblock(r) PROVE Counted'
  <2>1. UNCHANGED <<sent, notices>> /\ \E to : pc' = [pc EXCEPT ![Owner(r)] = to]
    BY <1>3 DEF Publish, Unblock, Goto
  <2>2. QED
    BY <1>1, <2>1, CountedKept
<1>4. ASSUME NEW r \in Runtimes, Launch(r) PROVE Counted'
  <2>1. pc[Driver(r)] = "none"
    BY <1>4 DEF Launch, Launching
  <2>2. \A q \in Runtimes : IF q = r THEN pc'[Driver(q)] = "run" ELSE pc'[Driver(q)] = pc[Driver(q)]
    BY <1>0, <1>4 DEF Launch, TypeOK
  <2>3. UNCHANGED <<sent, notices>>
    BY <1>4 DEF Launch
  <2>4. QED
    BY <2>1, <2>2, <2>3, CountedKept
<1>5. ASSUME NEW r \in Runtimes, OwnerSend(r) \/ UserSend(r) PROVE Counted'
  <2>1. Put(r) /\ (pc' = [pc EXCEPT ![Owner(r)] = "load"] \/ pc' = pc)
    BY <1>5 DEF OwnerSend, UserSend, Goto
  <2>2. QED
    BY <1>1, <2>1, PutCounts, CountedKept
\* The driver that takes a notice leaves its loop for good.
<1>6. ASSUME NEW r \in Runtimes, DriverRecv(r) PROVE Counted'
  <2>1. \A q \in Runtimes : IF q = r THEN pc[Driver(q)] = "run" /\ pc'[Driver(q)] = "load"
                                     ELSE pc'[Driver(q)] = pc[Driver(q)]
    BY <1>0, <1>6 DEF DriverRecv, Goto, TypeOK
  <2>2. \A q \in Runtimes : notices'[q] = IF q = r THEN notices[q] - 1 ELSE notices[q]
    BY <1>6 DEF DriverRecv, TypeOK
  <2>3. sent' = sent
    BY <1>6 DEF DriverRecv
  <2>4. SUFFICES ASSUME NEW q \in Runtimes
                 PROVE  sent'[q] = notices'[q] + (IF pc'[Driver(q)] \in {"none", "run"} THEN 0 ELSE 1)
    BY DEF Counted
  <2>5. sent[q] = notices[q] + (IF pc[Driver(q)] \in {"none", "run"} THEN 0 ELSE 1)
    BY DEF Counted
  <2>6. sent[q] \in Int /\ notices[q] \in Int
    BY CapacityAssumption DEF TypeOK
  <2>7. QED
    BY <2>1, <2>2, <2>3, <2>5, <2>6
<1>7. ASSUME NEW r \in Runtimes, NEW th \in {Owner(r), Driver(r)}, Stop(th) PROVE Counted'
  <2>1. UNCHANGED <<sent, notices>>
    BY <1>7 DEF Stop, StopLoad, StopFlag, StopStore
  <2>2. Stopped(th) \in {"exited", "dropped", "idle"}
    BY DEF Stopped
  <2>3. /\ pc[th] \in Stopping
        /\ \E to \in {"flag", "store", "exited", "dropped", "idle"} : pc' = [pc EXCEPT ![th] = to]
    BY <1>7, <2>2 DEF Stop, StopLoad, StopFlag, StopStore, Goto, Stopping
  <2>4. \A q \in Runtimes : pc'[Driver(q)] = pc[Driver(q)]
                         \/ {pc[Driver(q)], pc'[Driver(q)]} \cap {"none", "run"} = {}
    BY <1>0, <2>3 DEF TypeOK, Stopping
  <2>5. QED
    BY <2>1, <2>4, CountedKept
<1>8. ASSUME NEW r \in Runtimes, ThreadsEnd(r) PROVE Counted'
  BY <1>8 DEF ThreadsEnd, Counted
<1>9. CASE UNCHANGED vars
  BY <1>9 DEF vars, Counted
<1>10. QED
  BY <1>2, <1>3, <1>4, <1>5, <1>6, <1>7, <1>8, <1>9
     DEF Next, OwnerCalls, OwnerStep, DriverStep

LEMMA AlwaysCounted == Spec => [](TypeOK /\ Inv /\ Counted)
<1>1. Inv => Launching
  BY DEF Inv
<1>2. QED
  BY <1>1, InitTypes, NextTypes, InitInv, NextInv, InitCounted, NextCounted, PTL DEF Spec

\* A running driver that was sent a notice has one to take, and a shutdown or drop
\* that waits for the channel to drain waits for a driver that runs, or more was
\* sent than the channel and a driver ever take (runtime.rs, run, shutdown, Drop).
THEOREM NoticesAreKept == Spec => []NoticesKept
<1>1. TypeOK /\ Counted => NoticesKept
  <2> SUFFICES ASSUME TypeOK, Counted, NEW r \in Runtimes
               PROVE  /\ pc[Driver(r)] = "run" /\ sent[r] > 0 => notices[r] > 0
                      /\ pc[Owner(r)] = "send" /\ notices[r] = Capacity =>
                           \/ pc[Driver(r)] = "run"
                           \/ sent[r] >= Capacity + (IF Launched(r) THEN 1 ELSE 0)
    BY DEF NoticesKept
  <2>1. sent[r] = notices[r] + (IF pc[Driver(r)] \in {"none", "run"} THEN 0 ELSE 1)
    BY DEF Counted
  <2>2. sent[r] \in Int /\ notices[r] \in Int /\ Capacity \in Int
    BY CapacityAssumption DEF TypeOK
  <2>3. QED
    BY <2>1, <2>2 DEF Launched
<1>2. QED
  BY <1>1, AlwaysCounted, PTL

-----------------------------------------------------------------------------
(* What the two threads of a lone runtime leave behind.  A runtime nobody  *)
(* started or sent to does not stop anything; so once a lone runtime is    *)
(* published, EXECUTOR is it or inert, and whoever made it inert had told  *)
(* it to stop before, which is why a thread that loads the inert           *)
(* coordinator may leave the flag alone.                                   *)

Untouched == \A r \in Runtimes :
  ~started[r] /\ sent[r] = 0 => pc[Owner(r)] \in {"idle", "send"}

Published(r) == started[r] /\ pc[Owner(r)] # "publish"

OnTheWayOut(th, r) ==
  /\ pc[th] = "flag" => held[th] = r \/ flag[r]
  /\ pc[th] = "store" => flag[r]
  /\ pc[th] \in {"exited", "dropped"} => flag[r] /\ executor = Inert

Settled(r) ==
  /\ executor = r \/ (executor = Inert /\ flag[r])
  /\ OnTheWayOut(Owner(r), r)
  /\ OnTheWayOut(Driver(r), r)

Left == Untouched /\ \A r \in Runtimes : ~Others(r) /\ Published(r) => Settled(r)

LEMMA InitLeft == Init => Left
<1> SUFFICES ASSUME Init, NEW r \in Runtimes
             PROVE  pc[Owner(r)] = "idle" /\ ~started[r]
  BY DEF Left, Untouched, Published
<1>1. QED
  BY ThreadsDiffer DEF Init

\* What any step does to a runtime and its owner: a start or a notice is never undone.
LEMMA NeverUndone ==
  ASSUME TypeOK, [Next]_vars, NEW q \in Runtimes
  PROVE  /\ started[q] => started'[q]
         /\ sent[q] > 0 => sent'[q] > 0
<1> USE DEF TypeOK
<1>1. ASSUME NEW r \in Runtimes, Put(r) PROVE sent[q] > 0 => sent'[q] > 0
  BY <1>1 DEF Put
<1>2. ASSUME NEW r \in Runtimes, OwnerCalls(r) PROVE (started[q] => started'[q]) /\ sent' = sent
  BY <1>2 DEF OwnerCalls, Run, BlockOn, BeginShutdown, BeginDrop
<1>3. ASSUME NEW th, Stop(th) PROVE UNCHANGED <<started, sent>>
  BY <1>3 DEF Stop, StopLoad, StopFlag, StopStore
<1>4. ASSUME NEW r \in Runtimes, OwnerStep(r)
      PROVE  started' = started /\ (sent' = sent \/ Put(r))
  BY <1>3, <1>4 DEF OwnerStep, Publish, Launch, Unblock, OwnerSend
<1>5. ASSUME NEW r \in Runtimes, DriverStep(r) \/ ThreadsEnd(r) PROVE UNCHANGED <<started, sent>>
  BY <1>3, <1>5 DEF DriverStep, DriverRecv, ThreadsEnd
<1>6. ASSUME NEW r \in Runtimes, UserSend(r) PROVE started' = started /\ Put(r)
  BY <1>6 DEF UserSend
<1>7. CASE UNCHANGED vars
  BY <1>7 DEF vars
<1>8. QED
  BY <1>1, <1>2, <1>4, <1>5, <1>6, <1>7 DEF Next

LEMMA AloneBefore ==
  ASSUME TypeOK, [Next]_vars, NEW r \in Runtimes, ~Others(r)'
  PROVE  ~Others(r)
  BY NeverUndone DEF Others

\* The threads of a runtime nobody started or sent to take no step that matters.
LEMMA Elsewhere ==
  ASSUME TypeOK, Launching, Untouched, NEW q \in Runtimes,
         OwnerCalls(q) \/ OwnerStep(q) \/ DriverStep(q) \/ ThreadsEnd(q) \/ UserSend(q),
         ~started'[q], ~(sent'[q] > 0), ~started[q], ~(sent[q] > 0)
  PROVE  /\ UNCHANGED <<executor, flag, held, started>>
         /\ pc' = pc \/ pc' = [pc EXCEPT ![Owner(q)] = "send"]
<1>0. Owner(q) \in Threads /\ Driver(q) \in Threads /\ sent[q] \in Nat
  BY ThreadsDiffer DEF TypeOK
<1>1. /\ pc[Owner(q)] \in {"idle", "send"}
      /\ pc[Driver(q)] = "none"
  BY <1>0 DEF Untouched, Launching
<1>2. ~Run(q) /\ ~BlockOn(q)
  BY <1>0, <1>1 DEF Run, BlockOn, Launched, TypeOK
<1>3. ~Publish(q) /\ ~Launch(q) /\ ~Unblock(q) /\ ~DriverRecv(q)
  BY <1>1 DEF Publish, Launch, Unblock, DriverRecv, Goto
<1>4. ~Stop(Owner(q)) /\ ~Stop(Driver(q))
  BY <1>1 DEF Stop, StopLoad, StopFlag, StopStore, Goto
<1>5. ~OwnerSend(q) /\ ~UserSend(q)
  <2>1. ~Put(q)
    BY <1>0 DEF Put, TypeOK
  <2>2. QED
    BY <2>1 DEF OwnerSend, UserSend
<1>6. BeginShutdown(q) \/ BeginDrop(q) \/ ThreadsEnd(q)
  BY <1>2, <1>3, <1>4, <1>5 DEF OwnerCalls, OwnerStep, DriverStep
<1>7. QED
  BY <1>6 DEF BeginShutdown, BeginDrop, ThreadsEnd, Goto

\* The threads of a lone runtime, its owner and its driver, stop what they find.
LEMMA StopSettles ==
  ASSUME TypeOK, NEW r \in Runtimes, Settled(r),
         NEW th \in {Owner(r), Driver(r)}, Stop(th)
  PROVE  Settled(r)'
<1>0. Owner(r) \in Threads /\ Driver(r) \in Threads /\ Owner(r) # Driver(r)
  BY ThreadsDiffer
<1>1. CASE StopLoad(th)
  <2>1. /\ pc' = [pc EXCEPT ![th] = "flag"] /\ held' = [held EXCEPT ![th] = executor]
        /\ UNCHANGED <<executor, flag>>
    BY <1>1 DEF StopLoad, Goto
  <2>2. executor = r \/ (executor = Inert /\ flag[r])
    BY DEF Settled
  <2>3. \A t \in {Owner(r), Driver(r)} : OnTheWayOut(t, r)'
    BY <1>0, <2>1, <2>2 DEF Settled, OnTheWayOut, TypeOK
  <2>4. QED
    BY <2>1, <2>2, <2>3 DEF Settled
<1>2. CASE StopFlag(th)
  <2>1. /\ pc[th] = "flag" /\ pc' = [pc EXCEPT ![th] = "store"]
        /\ flag' = [q \in Runtimes |-> flag[q] \/ held[th] = q]
        /\ UNCHANGED <<executor, held>>
    BY <1>2 DEF StopFlag, Goto
  <2>2. flag'[r]
    BY <2>1 DEF Settled, OnTheWayOut
  <2>3. \A t \in {Owner(r), Driver(r)} : OnTheWayOut(t, r)'
    BY <1>0, <2>1, <2>2 DEF Settled, OnTheWayOut, TypeOK
  <2>4. QED
    BY <2>1, <2>2, <2>3 DEF Settled
<1>3. CASE StopStore(th)
  <2>1. /\ pc[th] = "store" /\ executor' = Inert /\ flag' = flag
        /\ pc' = [pc EXCEPT ![th] = Stopped(th)] /\ held' = [held EXCEPT ![th] = Inert]
    BY <1>3 DEF StopStore, Goto
  <2>2. flag'[r] /\ executor' = Inert
    BY <2>1 DEF Settled, OnTheWayOut
  <2>3. QED
    BY <2>2 DEF Settled, OnTheWayOut
<1>4. QED
  BY <1>1, <1>2, <1>3 DEF Stop

\* Steps that neither end a call nor touch EXECUTOR.
LEMMA SettledKept ==
  ASSUME NEW r \in Runtimes, Settled(r), UNCHANGED <<executor, flag, held>>,
         \A th \in {Owner(r), Driver(r)} :
           pc'[th] = pc[th] \/ pc'[th] \notin {"flag", "store", "exited", "dropped"}
  PROVE  Settled(r)'
  BY DEF Settled, OnTheWayOut

\* A step of another runtime, as long as the runtime is alone after it.
LEMMA OtherSettles ==
  ASSUME TypeOK, [Next]_vars, Launching, Left, NEW r \in Runtimes, ~Others(r)', Published(r)',
         NEW q \in Runtimes, q # r,
         OwnerCalls(q) \/ OwnerStep(q) \/ DriverStep(q) \/ ThreadsEnd(q) \/ UserSend(q)
  PROVE  Settled(r)'
<1>1. ~started[q] /\ ~(sent[q] > 0) /\ ~started'[q] /\ ~(sent'[q] > 0)
  BY AloneBefore DEF Others
<1>2. /\ UNCHANGED <<executor, flag, held, started>>
      /\ pc' = pc \/ pc' = [pc EXCEPT ![Owner(q)] = "send"]
  BY <1>1, Elsewhere DEF Left
<1>3. pc'[Owner(r)] = pc[Owner(r)] /\ pc'[Driver(r)] = pc[Driver(r)]
  BY <1>2, ThreadsDiffer DEF TypeOK
<1>4. Settled(r)
  BY <1>2, <1>3, AloneBefore DEF Left, Published
<1>5. QED
  BY <1>2, <1>3, <1>4, SettledKept

\* A step of the runtime itself.
LEMMA OwnSettles ==
  ASSUME TypeOK, [Next]_vars, Launching, Left, NEW r \in Runtimes, ~Others(r)', Published(r)',
         OwnerCalls(r) \/ OwnerStep(r) \/ DriverStep(r) \/ ThreadsEnd(r) \/ UserSend(r)
  PROVE  Settled(r)'
<1>0. Owner(r) \in Threads /\ Driver(r) \in Threads /\ Owner(r) # Driver(r)
  BY ThreadsDiffer
<1>1. Published(r) => Settled(r)
  BY AloneBefore DEF Left
<1>2. CASE Run(r)
  BY <1>0, <1>2 DEF Run, Goto, Published, TypeOK
\* Publish makes the runtime the published one, before its driver exists.
<1>3. CASE Publish(r)
  <2>1. pc'[Owner(r)] = "launch" /\ pc'[Driver(r)] = pc[Driver(r)] /\ executor' = r
    BY <1>0, <1>3 DEF Publish, Goto, TypeOK
  <2>2. pc[Driver(r)] = "none"
    BY <1>3 DEF Publish, Goto, Launching
  <2>3. QED
    BY <2>1, <2>2 DEF Settled, OnTheWayOut
<1>4. CASE Launch(r)
  <2>1. /\ pc[Owner(r)] = "launch" /\ pc'[Owner(r)] = "idle" /\ pc'[Driver(r)] = "run"
        /\ UNCHANGED <<executor, flag, held, started>>
    BY <1>0, <1>4 DEF Launch, TypeOK
  <2>2. Published(r)
    BY <2>1 DEF Launching, Published
  <2>3. QED
    BY <1>1, <2>1, <2>2, SettledKept
<1>5. CASE BlockOn(r) \/ BeginShutdown(r) \/ BeginDrop(r) \/ Unblock(r) \/ OwnerSend(r)
  <2>1. /\ UNCHANGED <<executor, flag, held, started>>
        /\ pc[Owner(r)] # "publish"
        /\ \E to \in {"block", "send", "idle", "load"} : pc' = [pc EXCEPT ![Owner(r)] = to]
    BY <1>5 DEF BlockOn, BeginShutdown, BeginDrop, Unblock, OwnerSend, Goto
  <2>2. Published(r)
    BY <2>1 DEF Published
  <2>3. /\ pc'[Owner(r)] \notin {"flag", "store", "exited", "dropped"}
        /\ pc'[Driver(r)] = pc[Driver(r)]
    BY <1>0, <2>1 DEF TypeOK
  <2>4. QED
    BY <1>1, <2>1, <2>2, <2>3, SettledKept
<1>6. CASE DriverRecv(r)
  <2>1. /\ UNCHANGED <<executor, flag, held, started>>
        /\ pc'[Owner(r)] = pc[Owner(r)] /\ pc'[Driver(r)] = "load"
    BY <1>0, <1>6 DEF DriverRecv, Goto, TypeOK
  <2>2. QED
    BY <1>1, <2>1, SettledKept DEF Published
<1>7. ASSUME NEW th \in {Owner(r), Driver(r)}, Stop(th) PROVE Settled(r)'
  <2>1. started' = started /\ pc[th] # "publish" /\ \A t \in Threads : t # th => pc'[t] = pc[t]
    BY <1>0, <1>7 DEF Stop, StopLoad, StopFlag, StopStore, Goto, TypeOK
  <2>2. Published(r)
    BY <1>0, <2>1 DEF Published
  <2>3. QED
    BY <1>1, <1>7, <2>2, StopSettles
<1>8. CASE ThreadsEnd(r) \/ UserSend(r)
  <2>1. UNCHANGED <<executor, flag, held, started, pc>>
    BY <1>8 DEF ThreadsEnd, UserSend
  <2>2. QED
    BY <1>1, <2>1, SettledKept DEF Published
<1>9. QED
  BY <1>2, <1>3, <1>4, <1>5, <1>6, <1>7, <1>8 DEF OwnerCalls, OwnerStep, DriverStep

\* A step of a runtime moves its own two threads at most.
LEMMA OwnThreads ==
  ASSUME TypeOK, NEW p \in Runtimes,
         OwnerCalls(p) \/ OwnerStep(p) \/ DriverStep(p) \/ ThreadsEnd(p) \/ UserSend(p),
         NEW th \in Threads, th \notin {Owner(p), Driver(p)}
  PROVE  pc'[th] = pc[th]
<1> USE DEF TypeOK, Goto
<1>1. CASE OwnerCalls(p)
  BY <1>1 DEF OwnerCalls, Run, BlockOn, BeginShutdown, BeginDrop
<1>2. ASSUME NEW t \in {Owner(p), Driver(p)}, Stop(t) PROVE pc'[th] = pc[th]
  BY <1>2 DEF Stop, StopLoad, StopFlag, StopStore
<1>3. CASE OwnerStep(p)
  BY <1>2, <1>3 DEF OwnerStep, Publish, Launch, Unblock, OwnerSend
<1>4. CASE DriverStep(p) \/ ThreadsEnd(p) \/ UserSend(p)
  BY <1>2, <1>4 DEF DriverStep, DriverRecv, ThreadsEnd, UserSend
<1>5. QED
  BY <1>1, <1>3, <1>4

LEMMA NextLeft == TypeOK /\ Launching /\ Left /\ [Next]_vars => Left'
<1> SUFFICES ASSUME TypeOK, Launching, Left, [Next]_vars PROVE Left'
  OBVIOUS
<1>1. ASSUME UNCHANGED vars PROVE Left'
  BY <1>1 DEF vars, Left, Untouched, Others, Published, Settled, OnTheWayOut
<1>2. ASSUME NEW p \in Runtimes,
             OwnerCalls(p) \/ OwnerStep(p) \/ DriverStep(p) \/ ThreadsEnd(p) \/ UserSend(p)
      PROVE  Left'
  <2>1. Untouched'
    <3> SUFFICES ASSUME NEW q \in Runtimes, ~started'[q], sent'[q] = 0
                 PROVE  pc'[Owner(q)] \in {"idle", "send"}
      BY DEF Untouched
    <3>1. ~started[q] /\ ~(sent[q] > 0) /\ sent[q] \in Nat
      BY NeverUndone DEF TypeOK
    <3>2. pc[Owner(q)] \in {"idle", "send"}
      BY <3>1 DEF Left, Untouched
    <3>3. CASE p = q
      <4>1. pc' = pc \/ pc' = [pc EXCEPT ![Owner(q)] = "send"]
        BY <1>2, <3>1, <3>3, Elsewhere DEF Left
      <4>2. QED
        BY <3>2, <4>1, ThreadsDiffer DEF TypeOK
    <3>4. CASE p # q
      BY <1>2, <3>2, <3>4, OwnThreads, ThreadsDiffer
    <3>5. QED
      BY <3>3, <3>4
  <2>2. ASSUME NEW r \in Runtimes, ~Others(r)', Published(r)' PROVE Settled(r)'
    <3>1. CASE p = r
      BY <1>2, <2>2, <3>1, OwnSettles
    <3>2. CASE p # r
      BY <1>2, <2>2, <3>2, OtherSettles
    <3>3. QED
      BY <3>1, <3>2
  <2>3. QED
    BY <2>1, <2>2 DEF Left
<1>3. QED
  BY <1>1, <1>2 DEF Next

\* Whatever the order in which the driver and the owner of a lone runtime load, stop
\* and replace the coordinator, once either has ended for good the executors were
\* told to end and EXECUTOR is inert (runtime.rs, shutdown, Drop, the driver).
THEOREM LeavesNothing == Spec => []NothingLeftBehind
<1>1. Inv /\ Left => NothingLeftBehind
  <2> SUFFICES ASSUME Inv, Left, NEW r \in Runtimes, ~Others(r),
                      pc[Driver(r)] = "exited" \/ (pc[Owner(r)] = "dropped" /\ started[r])
               PROVE  flag[r] /\ executor = Inert
    BY DEF NothingLeftBehind
  <2>1. Published(r)
    BY DEF Inv, Launching, Published
  <2>2. QED
    BY <2>1 DEF Left, Settled, OnTheWayOut
<1>2. Inv => Launching
  BY DEF Inv
<1>3. Spec => [](TypeOK /\ Inv /\ Left)
  BY <1>2, InitTypes, NextTypes, InitInv, NextInv, InitLeft, NextLeft, PTL DEF Spec
<1>4. QED
  BY <1>1, <1>3, PTL
=============================================================================
