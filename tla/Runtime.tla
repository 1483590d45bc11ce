-------------------------------- MODULE Runtime --------------------------------
(***************************************************************************)
(* The lifecycle of imputio's runtimes (imputio/src/runtime.rs) around the *)
(* one global coordinator, EXECUTOR (imputio/src/lib.rs).  run starts the  *)
(* executor threads, publishes their coordinator and starts the driver; a  *)
(* notice, a call of shutdown or the drop of the runtime stops whatever    *)
(* coordinator is published at that moment and publishes an inert one.     *)
(* What the executors do meanwhile is the subject of Scheduler.            *)
(***************************************************************************)
EXTENDS Integers

CONSTANTS
  Runtimes,    (* the ImputioRuntime objects of the process, one owner each *)
  Inert,       (* the coordinator of ExecHandleCoordinator::new             *)
  Capacity,    (* of the notice channel of a runtime: 1, or that of the     *)
               (* channel the user passed                                   *)
  MaxNotices   (* bound: beyond it only a drop sends another notice         *)

ASSUME InertAssumption == Inert \notin Runtimes
ASSUME CapacityAssumption == Capacity \in Nat \ {0} /\ MaxNotices \in Nat

VARIABLES
  executor,  (* EXECUTOR: the runtime of the published coordinator, or Inert*)
  started,   (* started[r]: ImputioRuntime.state                            *)
  up,        (* up[r]: are the executor and poller threads of r running?    *)
  flag,      (* flag[r]: the shutdown flag of the coordinator of r          *)
  notices,   (* notices[r]: notices in the channel of r                     *)
  sent,      (* sent[r]: notices ever put into it                           *)
  dropping,  (* dropping[r]: is the owner in Drop::drop?                    *)
  pc,        (* pc[th]: where an owner or a driver is                       *)
  held       (* held[th]: the coordinator the thread loaded from EXECUTOR   *)

vars == <<executor, started, up, flag, notices, sent, dropping, pc, held>>

Owner(r)  == <<"owner", r>>
Driver(r) == <<"driver", r>>
Owners    == {Owner(r) : r \in Runtimes}
Drivers   == {Driver(r) : r \in Runtimes}
Threads   == Owners \cup Drivers

Stopping == {"load", "flag", "store"}
OwnerPc  == {"idle", "publish", "launch", "block", "send", "dropped"} \cup Stopping
DriverPc == {"none", "run", "exited"} \cup Stopping

TypeOK ==
  /\ executor \in Runtimes \cup {Inert}
  /\ started \in [Runtimes -> BOOLEAN]
  /\ up \in [Runtimes -> BOOLEAN]
  /\ flag \in [Runtimes -> BOOLEAN]
  /\ notices \in [Runtimes -> 0 .. Capacity]
  /\ sent \in [Runtimes -> Nat]
  /\ dropping \in [Runtimes -> BOOLEAN]
  /\ pc \in [Threads -> OwnerPc \cup DriverPc]
  /\ held \in [Threads -> Runtimes \cup {Inert}]

Init ==
  /\ executor = Inert
  /\ started = [r \in Runtimes |-> FALSE]
  /\ up = [r \in Runtimes |-> FALSE]
  /\ flag = [r \in Runtimes |-> FALSE]
  /\ notices = [r \in Runtimes |-> 0]
  /\ sent = [r \in Runtimes |-> 0]
  /\ dropping = [r \in Runtimes |-> FALSE]
  /\ pc = [th \in Threads |-> IF th \in Owners THEN "idle" ELSE "none"]
  /\ held = [th \in Threads |-> Inert]

Goto(th, from, to) == pc[th] = from /\ pc' = [pc EXCEPT ![th] = to]

-----------------------------------------------------------------------------
(* run: the owner starts the threads, publishes, starts the driver.  A     *)
(* second call finds the state set and only returns the sender.            *)

Run(r) ==
  /\ Goto(Owner(r), "idle", "publish")
  /\ ~started[r]
  /\ started' = [started EXCEPT ![r] = TRUE]
  /\ up' = [up EXCEPT ![r] = TRUE]
  /\ UNCHANGED <<executor, flag, notices, sent, dropping, held>>

Publish(r) ==
  /\ Goto(Owner(r), "publish", "launch")
  /\ executor' = r
  /\ UNCHANGED <<started, up, flag, notices, sent, dropping, held>>

Launch(r) ==
  /\ pc[Owner(r)] = "launch"
  /\ pc' = [pc EXCEPT ![Owner(r)] = "idle", ![Driver(r)] = "run"]
  /\ UNCHANGED <<executor, started, up, flag, notices, sent, dropping, held>>

Launched(r) == pc[Driver(r)] # "none"

\* block_on polls its future on the owner's thread.
BlockOn(r) ==
  /\ Launched(r)
  /\ Goto(Owner(r), "idle", "block")
  /\ UNCHANGED <<executor, started, up, flag, notices, sent, dropping, held>>

\* The future ends.
Unblock(r) ==
  /\ Goto(Owner(r), "block", "idle")
  /\ UNCHANGED <<executor, started, up, flag, notices, sent, dropping, held>>

-----------------------------------------------------------------------------
(* Notices.  The runtime holds both ends of its channel until it is        *)
(* dropped, the driver a receiver until it has exited; a send to a full    *)
(* channel blocks.  Nobody but the driver receives: a user who passed the  *)
(* channel and kept a receiver of it would take notices away.              *)

\* Mutant: the send replaces the notice of a full channel.
PutAnyway(r) ==
  /\ notices' = [notices EXCEPT ![r] = @ + 1]
  /\ sent' = [sent EXCEPT ![r] = @ + 1]

Put(r) ==
  /\ notices[r] < Capacity
  /\ notices' = [notices EXCEPT ![r] = @ + 1]
  /\ sent' = [sent EXCEPT ![r] = @ + 1]

Receivers(r) == pc[Owner(r)] # "dropped" \/ pc[Driver(r)] \notin {"none", "exited"}

\* A user sends through the sender run returned.
UserSend(r) ==
  /\ Launched(r)
  /\ sent[r] < MaxNotices
  /\ Receivers(r)
  /\ Put(r)
  /\ UNCHANGED <<executor, started, up, flag, dropping, pc, held>>

BeginShutdown(r) ==
  /\ Goto(Owner(r), "idle", "send")
  /\ sent[r] < MaxNotices
  /\ UNCHANGED <<executor, started, up, flag, notices, sent, dropping, held>>

BeginDrop(r) ==
  /\ Goto(Owner(r), "idle", "send")
  /\ dropping' = [dropping EXCEPT ![r] = TRUE]
  /\ UNCHANGED <<executor, started, up, flag, notices, sent, held>>

\* Mutant: a drop leaves the rest to the driver.
OwnerSendOnly(r) ==
  /\ Goto(Owner(r), "send", IF dropping[r] THEN "dropped" ELSE "load")
  /\ Put(r)
  /\ UNCHANGED <<executor, started, up, flag, dropping, held>>

OwnerSend(r) ==
  /\ Goto(Owner(r), "send", "load")
  /\ Put(r)
  /\ UNCHANGED <<executor, started, up, flag, dropping, held>>

-----------------------------------------------------------------------------
(* The driver's loop: it polls the coordinator it finds in EXECUTOR, which  *)
(* Scheduler models, and looks for a notice.                               *)

\* Mutant: the driver gives up when it finds the inert coordinator.
DriverRecvOrExit(r) ==
  \/ /\ executor = Inert
     /\ Goto(Driver(r), "run", "exited")
     /\ UNCHANGED <<executor, started, up, flag, notices, sent, dropping, held>>
  \/ /\ notices[r] > 0
     /\ Goto(Driver(r), "run", "load")
     /\ notices' = [notices EXCEPT ![r] = @ - 1]
     /\ UNCHANGED <<executor, started, up, flag, sent, dropping, held>>

DriverRecv(r) ==
  /\ notices[r] > 0
  /\ Goto(Driver(r), "run", "load")
  /\ notices' = [notices EXCEPT ![r] = @ - 1]
  /\ UNCHANGED <<executor, started, up, flag, sent, dropping, held>>

-----------------------------------------------------------------------------
(* What shutdown and the end of the driver have in common: load EXECUTOR,  *)
(* stop the coordinator found there, publish an inert one.                 *)

StopLoad(th) ==
  /\ Goto(th, "load", "flag")
  /\ held' = [held EXCEPT ![th] = executor]
  /\ UNCHANGED <<executor, started, up, flag, notices, sent, dropping>>

\* Mutant: the flag is not raised, the coordinator is only replaced.
StopFlagNot(th) ==
  /\ Goto(th, "flag", "store")
  /\ UNCHANGED <<executor, started, up, flag, notices, sent, dropping, held>>

StopFlag(th) ==
  /\ Goto(th, "flag", "store")
  /\ flag' = [r \in Runtimes |-> flag[r] \/ held[th] = r]
  /\ UNCHANGED <<executor, started, up, notices, sent, dropping, held>>

Stopped(th) == CASE th \in Drivers -> "exited"
                 [] \E r \in Runtimes : th = Owner(r) /\ dropping[r] -> "dropped"
                 [] OTHER -> "idle"

\* Mutant: the inert coordinator is published only by an owner.
StopStoreOwner(th) ==
  /\ Goto(th, "store", Stopped(th))
  /\ executor' = IF th \in Owners THEN Inert ELSE executor
  /\ held' = [held EXCEPT ![th] = Inert]
  /\ UNCHANGED <<started, up, flag, notices, sent, dropping>>

StopStore(th) ==
  /\ Goto(th, "store", Stopped(th))
  /\ executor' = Inert
  /\ held' = [held EXCEPT ![th] = Inert]
  /\ UNCHANGED <<started, up, flag, notices, sent, dropping>>

Stop(th) == StopLoad(th) \/ StopFlag(th) \/ StopStore(th)

\* The executors and pollers of r see their flag and end: Scheduler!ShutdownStops.
ThreadsEnd(r) ==
  /\ up[r] /\ flag[r]
  /\ up' = [up EXCEPT ![r] = FALSE]
  /\ UNCHANGED <<executor, started, flag, notices, sent, dropping, pc, held>>

OwnerCalls(r) == Run(r) \/ BlockOn(r) \/ BeginShutdown(r) \/ BeginDrop(r)
OwnerStep(r)  == Publish(r) \/ Launch(r) \/ Unblock(r) \/ OwnerSend(r) \/ Stop(Owner(r))
DriverStep(r) == DriverRecv(r) \/ Stop(Driver(r))

Next == \E r \in Runtimes :
  OwnerCalls(r) \/ OwnerStep(r) \/ DriverStep(r) \/ ThreadsEnd(r)
    \/ UserSend(r)

\* The operating system runs every thread; owners and users need not call.
Fairness == \A r \in Runtimes :
  WF_vars(OwnerStep(r)) /\ WF_vars(DriverStep(r)) /\ WF_vars(ThreadsEnd(r))

Spec == Init /\ [][Next]_vars
FairSpec == Spec /\ Fairness

-----------------------------------------------------------------------------
(* Correctness.                                                            *)

\* Nobody finds a coordinator in EXECUTOR that was told to stop, except while the
\* thread that told it so is about to replace it: a task is not handed to
\* executors that end, however runtimes start and stop side by side.
StoppedIsReplaced ==
  \A r \in Runtimes : executor = r /\ flag[r] =>
    \E th \in Threads : pc[th] = "store" /\ held[th] = r

\* Once a runtime is dropped, nothing reaches its executors any more.
DroppedUnreachable ==
  \A r \in Runtimes : pc[Owner(r)] = "dropped" => executor # r

\* Another runtime was started, or told to stop, by its owner or a user.
Others(r) == \E q \in Runtimes \ {r} : started[q] \/ sent[q] > 0

\* A driver that ends and an owner that has dropped its runtime leave nothing behind
\* that nobody will stop: whichever of them found the coordinator in EXECUTOR, in
\* whatever order they loaded, stopped and replaced it, the executors of the runtime
\* were told to end and EXECUTOR is inert, as long as the runtime is the only one.
NothingLeftBehind ==
  \A r \in Runtimes :
    pc[Driver(r)] = "exited" \/ (pc[Owner(r)] = "dropped" /\ started[r]) =>
      (flag[r] /\ executor = Inert) \/ Others(r)

\* Where nobody but the driver receives from the channel, as from the one that run
\* makes, a notice stays in it until the driver takes it, and a driver takes one
\* and ends: a running driver that was sent a notice has one, and a shutdown or drop
\* that finds the channel full waits for a driver that runs, unless more was sent
\* than the channel holds and a driver takes.
NoticesKept ==
  \A r \in Runtimes :
    /\ pc[Driver(r)] = "run" /\ sent[r] > 0 => notices[r] > 0
    /\ pc[Owner(r)] = "send" /\ notices[r] = Capacity =>
         \/ pc[Driver(r)] = "run"
         \/ sent[r] >= Capacity + (IF Launched(r) THEN 1 ELSE 0)

\* One notice, from whoever and however many follow, ends everything a runtime
\* started: its executors, its pollers and its driver, and EXECUTOR is inert
\* again, as long as the runtime is the only one of its process and its driver the
\* only one who receives from its channel.
Released ==
  \A r \in Runtimes : Launched(r) /\ sent[r] > 0 ~>
    \/ ~up[r] /\ pc[Driver(r)] = "exited" /\ executor = Inert
    \/ Others(r)

\* shutdown and drop return, as long as the notices before them fit: what the
\* driver takes, once, and what the channel holds.
ShutdownReturns ==
  \A r \in Runtimes : pc[Owner(r)] = "send" ~>
    \/ pc[Owner(r)] # "send"
    \/ sent[r] >= Capacity + (IF Launched(r) THEN 1 ELSE 0)

\* What the comment of shutdown says (runtime.rs): the executor threads of the
\* runtime are gone some time after.
ShutdownEndsThreads ==
  \A r \in Runtimes : dropping[r] ~> ~up[r]
=============================================================================
