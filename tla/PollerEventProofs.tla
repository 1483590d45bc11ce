-------------------------- MODULE PollerEventProofs --------------------------
(***************************************************************************)
(* No event of a prepared client is lost between the kernel and its        *)
(* notifier, for any sources, notifiers, capacities and number of          *)
(* descriptors.                                                            *)
(***************************************************************************)
EXTENDS PollerProofs

(* A registration is edge-triggered: an edge is reported once.  So the      *)
(* poller must never forget one it took, and whatever is at a source when   *)
(* it is registered must count as an edge.  For that, every source that     *)
(* was asked for has its operation in the channel or its registration in    *)
(* the kernel, and a number that is registered is known, so that the        *)
(* kernel never refuses the registration of a number that is not.           *)

OpSent(s)     == \E o \in Queued : o # Poll /\ files[o.fd] = s
Registered(s) == \E r \in epoll : r.src = s
Waits(s) ==
  waiting[s] /\ Held(s) # {} /\ asked[s] > 0 /\ Notify[s] \notin Deaf \cup {None}

Quiet     == pc # "deliver" => events = {}
Listening == \A n \in Notifiers \ Deaf : listening[n]
KnownOpen == \A r \in epoll : r.fd \in Known /\ IsOpen(r.src)
Reached   == Up /\ ~failed => \A s \in Sources : asked[s] > 0 => OpSent(s) \/ Registered(s)
Watched   == Up /\ ~failed => \A s \in Sources : Waits(s) => OnItsWay(s)

EventInv == Quiet /\ Listening /\ KnownOpen /\ Reached /\ Watched

\* What is received comes off the front of the channel; the rest stays.
LEMMA QueuedRest ==
  ASSUME TypeOK, NEW o, Received(o)
  PROVE  o \in Queued /\ Queued' \subseteq Queued /\ \A q \in Queued : q # o => q \in Queued'
<1>1. chan \in Seq(Operations \cup {Poll}) /\ chan # <<>> /\ o = chan[1] /\ chan' = Tail(chan)
  BY DEF Received, TypeOK
<1> HIDE DEF Poll
<1>2. /\ Len(chan) \in Nat \ {0} /\ DOMAIN chan = 1 .. Len(chan)
      /\ DOMAIN chan' = 1 .. (Len(chan) - 1)
      /\ \A i \in 1 .. (Len(chan) - 1) : chan'[i] = chan[i + 1]
  BY <1>1
<1>3. o \in Queued /\ Queued' \subseteq Queued
  BY <1>1, <1>2 DEF Queued
<1>4. ASSUME NEW q \in Queued, q # o PROVE q \in Queued'
  <2>1. PICK i \in DOMAIN chan : q = chan[i]
    BY DEF Queued
  <2>2. i - 1 \in DOMAIN chan' /\ chan'[i - 1] = q
    BY <1>1, <1>2, <1>4, <2>1
  <2> QED BY <2>2 DEF Queued
<1> QED BY <1>3, <1>4

\* What is sent is added to what the channel holds.
LEMMA QueuedMore ==
  ASSUME TypeOK, NEW o, o \in Operations \cup {Poll}, chan' = Append(chan, o)
  PROVE  Queued' = Queued \cup {o}
<1>1. chan \in Seq(Operations \cup {Poll})
  BY DEF TypeOK
<1> HIDE DEF Poll
<1>2. /\ DOMAIN chan' = DOMAIN chan \cup {Len(chan) + 1}
      /\ \A i \in DOMAIN chan : chan'[i] = chan[i]
      /\ chan'[Len(chan) + 1] = o
  BY <1>1
<1> QED BY <1>2 DEF Queued

\* An operation in the channel is an operation on an open number of its own.
LEMMA QueuedOp ==
  ASSUME TypeOK, QueuedFresh, Up, NEW q \in Queued, q # Poll
  PROVE  /\ q \in Operations /\ q.fd \in Fds /\ files[q.fd] \in Sources /\ q.fd \notin Known
         /\ \A p \in Queued : p # Poll /\ p.fd = q.fd => p = q
<1>1. PICK i \in Ops : q = chan[i]
  BY DEF Queued, Ops
<1>2. \A p \in Queued : p # Poll => \E j \in Ops : p = chan[j]
  BY DEF Queued, Ops
<1> QED BY <1>1, <1>2, OpTypes DEF QueuedFresh

-----------------------------------------------------------------------------
(* Steps that take nothing away.                                           *)

\* Neither a source nor what is known of it changes, and nothing is forgotten.
LEMMA EventsKept ==
  ASSUME EventInv, UNCHANGED <<files, epoll, event_src_ids, asked, failed, waiting, listening>>,
         mine' \subseteq mine, Up' => Up, Quiet',
         \A q \in Queued : q # Poll => q \in Queued',
         fresh \cup events \subseteq fresh' \cup events',
         \A n \in Notifiers : \A i \in DOMAIN inbox[n] :
           \E j \in DOMAIN inbox'[n] : inbox'[n][j] = inbox[n][i]
  PROVE  EventInv'
<1>1. Listening' /\ KnownOpen'
  BY DEF EventInv, Listening, KnownOpen, Known, IsOpen
<1>2. \A s \in Sources : OpSent(s) => OpSent(s)'
  BY DEF OpSent
<1>3. Reached'
  BY <1>2 DEF EventInv, Reached, Registered
<1>4. ASSUME NEW s \in Sources, Waits(s)', Up', ~failed' PROVE OnItsWay(s)'
  <2>1. Waits(s) /\ Notify[s] \in Notifiers
    BY <1>4, NotifiersAssumption DEF Waits, Held
  <2>2. OnItsWay(s)
    BY <1>4, <2>1 DEF EventInv, Watched
  <2>3. CASE \E o \in Queued : o # Poll /\ files[o.fd] = s
    BY <2>3 DEF OnItsWay
  <2>4. CASE \E r \in fresh \cup events : r.src = s
    BY <2>4 DEF OnItsWay
  <2>5. CASE \E i \in DOMAIN inbox[Notify[s]] : inbox[Notify[s]][i] = s
    BY <2>1, <2>5 DEF OnItsWay
  <2> QED BY <2>2, <2>3, <2>4, <2>5 DEF OnItsWay
<1> QED BY <1>1, <1>3, <1>4 DEF EventInv, Watched

\* The poller ends: nothing is promised any more.
LEMMA EndsEvents ==
  ASSUME EventInv, NEW label \in {"exited", "panicked"}, NEW S, Ends(label, S)
  PROVE  EventInv'
BY DEF EventInv, Ends, Quiet, Listening, KnownOpen, Reached, Watched, Up

-----------------------------------------------------------------------------
(* The operation of a source is received, and the source registered.       *)

LEMMA RegisteredEvents ==
  ASSUME TypeOK, Prepared, EventInv, NEW o \in Operations, Received(o), pc' = "check",
         UNCHANGED <<asked, failed, waiting, listening, events, inbox, mine>>,
         Known' = Known \cup {o.fd},
         NEW table, table[o.fd] = files[o.fd], NEW after, Register(table, o.fd, Slot(o), after),
         \E fd \in Fds : after[fd] = files[o.fd],
         \A fd \in Fds : fd # o.fd /\ files[fd] # None => after[fd] = files[fd],
         o.fd \in mine => after[o.fd] = files[o.fd]
  PROVE  EventInv'
<1>f. QueuedFresh /\ AskedOnce /\ Up /\ o.fd \in Fds /\ fresh \subseteq epoll
  BY DEF Prepared, Received, Up, Operations, TypeOK
<1> DEFINE s0  == files[o.fd]
           new == [fd |-> o.fd, src |-> s0, id |-> Slot(o)]
<1>1. s0 \in Sources /\ o.fd \notin Known /\ s0 # None
  BY <1>f, HeadFresh, NoneAssumption
<1>2. Registrable(table, o.fd, Slot(o)) = {new}
  BY <1>1 DEF Registrable, EventInv, KnownOpen
<1>3. \A r \in epoll \cup {new} : \E fd \in Fds : after[fd] = r.src
  <2> SUFFICES ASSUME NEW r \in epoll PROVE \E fd \in Fds : after[fd] = r.src
    OBVIOUS
  <2>1. PICK fd \in Fds : files[fd] = r.src
    BY DEF EventInv, KnownOpen, IsOpen
  <2>2. r.src # None
    BY NoneAssumption DEF TypeOK, Registrations
  <2> QED BY <2>1, <2>2
<1>4. /\ files' = after
      /\ epoll' = epoll \cup {new}
      /\ fresh' = fresh \cup {r \in {new} : waiting[r.src]}
  BY <1>2, <1>3, <1>f DEF Register, Alive
<1>5. /\ \E r \in epoll' : r.src = s0
      /\ waiting[s0] => \E r \in fresh' : r.src = s0
      /\ epoll \subseteq epoll' /\ fresh \subseteq fresh'
  <2>1. new.src = s0
    OBVIOUS
  <2> QED BY <1>4, <2>1
<1>6. Quiet' /\ Listening'
  BY <1>f DEF EventInv, Quiet, Listening, Received
<1>7. KnownOpen'
  BY <1>3, <1>4 DEF EventInv, KnownOpen, IsOpen
<1> HIDE DEF new, s0
<1>8. \A s \in Sources : OpSent(s) => OpSent(s)' \/ s = s0
  <2> SUFFICES ASSUME NEW s \in Sources, OpSent(s), s # s0 PROVE OpSent(s)'
    OBVIOUS
  <2>1. PICK q \in Queued : q # Poll /\ files[q.fd] = s
    BY DEF OpSent
  <2>2. q.fd \in Fds /\ q.fd # o.fd /\ files[q.fd] # None /\ q \in Queued'
    BY <1>f, <2>1, QueuedOp, QueuedRest, NoneAssumption DEF s0
  <2> QED BY <1>4, <2>1, <2>2 DEF OpSent
<1>9. Reached'
  <2>1. \A s \in Sources : Registered(s) \/ s = s0 => Registered(s)'
    BY <1>5 DEF Registered
  <2> QED BY <1>f, <1>8, <2>1 DEF EventInv, Reached
<1>10. ASSUME NEW s \in Sources, Waits(s)', ~failed PROVE OnItsWay(s)'
  <2>1. PICK fd \in mine : files'[fd] = s
    BY <1>10 DEF Waits, Held
  <2>2. fd \in Fds /\ files[fd] \in Sources
    BY <1>f DEF AskedOnce, TypeOK
  <2>3. files[fd] = s
    BY <1>4, <2>1, <2>2, NoneAssumption
  <2>4. Waits(s)
    BY <1>10, <2>3 DEF Waits, Held
  <2>5. OnItsWay(s)
    BY <1>f, <1>10, <2>4 DEF EventInv, Watched
  <2>6. CASE s = s0
    BY <1>5, <2>4, <2>6 DEF OnItsWay, Waits
  <2>7. CASE s # s0 /\ OpSent(s)
    BY <1>8, <2>7 DEF OnItsWay, OpSent
  <2>8. CASE ~OpSent(s)
    BY <1>5, <2>5, <2>8 DEF OnItsWay, OpSent
  <2> QED BY <2>6, <2>7, <2>8
<1>11. Watched'
  BY <1>10 DEF Watched
<1> QED BY <1>6, <1>7, <1>9, <1>11 DEF EventInv

LEMMA PollerEvents ==
  ASSUME TypeOK, Accounted, Prepared, EventInv, PollerStep
  PROVE  EventInv'
<1>f. /\ QueuedFresh /\ AskedOnce /\ RightToken
      /\ files \in Files /\ event_src_ids \in [Fds -> Entries]
      /\ tokens \in Seq(Operations)
  BY DEF Prepared, TypeOK, Files
<1>1. ASSUME NEW o, RecvFdAdd(o) PROVE EventInv'
  <2>1. o \in Operations /\ o.fd \in Fds /\ Received(o) /\ o.op = "FdAdd"
    BY <1>1, ReceivedTypes DEF RecvFdAdd, Handles, Operations
  <2>2. o.fd \notin Known
    BY <1>f, <2>1, HeadFresh
  <2>3. Without(files, Overwritten(o)) = files
    BY <1>f, <2>2 DEF Overwritten, Without, Files
  <2>4. Register(files, o.fd, Slot(o), files)
    BY <1>1, <2>3 DEF RecvFdAdd
  <2>5. /\ UNCHANGED <<asked, failed, waiting, listening, events, inbox, mine>>
        /\ pc' = "check"
    BY <1>1 DEF RecvFdAdd, Handles, pushUnchanged, clientVars
  <2>6. Known' = Known \cup {o.fd}
    <3>1. event_src_ids' = [event_src_ids EXCEPT ![o.fd] = [id |-> Len(tokens) + 1, notify |-> None]]
      BY <1>1, <2>2 DEF RecvFdAdd, Store, Slot, NextId
    <3>2. Len(tokens) + 1 # 0
      BY <1>f
    <3> QED BY <1>f, <2>1, <3>1, <3>2 DEF Known
  <2> QED BY <2>1, <2>4, <2>5, <2>6, RegisteredEvents
<1>2. ASSUME NEW o, NEW clone \in Fds, RecvTcpAdd(o, clone) PROVE EventInv'
  <2>1. o \in Operations /\ o.fd \in Fds /\ Received(o) /\ o.op = "TcpAdd"
    BY <1>2, ReceivedTypes DEF RecvTcpAdd, Handles, Operations
  <2>2. o.fd \notin Known /\ files[o.fd] \in Sources
    BY <1>f, <2>1, HeadFresh
  <2>3. files[clone] = None
    BY <1>2 DEF RecvTcpAdd, Lowest, Free
  <2> DEFINE kept == Without([files EXCEPT ![clone] = files[o.fd]], Overwritten(o))
             after == Without(kept, {o.fd})
  <2>4. /\ kept[o.fd] = files[o.fd]
        /\ after[clone] = files[o.fd]
        /\ \A fd \in Fds : fd # o.fd /\ files[fd] # None => after[fd] = files[fd]
    BY <1>f, <2>1, <2>2, <2>3, NoneAssumption DEF Overwritten, Without, Files
  <2>5. Register(kept, o.fd, Slot(o), after)
    BY <1>2 DEF RecvTcpAdd
  <2>6. /\ UNCHANGED <<asked, failed, waiting, listening, events, inbox, mine>>
        /\ pc' = "check"
    BY <1>2 DEF RecvTcpAdd, Handles, pushUnchanged, clientVars
  <2>7. Known' = Known \cup {o.fd}
    <3>1. event_src_ids' = [event_src_ids EXCEPT ![o.fd] = [id |-> Len(tokens) + 1, notify |-> o.notify]]
      BY <1>2, <2>2 DEF RecvTcpAdd, Store, Slot, NextId
    <3>2. Len(tokens) + 1 # 0
      BY <1>f
    <3> QED BY <1>f, <2>1, <3>1, <3>2 DEF Known
  <2>8. o.fd \notin mine
    BY <2>1, ReceivedTransit, AccountedParts
  <2> HIDE DEF kept, after
  <2> QED BY <2>1, <2>4, <2>5, <2>6, <2>7, <2>8, RegisteredEvents
<1>3. ASSUME NEW o, RecvTcpFails(o) PROVE EventInv'
  <2>1. o \in Operations /\ o.fd \in Fds /\ Received(o)
    BY <1>3, ReceivedTypes DEF RecvTcpFails, Handles, Operations
  <2>2. /\ failed' /\ pc' = "check" /\ pc = "recv" /\ UNCHANGED <<events, listening>>
        /\ \A r \in epoll' : r \in epoll /\ \E fd \in Fds : files'[fd] = r.src
    BY <1>3 DEF RecvTcpFails, Handles, Received, Close, Alive
  <2>3. Known \subseteq Known'
    BY <1>3, <1>f DEF RecvTcpFails, Known
  <2> QED BY <2>2, <2>3 DEF EventInv, Quiet, Listening, KnownOpen, Reached, Watched, IsOpen
<1>4. ASSUME NEW o, RecvModify(o) PROVE FALSE
  BY <1>4, <1>f, ReceivedTypes, HeadFresh DEF RecvModify, Handles
<1>5. ASSUME NEW o, RecvPanics(o) PROVE FALSE
  BY <1>5, <1>f, ReceivedTypes, HeadFresh DEF RecvPanics, Vacant
<1>6. ASSUME NEW o, RecvPoll(o) PROVE EventInv'
  <2>1. /\ UNCHANGED <<files, epoll, tableVars, asked, mine, failed, waiting, listening, inbox>>
        /\ pc = "recv" /\ pc' = "deliver" /\ Received(o) /\ o.op = "Poll"
        /\ events' = {r \in fresh : waiting[r.src]}
    BY <1>6 DEF RecvPoll, Received, clientVars
  <2>2. events = {} /\ Up
    BY <2>1 DEF EventInv, Quiet, Up
  <2>3. \A q \in Queued : q # Poll => q \in Queued'
    <3>1. \A q \in Queued : q # Poll => q \in Operations /\ q.op # "Poll"
      BY <1>f, <2>2, QueuedOp, OperationTypes DEF Operations, Kinds
    <3> QED BY <2>1, <3>1, QueuedRest
  <2>4. Quiet' /\ Listening' /\ KnownOpen'
    BY <2>1 DEF EventInv, Quiet, Listening, KnownOpen, Known, IsOpen, tableVars
  <2>5. Reached'
    BY <2>1, <2>2, <2>3 DEF EventInv, Reached, OpSent, Registered
  <2>6. ASSUME NEW s \in Sources, Waits(s)', ~failed' PROVE OnItsWay(s)'
    <3>1. Waits(s) /\ OnItsWay(s) /\ waiting[s]
      BY <2>1, <2>2, <2>6 DEF Waits, Held, EventInv, Watched
    <3>2. CASE OpSent(s)
      BY <2>1, <2>3, <3>2 DEF OpSent, OnItsWay
    <3>3. CASE ~OpSent(s)
      BY <2>1, <2>2, <3>1, <3>3 DEF OpSent, OnItsWay
    <3> QED BY <3>2, <3>3
  <2> QED BY <2>4, <2>5, <2>6 DEF EventInv, Watched
<1>7. ASSUME NEW r \in events, Deliver(r) PROVE EventInv'
  <2> DEFINE n == tokens[r.id].notify
  <2>1. /\ n = Notify[r.src] /\ inbox \in [Notifiers -> Seq(Sources)] /\ r.src \in Sources
        /\ n \in Notifiers \cup {None}
    BY <1>f, NotifiersAssumption DEF RightToken, TypeOK, Registrations
  <2>2. /\ UNCHANGED <<manner, failed, mine, asked, files, epoll, fresh, tableVars, waiting, chan,
                       listening, pc>>
        /\ events' = events \ {r} /\ pc = "deliver"
    BY <1>7 DEF Deliver, clientVars, kernelVars
  <2>3. IF n # None /\ listening[n] THEN inbox' = [inbox EXCEPT ![n] = Append(@, r.src)]
                                    ELSE UNCHANGED inbox
    BY <1>7 DEF Deliver
  <2> HIDE DEF n
  <2>4. \A m \in Notifiers : \A i \in DOMAIN inbox[m] :
          i \in DOMAIN inbox'[m] /\ inbox'[m][i] = inbox[m][i]
    <3> SUFFICES ASSUME NEW m \in Notifiers, NEW i \in DOMAIN inbox[m]
                 PROVE  i \in DOMAIN inbox'[m] /\ inbox'[m][i] = inbox[m][i]
      OBVIOUS
    <3>1. inbox'[m] = inbox[m] \/ inbox'[m] = Append(inbox[m], r.src)
      BY <2>1, <2>3
    <3>2. inbox[m] \in Seq(Sources)
      BY <2>1
    <3> QED BY <2>1, <3>1, <3>2
  <2>5. n \notin Deaf \cup {None} =>
          \E i \in DOMAIN inbox'[n] : inbox'[n][i] = r.src
    <3> SUFFICES ASSUME n \notin Deaf \cup {None}
                 PROVE  \E i \in DOMAIN inbox'[n] : inbox'[n][i] = r.src
      OBVIOUS
    <3>1. inbox'[n] = Append(inbox[n], r.src) /\ inbox[n] \in Seq(Sources)
      BY <2>1, <2>3 DEF EventInv, Listening
    <3>2. Len(inbox[n]) + 1 \in DOMAIN inbox'[n] /\ inbox'[n][Len(inbox[n]) + 1] = r.src
      BY <2>1, <3>1
    <3> QED BY <3>2
  <2>6. Quiet' /\ Listening' /\ KnownOpen'
    BY <2>2 DEF EventInv, Quiet, Listening, KnownOpen, Known, IsOpen, tableVars
  <2>7. Queued' = Queued
    BY <2>2 DEF Queued
  <2>8. Reached'
    BY <2>2, <2>7 DEF EventInv, Reached, OpSent, Registered, Up
  <2>9. ASSUME NEW s \in Sources, Waits(s)', Up', ~failed' PROVE OnItsWay(s)'
    <3>1. Waits(s) /\ OnItsWay(s) /\ Notify[s] \in Notifiers /\ Notify[s] \notin Deaf \cup {None}
      BY <2>2, <2>9, NotifiersAssumption DEF Waits, Held, EventInv, Watched, Up
    <3>2. CASE OpSent(s)
      BY <2>2, <2>7, <3>2 DEF OpSent, OnItsWay
    <3>3. CASE r.src = s
      BY <2>1, <2>5, <3>1, <3>3 DEF OnItsWay
    <3>4. CASE \E q \in fresh \cup events : q.src = s /\ r.src # s
      BY <2>2, <3>4 DEF OnItsWay
    <3>5. CASE \E i \in DOMAIN inbox[Notify[s]] : inbox[Notify[s]][i] = s
      BY <2>4, <3>1, <3>5 DEF OnItsWay
    <3> QED BY <3>1, <3>2, <3>3, <3>4, <3>5 DEF OnItsWay, OpSent
  <2> QED BY <2>6, <2>8, <2>9 DEF EventInv, Watched
<1>8. ASSUME NEW r \in events, DeliverPanics(r) PROVE EventInv'
  BY <1>8, EndsEvents DEF DeliverPanics
<1>9. CASE PollDone \/ RecvNothing \/ Continue
  <2>1. /\ UNCHANGED <<files, epoll, fresh, event_src_ids, mine, asked, failed, waiting, listening,
                       chan, events, inbox>>
        /\ Up /\ Up'
        /\ pc = "deliver" => events = {}
    BY <1>9 DEF PollDone, RecvNothing, Continue, Goto, pushUnchanged, kernelVars, tableVars,
                clientVars, Up
  <2>2. Quiet'
    BY <2>1 DEF EventInv, Quiet
  <2> QED BY <2>1, <2>2, EventsKept DEF Queued
<1>10. CASE Check
  BY <1>9, <1>10, EndsEvents DEF Check
<1> QED
  BY <1>1, <1>2, <1>3, <1>4, <1>5, <1>6, <1>7, <1>8, <1>9, <1>10 DEF PollerStep

-----------------------------------------------------------------------------
(* The clients and the executor.                                           *)

LEMMA AskEvents ==
  ASSUME TypeOK, Prepared, EventInv, manner = "prepared",
         NEW kind \in Kinds, NEW s \in Sources, NEW fd \in Fds, Ask(kind, s, fd)
  PROVE  EventInv'
<1>1. /\ kind \in {"FdAdd", "TcpAdd"} /\ fd \in mine /\ files[fd] = s /\ mine' \subseteq mine
      /\ UNCHANGED <<failed, waiting, tableVars, events, inbox, listening, pc>>
      /\ \A t \in Sources : t # s => asked'[t] = asked[t]
  BY DEF Ask, MayAsk, Held, TypeOK
<1>2. Quiet' /\ Listening'
  BY <1>1 DEF EventInv, Quiet, Listening
<1>3. CASE Up /\ chan' = Append(chan, Submit(kind, fd, Notify[s])) /\ UNCHANGED kernelVars
  <2> DEFINE op == Submit(kind, fd, Notify[s])
  <2>1. op \in Operations /\ op # Poll /\ op.fd = fd
    BY NotifiersAssumption, OperationTypes DEF Submit, Operations
  <2>2. Queued' = Queued \cup {op}
    BY <1>3, <2>1, QueuedMore
  <2> HIDE DEF op
  <2>3. KnownOpen'
    BY <1>1, <1>3 DEF EventInv, KnownOpen, Known, IsOpen, kernelVars, tableVars
  <2>4. OpSent(s)' /\ \A t \in Sources : OpSent(t) => OpSent(t)'
    BY <1>1, <1>3, <2>1, <2>2 DEF OpSent, kernelVars
  <2>5. Reached'
    BY <1>1, <1>3, <2>4 DEF EventInv, Reached, Registered, kernelVars
  <2>6. ASSUME NEW t \in Sources, t # s, Waits(t)', ~failed PROVE OnItsWay(t)'
    <3>1. Waits(t)
      BY <1>1, <1>3, <2>6 DEF Waits, Held, kernelVars
    <3>2. OnItsWay(t)
      BY <1>3, <2>6, <3>1 DEF EventInv, Watched
    <3>3. CASE OpSent(t)
      BY <2>4, <3>3 DEF OpSent, OnItsWay
    <3>4. CASE ~OpSent(t)
      BY <1>1, <1>3, <3>2, <3>4 DEF OpSent, OnItsWay, kernelVars
    <3> QED BY <3>3, <3>4
  <2>7. OnItsWay(s)'
    BY <2>4 DEF OpSent, OnItsWay
  <2> QED BY <1>1, <1>2, <2>3, <2>5, <2>6, <2>7 DEF EventInv, Watched
<1>4. CASE ~Up /\ Close(Without(files, mine \ mine')) /\ UNCHANGED chan
  <2>1. \A r \in epoll' : r \in epoll /\ \E f \in Fds : files'[f] = r.src
    BY <1>4 DEF Close, Alive
  <2>2. ~Up'
    BY <1>1, <1>4 DEF Up
  <2> QED BY <1>1, <1>2, <2>1, <2>2
          DEF EventInv, KnownOpen, Known, IsOpen, Reached, Watched, tableVars
<1> QED BY <1>3, <1>4 DEF Ask

LEMMA NextEvents ==
  ASSUME TypeOK, Accounted, Prepared, EventInv, manner = "prepared", [Next]_vars
  PROVE  EventInv'
<1>1. CASE PollerStep
  BY <1>1, PollerEvents
<1>2. ASSUME NEW s \in Sources, Arrive(s) PROVE EventInv'
  <2>1. /\ UNCHANGED <<files, epoll, event_src_ids, asked, failed, mine, events, listening, pc,
                       chan, inbox>>
        /\ waiting' = [waiting EXCEPT ![s] = TRUE]
        /\ fresh' = fresh \cup {r \in epoll : r.src = s}
    BY <1>2 DEF Arrive, clientVars, tableVars
  <2>2. Quiet' /\ Listening' /\ KnownOpen' /\ Queued' = Queued
    BY <2>1 DEF EventInv, Quiet, Listening, KnownOpen, Known, IsOpen, Queued
  <2>3. Reached'
    BY <2>1, <2>2 DEF EventInv, Reached, Up, OpSent, Registered
  <2>4. ASSUME NEW t \in Sources, Waits(t)', Up, ~failed PROVE OnItsWay(t)'
    <3>1. CASE t # s
      <4>1. Waits(t)
        BY <2>1, <2>4, <3>1 DEF Waits, Held, TypeOK
      <4>2. OnItsWay(t)
        BY <2>4, <4>1 DEF EventInv, Watched
      <4> QED BY <2>1, <2>2, <4>2 DEF OnItsWay
    <3>2. CASE t = s
      <4>1. OpSent(s) \/ Registered(s)
        BY <2>1, <2>4, <3>2 DEF EventInv, Reached, Waits
      <4> QED BY <2>1, <2>2, <3>2, <4>1 DEF OnItsWay, OpSent, Registered
    <3> QED BY <3>1, <3>2
  <2> QED BY <2>1, <2>2, <2>3, <2>4 DEF EventInv, Watched, Up
<1>3. ASSUME NEW s \in Sources, NEW fd \in Fds, Open(s, fd) PROVE EventInv'
  <2>1. /\ \A t \in Sources : asked[t] = 0
        /\ UNCHANGED <<asked, epoll, event_src_ids, events, listening, pc>>
    BY <1>3 DEF Open, MayOpen, tableVars
  <2>2. epoll = {}
    BY <2>1 DEF Prepared, AskedFirst, EventInv, KnownOpen
  <2> QED BY <2>1, <2>2 DEF EventInv, Quiet, Listening, KnownOpen, Reached, Watched, Waits
<1>4. ASSUME NEW s \in Sources, NEW fd \in Fds, NEW kind \in Kinds, Ask(kind, s, fd)
      PROVE  EventInv'
  BY <1>4, AskEvents
<1>5. ASSUME NEW fd \in Fds, CloseFd(fd) PROVE FALSE
  BY <1>5 DEF CloseFd, MayClose
<1>6. ASSUME NEW n \in Notifiers, Receive(n) \/ Quit(n) PROVE EventInv'
  <2>1. /\ UNCHANGED <<files, epoll, fresh, event_src_ids, asked, mine, failed, chan, events, pc>>
        /\ \A m \in Notifiers : m # n => inbox'[m] = inbox[m]
        /\ \A m \in Notifiers \ Deaf : listening'[m] = listening[m]
    BY <1>6 DEF Receive, Quit, clientVars, kernelVars, tableVars, TypeOK
  <2>2. \A s \in Sources : waiting'[s] /\ Held(s) # {} => 
          waiting[s] /\ (Notify[s] = n => n \in Deaf)
    BY <1>6 DEF Receive, Quit, TypeOK
  <2>3. Quiet' /\ Listening' /\ KnownOpen' /\ Queued' = Queued
    BY <2>1 DEF EventInv, Quiet, Listening, KnownOpen, Known, IsOpen, Queued
  <2>4. Reached'
    BY <2>1, <2>3 DEF EventInv, Reached, Up, OpSent, Registered
  <2>5. ASSUME NEW s \in Sources, Waits(s)', Up, ~failed PROVE OnItsWay(s)'
    <3>1. Waits(s) /\ Notify[s] # n /\ Notify[s] \in Notifiers
      BY <2>1, <2>2, <2>5, NotifiersAssumption DEF Waits, Held
    <3>2. OnItsWay(s)
      BY <2>5, <3>1 DEF EventInv, Watched
    <3> QED BY <2>1, <2>3, <3>1, <3>2 DEF OnItsWay
  <2> QED BY <2>1, <2>3, <2>4, <2>5 DEF EventInv, Watched, Up
<1>7. CASE SendPoll
  <2>1. /\ UNCHANGED <<files, epoll, fresh, event_src_ids, asked, mine, failed, waiting, listening,
                       events, inbox, pc>>
        /\ chan' = Append(chan, Poll)
    BY <1>7 DEF SendPoll, clientVars, kernelVars, tableVars
  <2>2. Queued' = Queued \cup {Poll}
    BY <2>1, QueuedMore
  <2>3. Quiet'
    BY <2>1 DEF EventInv, Quiet
  <2> QED BY <2>1, <2>2, <2>3, EventsKept DEF Up
<1>8. CASE Shutdown \/ UNCHANGED vars
  <2>1. UNCHANGED <<files, epoll, fresh, event_src_ids, asked, mine, failed, waiting, listening,
                    events, inbox, pc, chan>>
    BY <1>8 DEF Shutdown, vars, clientVars, kernelVars, tableVars
  <2>2. Quiet'
    BY <2>1 DEF EventInv, Quiet
  <2> QED BY <2>1, <2>2, EventsKept DEF Up, Queued
<1> QED BY <1>1, <1>2, <1>3, <1>4, <1>5, <1>6, <1>7, <1>8 DEF Next

\* No event at a source that a prepared client registered is lost on its way to
\* the client (push_token_entry and poll of Poller, PollerActor::run), whatever
\* the numbers, the capacities, and the order of arrivals, operations and waits.
THEOREM NoEventLost == Spec => []NothingMissed
<1> DEFINE Inv == manner = "prepared" => Prepared /\ EventInv
<1>1. Init => Inv
  <2> SUFFICES ASSUME Init PROVE Prepared /\ EventInv
    OBVIOUS
  <2>1. /\ Known = {} /\ Ops = {} /\ mine = {} /\ epoll = {} /\ events = {}
        /\ \A n \in Notifiers : inbox[n] = <<>>
        /\ \A n \in Notifiers : listening[n]
        /\ \A s \in Sources : ~(asked[s] > 0)
    BY DEF Init, Known, NoEntry, Ops
  <2>2. Prepared
    BY <2>1 DEF Prepared, QueuedFresh, AskedOnce, AskedFirst, RightToken, Own
  <2> QED BY <2>1, <2>2 DEF EventInv, Quiet, Listening, KnownOpen, Reached, Watched, Waits
<1>2. TypeOK /\ Accounted /\ Inv /\ [Next]_vars => Inv'
  BY NextPrepared, NextEvents, MannerKept
<1>3. Inv => NothingMissed
  BY DEF EventInv, Watched, Waits, NothingMissed
<1> HIDE DEF Inv
<1> QED BY <1>1, <1>2, <1>3, PollerTypeCorrect, DescriptorsAccounted, PTL DEF Spec
=============================================================================
