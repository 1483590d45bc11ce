-------------------------------- MODULE Poller --------------------------------
(***************************************************************************)
(* The I/O poller thread of an executor (imputio/src/io): PollerActor::run *)
(* and the tables of its Poller, which names the sources of events by the  *)
(* number of a descriptor although it closes the numbers of TCP sockets    *)
(* itself.  The descriptor table of the process and the registrations the  *)
(* kernel keeps are modelled as the code uses them.  Clients register what *)
(* they opened and wait on a notifier for its events; the executor between *)
(* them and the poller is the subject of Scheduler.                        *)
(***************************************************************************)
EXTENDS Integers, Sequences, FiniteSets

CONSTANTS
  Sources,     (* what events come from: listeners, pipes, ...             *)
  NFds,        (* the descriptor numbers of the process are 1 .. NFds      *)
  Notifiers,   (* the channels clients wait on                             *)
  None,        (* no notifier, no source                                   *)
  Notify,      (* Notify[s]: the notifier passed with s, or None           *)
  Capacity,    (* Capacity[n]: of the channel n; 0 is flume::unbounded     *)
  Deaf,        (* notifiers whose client need not receive, or may give up  *)
  Manners,     (* the manners of clients to consider, see below            *)
  MayFail,     (* may try_clone fail though a number is free?              *)
  MaxNumbers,  (* bound: clients hold MaxNumbers[s] descriptors of s       *)
  MaxAsks,     (* bound: MaxAsks[s] operations are submitted for s         *)
  MaxArrivals, (* bound: MaxArrivals[s] arrivals at s                      *)
  MaxPolls     (* bound: undelivered Polls                                 *)

Fds == 1 .. NFds

(* "prepared": clients open all they need before they register any of it,  *)
(* and register each source once.  "example": they open a listener, clone  *)
(* it and register it, one after another, as the socket example does.      *)
(* "careless": they open, close, register, modify and delete at will.      *)
ASSUME MannersAssumption == Manners \subseteq {"prepared", "example", "careless"}
ASSUME FailureAssumption == MayFail \in BOOLEAN
ASSUME NoneAssumption == None \notin Sources \cup Notifiers
ASSUME NotifiersAssumption ==
  /\ Notify \in [Sources -> Notifiers \cup {None}]
  /\ Capacity \in [Notifiers -> Nat]
  /\ Deaf \subseteq Notifiers
ASSUME BoundsAssumption ==
  /\ {NFds, MaxPolls} \subseteq Nat
  /\ {MaxNumbers, MaxAsks, MaxArrivals} \subseteq [Sources -> Nat]

VARIABLES
  manner,        (* of the clients, the same throughout a behaviour        *)
  failed,        (* has try_clone failed so far?                           *)
  files,         (* files[fd]: what the number refers to, or None          *)
  mine,          (* numbers that clients hold                              *)
  asked,         (* asked[s]: operations submitted for s                   *)
  waiting,       (* waiting[s]: is something at s that no client took?     *)
  arrivals,      (* arrivals[s]: arrivals at s so far                      *)
  chan,          (* IoOps sent to the poller and not received              *)
  event_src_ids, (* Poller.event_src_ids, with id 0 for an absent number   *)
  tokens,        (* Poller.tokens: the slab, from which nothing is removed *)
  epoll,         (* the kernel's registrations                             *)
  fresh,         (* those with an edge that no epoll_wait has reported     *)
  events,        (* Poller.events: those reported and not yet handled      *)
  inbox,         (* inbox[n]: the source of each event in the channel n    *)
  listening,     (* listening[n]: does a receiver of n exist?              *)
  pc,            (* where PollerActor::run is                              *)
  shutdown       (* the shutdown flag                                      *)

clientVars == <<mine, asked>>
kernelVars == <<files, epoll, fresh>>
tableVars  == <<event_src_ids, tokens>>
vars == <<manner, failed, clientVars, kernelVars, tableVars, waiting, arrivals, chan,
          events, inbox, listening, pc, shutdown>>

Kinds == {"FdAdd", "TcpAdd", "Modify", "Delete"}
Submit(kind, fd, n) == [op |-> kind, fd |-> fd, notify |-> n]
Poll == [op |-> "Poll", fd |-> 0, notify |-> None]

Operations    == [op : Kinds, fd : Fds, notify : Notifiers \cup {None}]
Entries       == [id : Nat, notify : Notifiers \cup {None}]
Registrations == [fd : Fds, src : Sources, id : Nat \ {0}]
NoEntry       == [id |-> 0, notify |-> None]

TypeOK ==
  /\ manner \in Manners
  /\ failed \in BOOLEAN
  /\ files \in [Fds -> Sources \cup {None}]
  /\ mine \subseteq Fds
  /\ asked \in [Sources -> Nat]
  /\ waiting \in [Sources -> BOOLEAN]
  /\ arrivals \in [Sources -> Nat]
  /\ chan \in Seq(Operations \cup {Poll})
  /\ event_src_ids \in [Fds -> Entries]
  /\ tokens \in Seq(Operations)
  /\ epoll \subseteq Registrations
  /\ fresh \subseteq epoll
  /\ events \subseteq Registrations
  /\ inbox \in [Notifiers -> Seq(Sources)]
  /\ listening \in [Notifiers -> BOOLEAN]
  /\ pc \in {"recv", "deliver", "check", "exited", "panicked"}
  /\ shutdown \in BOOLEAN

Init ==
  /\ manner \in Manners
  /\ failed = FALSE
  /\ files = [fd \in Fds |-> None]
  /\ mine = {}
  /\ asked = [s \in Sources |-> 0]
  /\ waiting = [s \in Sources |-> FALSE]
  /\ arrivals = [s \in Sources |-> 0]
  /\ chan = <<>>
  /\ event_src_ids = [fd \in Fds |-> NoEntry]
  /\ tokens = <<>>
  /\ epoll = {}
  /\ fresh = {}
  /\ events = {}
  /\ inbox = [n \in Notifiers |-> <<>>]
  /\ listening = [n \in Notifiers |-> TRUE]
  /\ pc = "recv"
  /\ shutdown = FALSE

-----------------------------------------------------------------------------
(* The kernel: descriptors, and registrations that last as long as any     *)
(* descriptor of their source does, whatever its number.                   *)

Free       == {fd \in Fds : files[fd] = None}
Lowest(fd) == fd \in Free /\ \A other \in Free : fd <= other
IsOpen(s)  == \E fd \in Fds : files[fd] = s
Held(s)    == {fd \in mine : files[fd] = s}

Without(table, S)  == [fd \in Fds |-> IF fd \in S THEN None ELSE table[fd]]
Alive(regs, table) == {r \in regs : \E fd \in Fds : table[fd] = r.src}

Close(table) ==
  /\ files' = table
  /\ epoll' = Alive(epoll, table)
  /\ fresh' = Alive(fresh, table)

\* registry().register refuses a closed number and a pair that it has; the table
\* then is "after".  The first event of a ready source does not wait for another.
Registrable(table, fd, id) ==
  {r \in {[fd |-> fd, src |-> table[fd], id |-> id]} :
     r.src # None /\ \A q \in epoll : q.fd = fd => q.src # r.src}
Register(table, fd, id, after) ==
  /\ files' = after
  /\ epoll' = Alive(epoll \cup Registrable(table, fd, id), after)
  /\ fresh' = Alive(fresh \cup {r \in Registrable(table, fd, id) : waiting[r.src]}, after)

Arrive(s) ==
  /\ IsOpen(s)
  /\ arrivals[s] < MaxArrivals[s]
  /\ arrivals' = [arrivals EXCEPT ![s] = @ + 1]
  /\ waiting' = [waiting EXCEPT ![s] = TRUE]
  /\ fresh' = fresh \cup {r \in epoll : r.src = s}
  /\ UNCHANGED <<manner, failed, clientVars, files, epoll, tableVars, chan, events, inbox,
                 listening, pc, shutdown>>

-----------------------------------------------------------------------------
(* Clients.                                                                *)

Up == pc \notin {"exited", "panicked"}

MayOpen(s) ==
  /\ manner = "prepared" => \A o \in Sources : asked[o] = 0
  /\ manner = "example" => asked[s] = 0
                           /\ \A o \in Sources \ {s} : Held(o) # {} => asked[o] > 0
MayAsk(kind, s) ==
  /\ manner # "careless" => asked[s] = 0 /\ kind \in {"FdAdd", "TcpAdd"}
  /\ manner = "example" => kind = "TcpAdd" /\ Cardinality(Held(s)) > 1
MayClose == manner = "careless"

\* A new source, or the clone of one that a client holds.
Open(s, fd) ==
  /\ MayOpen(s)
  /\ Lowest(fd)
  /\ Held(s) # {} \/ ~IsOpen(s)
  /\ Cardinality(Held(s)) < MaxNumbers[s]
  /\ files' = [files EXCEPT ![fd] = s]
  /\ mine' = mine \cup {fd}
  /\ waiting' = [waiting EXCEPT ![s] = @ /\ IsOpen(s)]
  /\ UNCHANGED <<manner, failed, asked, epoll, fresh, arrivals, tableVars, chan, events,
                 inbox, listening, pc, shutdown>>

CloseFd(fd) ==
  /\ MayClose
  /\ fd \in mine
  /\ mine' = mine \ {fd}
  /\ Close(Without(files, {fd}))
  /\ UNCHANGED <<manner, failed, asked, waiting, arrivals, tableVars, chan, events, inbox,
                 listening, pc, shutdown>>

\* register_tcp_socket, register_fd or add_operation_to_io_poller, through the
\* executor: the listener itself goes into the operation, a raw fd is only a
\* number.  An operation that finds no poller is dropped.
Ask(kind, s, fd) ==
  /\ MayAsk(kind, s)
  /\ asked[s] < MaxAsks[s]
  /\ fd \in Held(s)
  /\ asked' = [asked EXCEPT ![s] = @ + 1]
  /\ mine' = IF kind = "TcpAdd" THEN mine \ {fd} ELSE mine
  /\ \/ Up /\ chan' = Append(chan, Submit(kind, fd, Notify[s])) /\ UNCHANGED kernelVars
     \/ ~Up /\ Close(Without(files, mine \ mine')) /\ UNCHANGED chan
  /\ UNCHANGED <<manner, failed, waiting, arrivals, tableVars, events, inbox, listening, pc,
                 shutdown>>

\* A client that has an event takes all that waits at the sources it passed with
\* the notifier: a registration is edge-triggered.
Receive(n) ==
  /\ listening[n]
  /\ inbox[n] # <<>>
  /\ inbox' = [inbox EXCEPT ![n] = Tail(@)]
  /\ waiting' = [s \in Sources |-> waiting[s] /\ (Notify[s] # n \/ Held(s) = {})]
  /\ UNCHANGED <<manner, failed, clientVars, kernelVars, tableVars, arrivals, chan, events,
                 listening, pc, shutdown>>

Quit(n) ==
  /\ n \in Deaf
  /\ listening[n]
  /\ listening' = [listening EXCEPT ![n] = FALSE]
  /\ inbox' = [inbox EXCEPT ![n] = <<>>]
  /\ UNCHANGED <<manner, failed, clientVars, kernelVars, tableVars, waiting, arrivals, chan,
                 events, pc, shutdown>>

-----------------------------------------------------------------------------
(* The executor sends a Poll with each transaction Poll that it handles.   *)

SendPoll ==
  /\ Up
  /\ Len(SelectSeq(chan, LAMBDA o : o = Poll)) < MaxPolls
  /\ chan' = Append(chan, Poll)
  /\ UNCHANGED <<manner, failed, clientVars, kernelVars, tableVars, waiting, arrivals, events,
                 inbox, listening, pc, shutdown>>

Shutdown ==
  /\ ~shutdown
  /\ shutdown' = TRUE
  /\ UNCHANGED <<manner, failed, clientVars, kernelVars, tableVars, waiting, arrivals, chan,
                 events, inbox, listening, pc>>

-----------------------------------------------------------------------------
(* push_token_entry.                                                       *)

Goto(from, to) == pc = from /\ pc' = to

Queued      == {chan[i] : i \in DOMAIN chan}
Received(o) == pc = "recv" /\ chan # <<>> /\ o = Head(chan) /\ chan' = Tail(chan)

Known == {fd \in Fds : event_src_ids[fd].id # 0}

\* The number has an id whose token was never stored: an index that panics.
Vacant(fd) == fd \in Known /\ event_src_ids[fd].id \notin DOMAIN tokens

\* Mutants: the number of tokens; the key of the last token, once there is one.
NextIdShort == Len(tokens)
NextIdLast == IF tokens = <<>> THEN 1 ELSE Len(tokens)

NextId == Len(tokens) + 1

Slot(o)        == IF o.fd \in Known THEN event_src_ids[o.fd].id ELSE NextId
NotifierFor(o) == IF o.fd \in Known THEN event_src_ids[o.fd].notify ELSE o.notify

\* A known number gives its token away and keeps its id and its notifier.
Store(o, token, notify) ==
  /\ tokens' = IF o.fd \in Known THEN [tokens EXCEPT ![Slot(o)] = token]
                                 ELSE Append(tokens, token)
  /\ event_src_ids' = IF o.fd \in Known THEN event_src_ids
                      ELSE [event_src_ids EXCEPT ![o.fd] = [id |-> Slot(o), notify |-> notify]]

\* The token that Store overwrites drops the listener it has.
Overwritten(o) == IF o.fd \in Known /\ tokens[Slot(o)].op = "TcpAdd"
                  THEN {tokens[Slot(o)].fd} ELSE {}

Handles(kind, o) == Received(o) /\ o.op = kind /\ ~Vacant(o.fd) /\ pc' = "check"

pushUnchanged == <<manner, failed, clientVars, waiting, arrivals, events, inbox, listening,
                   shutdown>>

\* Mutant: the notifier goes into event_src_ids and not into the token.
RecvFdAddSwapped(o) ==
  /\ Handles("FdAdd", o)
  /\ Store(o, Submit("FdAdd", o.fd, IF o.fd \in Known THEN NotifierFor(o) ELSE None), o.notify)
  /\ LET kept == Without(files, Overwritten(o)) IN Register(kept, o.fd, Slot(o), kept)
  /\ UNCHANGED pushUnchanged

\* The notifier of a first FdAdd goes into the token and not into event_src_ids.
RecvFdAdd(o) ==
  /\ Handles("FdAdd", o)
  /\ Store(o, Submit("FdAdd", o.fd, NotifierFor(o)), None)
  /\ LET kept == Without(files, Overwritten(o)) IN Register(kept, o.fd, Slot(o), kept)
  /\ UNCHANGED pushUnchanged

\* Mutant: the listener that was registered is forgotten and not dropped.
RecvTcpAddLeak(o, clone) ==
  /\ Handles("TcpAdd", o)
  /\ Lowest(clone)
  /\ Store(o, Submit("TcpAdd", clone, NotifierFor(o)), o.notify)
  /\ LET kept == Without([files EXCEPT ![clone] = files[o.fd]], Overwritten(o)) IN
       Register(kept, o.fd, Slot(o), kept)
  /\ UNCHANGED pushUnchanged

\* The token has a clone; the listener is registered and dropped: the number is
\* free again and still a key of event_src_ids.
RecvTcpAdd(o, clone) ==
  /\ Handles("TcpAdd", o)
  /\ Lowest(clone)
  /\ Store(o, Submit("TcpAdd", clone, NotifierFor(o)), o.notify)
  /\ LET kept == Without([files EXCEPT ![clone] = files[o.fd]], Overwritten(o)) IN
       Register(kept, o.fd, Slot(o), Without(kept, {o.fd}))
  /\ UNCHANGED pushUnchanged

\* try_clone fails: the number has an id already, and no token.
RecvTcpFails(o) ==
  /\ MayFail \/ Free = {}
  /\ Handles("TcpAdd", o)
  /\ failed' = TRUE
  /\ event_src_ids' = IF o.fd \in Known THEN event_src_ids
                      ELSE [event_src_ids EXCEPT ![o.fd] = [id |-> NextId, notify |-> o.notify]]
  /\ Close(Without(files, {o.fd}))
  /\ UNCHANGED <<manner, clientVars, waiting, arrivals, events, inbox, listening, shutdown,
                 tokens>>

\* Mutant: the new id is stored without its token.
RecvModifyBare(o) ==
  /\ Handles("Modify", o)
  /\ event_src_ids' = [event_src_ids EXCEPT ![o.fd] = [id |-> Slot(o), notify |-> o.notify]]
  /\ UNCHANGED <<pushUnchanged, kernelVars, tokens>>

\* The kernel's registration is left as it is.
RecvModify(o) ==
  /\ Handles("Modify", o)
  /\ tokens' = IF o.fd \in Known
                 THEN [tokens EXCEPT ![Slot(o)] = Submit("Modify", o.fd, NotifierFor(o))]
                 ELSE Append(tokens, Submit("Modify", o.fd, o.notify))
  /\ event_src_ids' =
       [event_src_ids EXCEPT ![o.fd] =
          [id |-> Slot(o), notify |-> IF o.notify # None THEN o.notify ELSE @.notify]]
  /\ Close(Without(files, Overwritten(o)))
  /\ UNCHANGED pushUnchanged

\* The thread ends and drops the Poller, and the listeners its tokens have.
Listeners == {tokens[i].fd : i \in {j \in DOMAIN tokens : tokens[j].op = "TcpAdd"}}
Ends(label, dropped) ==
  /\ pc' = label
  /\ tokens' = <<>>
  /\ event_src_ids' = [fd \in Fds |-> NoEntry]
  /\ epoll' = {}
  /\ fresh' = {}
  /\ events' = {}
  /\ files' = Without(files, Listeners \cup dropped)
  /\ UNCHANGED <<manner, failed, clientVars, waiting, arrivals, inbox, listening, shutdown>>

\* todo!(), or an index without a token.
RecvPanics(o) ==
  /\ Received(o)
  /\ o.op = "Delete" \/ (o.op # "Poll" /\ Vacant(o.fd))
  /\ Ends("panicked", IF o.op = "TcpAdd" THEN {o.fd} ELSE {})

-----------------------------------------------------------------------------
(* poll: the events of one epoll_wait, handled one after another.          *)

RecvPoll(o) ==
  /\ Received(o)
  /\ o.op = "Poll"
  /\ pc' = "deliver"
  /\ events' = {r \in fresh : waiting[r.src]}
  /\ fresh' = {}
  /\ UNCHANGED <<manner, failed, clientVars, files, epoll, tableVars, waiting, arrivals,
                 inbox, listening, shutdown>>

Full(n) == Capacity[n] # 0 /\ Len(inbox[n]) >= Capacity[n]

\* Mutant: a send without a receiver ends poll, with the events that remain.
DeliverOrReturn(r) ==
  /\ pc = "deliver"
  /\ r \in events
  /\ tokens[r.id].op # "Modify"
  /\ LET n == tokens[r.id].notify IN
       IF n # None /\ listening[n]
       THEN /\ ~Full(n)
            /\ inbox' = [inbox EXCEPT ![n] = Append(@, r.src)]
            /\ events' = events \ {r}
       ELSE UNCHANGED inbox /\ events' = {}
  /\ UNCHANGED <<manner, failed, clientVars, kernelVars, tableVars, waiting, arrivals, chan,
                 listening, pc, shutdown>>

\* A send to a full notifier blocks the thread; one without a receiver fails and
\* is only logged.  Every registration has its token: the index is not checked.
Deliver(r) ==
  /\ pc = "deliver"
  /\ r \in events
  /\ tokens[r.id].op # "Modify"
  /\ events' = events \ {r}
  /\ LET n == tokens[r.id].notify IN
       IF n # None /\ listening[n]
       THEN ~Full(n) /\ inbox' = [inbox EXCEPT ![n] = Append(@, r.src)]
       ELSE UNCHANGED inbox
  /\ UNCHANGED <<manner, failed, clientVars, kernelVars, tableVars, waiting, arrivals, chan,
                 listening, pc, shutdown>>

DeliverPanics(r) ==
  /\ pc = "deliver"
  /\ r \in events
  /\ tokens[r.id].op = "Modify"
  /\ Ends("panicked", {})
  /\ UNCHANGED chan

PollDone ==
  /\ Goto("deliver", "check")
  /\ events = {}
  /\ UNCHANGED <<pushUnchanged, kernelVars, tableVars, chan>>

RecvNothing ==
  /\ Goto("recv", "check")
  /\ chan = <<>>
  /\ UNCHANGED <<pushUnchanged, kernelVars, tableVars, chan>>

Continue ==
  /\ Goto("check", "recv")
  /\ UNCHANGED <<pushUnchanged, kernelVars, tableVars, chan>>

\* Mutant: the thread ends only when nothing is left to do.
CheckDrained ==
  /\ pc = "check"
  /\ IF shutdown /\ chan = <<>> THEN Ends("exited", {}) /\ UNCHANGED chan ELSE Continue

Check ==
  /\ pc = "check"
  /\ IF shutdown THEN Ends("exited", {}) /\ UNCHANGED chan ELSE Continue

PollerStep ==
  \/ \E o \in Queued :
       \/ RecvFdAdd(o) \/ RecvModify(o) \/ RecvTcpFails(o) \/ RecvPanics(o) \/ RecvPoll(o)
       \/ \E clone \in Fds : RecvTcpAdd(o, clone)
  \/ \E r \in events : Deliver(r) \/ DeliverPanics(r)
  \/ PollDone \/ RecvNothing \/ Check

Next ==
  \/ PollerStep
  \/ \E s \in Sources :
       \/ Arrive(s)
       \/ \E fd \in Fds : Open(s, fd) \/ \E kind \in Kinds : Ask(kind, s, fd)
  \/ \E fd \in Fds : CloseFd(fd)
  \/ \E n \in Notifiers : Receive(n) \/ Quit(n)
  \/ SendPoll
  \/ Shutdown

\* The operating system runs the poller thread, the executor handles Polls until
\* the shutdown, and clients receive unless they are deaf.
Fairness ==
  /\ WF_vars(PollerStep)
  /\ WF_vars(~shutdown /\ SendPoll)
  /\ \A n \in Notifiers \ Deaf : WF_vars(Receive(n))

Spec == Init /\ [][Next]_vars
FairSpec == Spec /\ Fairness

-----------------------------------------------------------------------------
(* Correctness.                                                            *)

\* No two descriptor numbers share a token id, and every id has its token, so
\* that no index panics, whatever clients do, as long as no try_clone has failed.
IdsApart ==
  ~failed => \A fd \in Known :
    /\ ~Vacant(fd)
    /\ \A other \in Known : event_src_ids[other].id = event_src_ids[fd].id => other = fd

\* An event in a notifier is of a source that was registered with that notifier:
\* what the socket example relies on, which accepts on the listener whose
\* notifier has an event and expects a connection.
Own == \A n \in Notifiers : \A i \in DOMAIN inbox[n] : Notify[inbox[n][i]] = n

\* So it is for clients that open all they register before they register any of it.
OwnEvents == manner = "prepared" => Own

\* Every descriptor is held once: by a client, by an operation on its way or by
\* a token.  Nothing is closed twice and nothing is left open that nobody has.
InTransit == {chan[i].fd : i \in {j \in DOMAIN chan : chan[j].op = "TcpAdd"}}
Accounted ==
  /\ {fd \in Fds : files[fd] # None} = mine \cup InTransit \cup Listeners
  /\ mine \cap InTransit = {}
  /\ (mine \cup InTransit) \cap Listeners = {}
  /\ \A table \in {chan, tokens} : \A i, j \in DOMAIN table :
       table[i].op = "TcpAdd" /\ table[j].op = "TcpAdd" /\ table[i].fd = table[j].fd => i = j

\* What waits at s is seen or will be: the operation that registers it is still to be
\* received, the kernel or the poller has an event of it, or its client has one.
OnItsWay(s) ==
  \/ \E o \in Queued : o # Poll /\ files[o.fd] = s
  \/ \E r \in fresh \cup events : r.src = s
  \/ \E i \in DOMAIN inbox[Notify[s]] : inbox[Notify[s]][i] = s

\* No event is lost: what waits at a source that a prepared client registered is on
\* its way to that client, although registrations are edge-triggered and it may
\* have arrived while the operation was in the channel, or between two waits.
NothingMissed ==
  manner = "prepared" /\ Up /\ ~failed =>
    \A s \in Sources :
      /\ waiting[s] /\ Held(s) # {} /\ asked[s] > 0
      /\ Notify[s] \notin Deaf \cup {None}
      => OnItsWay(s)

\* The poller is in a send to a client that does not receive.
Blocked == pc = "deliver" /\ \E r \in events :
  LET n == tokens[r.id].notify IN n \in Deaf /\ listening[n] /\ Full(n)

\* What arrives at a source a prepared client registered is taken some time
\* later, although the client was told Ok before the poller knew the source and
\* what arrived may have been there before, unless a deaf client blocks the poller.
Accepted ==
  \A s \in Sources :
    /\ manner = "prepared"
    /\ waiting[s] /\ Held(s) # {} /\ asked[s] > 0
    /\ Notify[s] \notin Deaf \cup {None}
    ~> ~waiting[s] \/ Blocked \/ ~Up

\* After a shutdown the poller ends, unless a deaf client blocks it.
ShutdownStops == shutdown ~> ~Up \/ Blocked
=============================================================================
