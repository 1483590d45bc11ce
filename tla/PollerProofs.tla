----------------------------- MODULE PollerProofs -----------------------------
(***************************************************************************)
(* Proofs about Poller, for any number of sources, descriptors, notifiers  *)
(* and calls, and every capacity of the notifiers.                         *)
(***************************************************************************)
EXTENDS Poller, SequenceTheorems, TLAPS

Files == [Fds -> Sources \cup {None}]

-----------------------------------------------------------------------------
(* Types.                                                                  *)

LEMMA OperationTypes ==
  /\ \A kind \in Kinds, fd \in Fds, n \in Notifiers \cup {None} :
       Submit(kind, fd, n) \in Operations
  /\ \A o \in Operations : o # Poll /\ o.op # "Poll"
BY DEF Operations, Submit, Poll, Kinds

LEMMA ReceivedTypes ==
  ASSUME TypeOK, NEW o, Received(o)
  PROVE  /\ o \in Operations \cup {Poll}
         /\ o.op # "Poll" => o \in Operations
         /\ chan' \in Seq(Operations \cup {Poll})
<1>1. chan \in Seq(Operations \cup {Poll}) /\ chan # <<>> /\ o = Head(chan) /\ chan' = Tail(chan)
  BY DEF TypeOK, Received
<1> HIDE DEF Poll
<1>2. o \in Operations \cup {Poll} /\ chan' \in Seq(Operations \cup {Poll})
  BY <1>1
<1> QED BY <1>2 DEF Poll

LEMMA SlotTypes ==
  ASSUME TypeOK, NEW o \in Operations
  PROVE  /\ Slot(o) \in Nat \ {0}
         /\ NotifierFor(o) \in Notifiers \cup {None}
<1>1. /\ event_src_ids[o.fd] \in Entries
      /\ o.notify \in Notifiers \cup {None}
      /\ Len(tokens) \in Nat
  BY DEF TypeOK, Operations
<1> QED BY <1>1 DEF Slot, NotifierFor, NextId, Known, Entries

\* Store puts the token into its slot, which is a token's or the next one.
LEMMA StoreTypes ==
  ASSUME TypeOK, NEW o \in Operations, NEW token \in Operations, ~Vacant(o.fd),
         tokens' = IF o.fd \in Known THEN [tokens EXCEPT ![Slot(o)] = token]
                                     ELSE Append(tokens, token)
  PROVE  /\ tokens' \in Seq(Operations)
         /\ DOMAIN tokens' = DOMAIN tokens \cup {Slot(o)}
         /\ tokens'[Slot(o)] = token
         /\ \A i \in DOMAIN tokens : i # Slot(o) => tokens'[i] = tokens[i]
         /\ o.fd \in Known => Slot(o) \in DOMAIN tokens
         /\ o.fd \notin Known => Slot(o) \notin DOMAIN tokens
<1>1. tokens \in Seq(Operations)
  BY DEF TypeOK
<1>2. CASE o.fd \in Known
  <2>1. Slot(o) \in 1 .. Len(tokens)
    BY <1>1, <1>2 DEF Vacant, Slot
  <2>2. tokens' = [tokens EXCEPT ![Slot(o)] = token] /\ DOMAIN tokens = 1 .. Len(tokens)
    BY <1>1, <1>2
  <2>3. /\ tokens' \in Seq(Operations)
        /\ Len(tokens') = Len(tokens)
        /\ \A j \in 1 .. Len(tokens) : tokens'[j] = IF j = Slot(o) THEN token ELSE tokens[j]
    <3> DEFINE i == Slot(o)
               replaced == [tokens EXCEPT ![i] = token]
    <3>1. i \in 1 .. Len(tokens)
      BY <2>1
    <3> HIDE DEF i
    <3>2. /\ replaced \in Seq(Operations)
          /\ Len(replaced) = Len(tokens)
          /\ \A j \in 1 .. Len(tokens) : replaced[j] = IF j = i THEN token ELSE tokens[j]
      BY <1>1, <3>1, ExceptSeq
    <3> QED BY <2>2, <3>2 DEF i
  <2>4. DOMAIN tokens' = 1 .. Len(tokens')
    BY <2>3
  <2> QED BY <1>2, <2>1, <2>2, <2>3, <2>4
<1>3. CASE o.fd \notin Known
  <2>1. Slot(o) = Len(tokens) + 1
    BY <1>3 DEF Slot, NextId
  <2> QED BY <1>1, <1>3, <2>1
<1> QED BY <1>2, <1>3

LEMMA EntryTypes ==
  ASSUME TypeOK, NEW o \in Operations, NEW n \in Notifiers \cup {None}
  PROVE  [event_src_ids EXCEPT ![o.fd] = [id |-> Slot(o), notify |-> n]] \in [Fds -> Entries]
<1>1. [id |-> Slot(o), notify |-> n] \in Entries
  BY SlotTypes DEF Entries
<1> QED BY <1>1 DEF TypeOK

LEMMA WithoutTypes == \A S : \A table \in Files : Without(table, S) \in Files
BY DEF Without, Files

LEMMA CloseTypes ==
  ASSUME TypeOK, NEW table \in Files, Close(table)
  PROVE  files' \in Files /\ epoll' \subseteq Registrations /\ fresh' \subseteq epoll'
BY DEF Close, Alive, TypeOK

LEMMA RegisterTypes ==
  ASSUME TypeOK, NEW table \in Files, NEW after \in Files, NEW fd \in Fds,
         NEW id \in Nat \ {0}, Register(table, fd, id, after)
  PROVE  files' \in Files /\ epoll' \subseteq Registrations /\ fresh' \subseteq epoll'
<1>1. Registrable(table, fd, id) \subseteq Registrations
  BY NoneAssumption DEF Registrable, Registrations, Files
<1> QED BY <1>1 DEF Register, Alive, TypeOK

LEMMA EndsTypes ==
  ASSUME TypeOK, NEW label \in {"exited", "panicked"}, NEW S, Ends(label, S),
         chan' \in Seq(Operations \cup {Poll})
  PROVE  TypeOK'
<1>1. files' \in Files
  BY WithoutTypes DEF Ends, TypeOK, Files
<1>2. NoEntry \in Entries
  BY DEF NoEntry, Entries
<1>3. event_src_ids' \in [Fds -> Entries]
  BY <1>2 DEF Ends
<1>4. tokens' \in Seq(Operations) /\ epoll' \subseteq Registrations /\ fresh' \subseteq epoll'
  BY DEF Ends
<1>5. events' \subseteq Registrations /\ pc' \in {"exited", "panicked"}
  BY DEF Ends
<1>6. UNCHANGED <<manner, failed, clientVars, waiting, arrivals, inbox, listening, shutdown>>
  BY DEF Ends
<1> QED BY <1>1, <1>3, <1>4, <1>5, <1>6 DEF TypeOK, Files, clientVars

\* What push_token_entry leaves alone has its type still.
LEMMA PushTypes ==
  ASSUME TypeOK, pc' = "check", UNCHANGED pushUnchanged,
         chan' \in Seq(Operations \cup {Poll}),
         tokens' \in Seq(Operations), event_src_ids' \in [Fds -> Entries],
         files' \in Files, epoll' \subseteq Registrations, fresh' \subseteq epoll'
  PROVE  TypeOK'
BY DEF TypeOK, pushUnchanged, clientVars, Files

LEMMA InitTypes == Init => TypeOK
<1> SUFFICES ASSUME Init PROVE TypeOK
  OBVIOUS
<1>1. event_src_ids \in [Fds -> Entries]
  BY DEF Init, NoEntry, Entries
<1>2. /\ chan \in Seq(Operations \cup {Poll})
      /\ tokens \in Seq(Operations)
      /\ inbox \in [Notifiers -> Seq(Sources)]
  BY DEF Init
<1>3. files \in [Fds -> Sources \cup {None}] /\ asked \in [Sources -> Nat] /\ arrivals \in [Sources -> Nat]
  BY DEF Init
<1> QED BY <1>1, <1>2, <1>3 DEF Init, TypeOK

LEMMA PollerTypes == TypeOK /\ PollerStep => TypeOK'
<1> SUFFICES ASSUME TypeOK, PollerStep PROVE TypeOK'
  OBVIOUS
<1>f. files \in Files
  BY DEF TypeOK, Files
<1>1. ASSUME NEW o, RecvFdAdd(o) PROVE TypeOK'
  <2>1. o \in Operations /\ chan' \in Seq(Operations \cup {Poll})
    BY <1>1, ReceivedTypes DEF RecvFdAdd, Handles
  <2> DEFINE token == Submit("FdAdd", o.fd, NotifierFor(o))
             kept == Without(files, Overwritten(o))
  <2>2. token \in Operations /\ kept \in Files /\ o.fd \in Fds
    BY <1>f, <2>1, SlotTypes, OperationTypes, WithoutTypes DEF Operations, Kinds
  <2>3. tokens' \in Seq(Operations) /\ event_src_ids' \in [Fds -> Entries]
    BY <1>1, <2>1, <2>2, StoreTypes, EntryTypes DEF RecvFdAdd, Handles, Store, TypeOK
  <2>4. files' \in Files /\ epoll' \subseteq Registrations /\ fresh' \subseteq epoll'
    BY <1>1, <2>1, <2>2, SlotTypes, RegisterTypes DEF RecvFdAdd
  <2> QED BY <1>1, <2>1, <2>3, <2>4, PushTypes DEF RecvFdAdd, Handles
<1>2. ASSUME NEW o, NEW clone \in Fds, RecvTcpAdd(o, clone) PROVE TypeOK'
  <2>1. o \in Operations /\ chan' \in Seq(Operations \cup {Poll})
    BY <1>2, ReceivedTypes DEF RecvTcpAdd, Handles
  <2> DEFINE token == Submit("TcpAdd", clone, NotifierFor(o))
             kept == Without([files EXCEPT ![clone] = files[o.fd]], Overwritten(o))
  <2>2. token \in Operations /\ o.fd \in Fds
    BY <2>1, SlotTypes, OperationTypes DEF Operations, Kinds
  <2>3. kept \in Files /\ Without(kept, {o.fd}) \in Files
    BY <1>f, <2>2, WithoutTypes DEF Files
  <2>4. tokens' \in Seq(Operations) /\ event_src_ids' \in [Fds -> Entries]
    BY <1>2, <2>1, <2>2, StoreTypes, EntryTypes DEF RecvTcpAdd, Handles, Store, TypeOK, Operations
  <2>5. files' \in Files /\ epoll' \subseteq Registrations /\ fresh' \subseteq epoll'
    BY <1>2, <2>1, <2>2, <2>3, SlotTypes, RegisterTypes DEF RecvTcpAdd
  <2> QED BY <1>2, <2>1, <2>4, <2>5, PushTypes DEF RecvTcpAdd, Handles
<1>3. ASSUME NEW o, RecvTcpFails(o) PROVE TypeOK'
  <2>1. o \in Operations /\ chan' \in Seq(Operations \cup {Poll})
    BY <1>3, ReceivedTypes DEF RecvTcpFails, Handles
  <2>2. files' \in Files /\ epoll' \subseteq Registrations /\ fresh' \subseteq epoll'
    BY <1>3, <1>f, WithoutTypes, CloseTypes DEF RecvTcpFails
  <2>3. event_src_ids' \in [Fds -> Entries]
    BY <1>3, <2>1, EntryTypes DEF RecvTcpFails, Slot, TypeOK, Operations
  <2> QED BY <1>3, <2>1, <2>2, <2>3 DEF RecvTcpFails, Handles, TypeOK, Files, clientVars
<1>4. ASSUME NEW o, RecvModify(o) PROVE TypeOK'
  <2>1. o \in Operations /\ chan' \in Seq(Operations \cup {Poll})
    BY <1>4, ReceivedTypes DEF RecvModify, Handles
  <2>2. files' \in Files /\ epoll' \subseteq Registrations /\ fresh' \subseteq epoll'
    BY <1>4, <1>f, WithoutTypes, CloseTypes DEF RecvModify
  <2>3. /\ Submit("Modify", o.fd, NotifierFor(o)) \in Operations
        /\ o.fd \notin Known => NotifierFor(o) = o.notify
    BY <2>1, SlotTypes, OperationTypes DEF Operations, Kinds, NotifierFor
  <2>4. tokens' \in Seq(Operations)
    BY <1>4, <2>1, <2>3, StoreTypes DEF RecvModify, Handles
  <2>5. event_src_ids[o.fd].notify \in Notifiers \cup {None}
        /\ o.notify \in Notifiers \cup {None}
    BY <2>1 DEF TypeOK, Operations, Entries
  <2>6. event_src_ids' \in [Fds -> Entries]
    BY <1>4, <2>1, <2>5, EntryTypes DEF RecvModify
  <2> QED BY <1>4, <2>1, <2>2, <2>4, <2>6, PushTypes DEF RecvModify, Handles
<1>5. ASSUME NEW o, RecvPanics(o) PROVE TypeOK'
  BY <1>5, ReceivedTypes, EndsTypes DEF RecvPanics
<1>6. ASSUME NEW o, RecvPoll(o) PROVE TypeOK'
  <2>1. chan' \in Seq(Operations \cup {Poll})
    BY <1>6, ReceivedTypes DEF RecvPoll
  <2> QED BY <1>6, <2>1 DEF RecvPoll, TypeOK, clientVars, tableVars
<1>7. ASSUME NEW r \in events, Deliver(r) PROVE TypeOK'
  <2>1. r.src \in Sources
    BY DEF TypeOK, Registrations
  <2> DEFINE n == tokens[r.id].notify
  <2>a. \A m \in Notifiers : Append(inbox[m], r.src) \in Seq(Sources)
    BY <2>1 DEF TypeOK
  <2>b. inbox' = inbox \/ inbox' = [inbox EXCEPT ![n] = Append(@, r.src)]
    BY <1>7 DEF Deliver
  <2>c. inbox \in [Notifiers -> Seq(Sources)]
    BY DEF TypeOK
  <2> HIDE DEF n
  <2>2. inbox' \in [Notifiers -> Seq(Sources)]
    BY <2>a, <2>b, <2>c
  <2>3. events' \subseteq Registrations
    BY <1>7 DEF Deliver, TypeOK
  <2> QED BY <1>7, <2>2, <2>3 DEF Deliver, TypeOK, clientVars, kernelVars, tableVars
<1>8. ASSUME NEW r \in events, DeliverPanics(r) PROVE TypeOK'
  BY <1>8, EndsTypes DEF DeliverPanics, TypeOK
<1>9. CASE PollDone \/ RecvNothing \/ Continue
  BY <1>9 DEF PollDone, RecvNothing, Continue, Goto, TypeOK, pushUnchanged, clientVars,
              kernelVars, tableVars
<1>10. CASE Check
  BY <1>9, <1>10, EndsTypes DEF Check, TypeOK
<1> QED
  BY <1>1, <1>2, <1>3, <1>4, <1>5, <1>6, <1>7, <1>8, <1>9, <1>10 DEF PollerStep

LEMMA SourceTypes ==
  ASSUME TypeOK, NEW s \in Sources,
         \/ Arrive(s)
         \/ \E fd \in Fds : Open(s, fd) \/ \E kind \in Kinds : Ask(kind, s, fd)
  PROVE  TypeOK'
<1>1. CASE Arrive(s)
  BY <1>1 DEF Arrive, TypeOK, clientVars, tableVars
<1>2. ASSUME NEW fd \in Fds, Open(s, fd) PROVE TypeOK'
  BY <1>2 DEF Open, TypeOK, tableVars
<1>3. ASSUME NEW fd \in Fds, NEW kind \in Kinds, Ask(kind, s, fd) PROVE TypeOK'
  <2>1. Notify[s] \in Notifiers \cup {None}
    BY NotifiersAssumption
  <2>2. Submit(kind, fd, Notify[s]) \in Operations \cup {Poll}
    BY <2>1, OperationTypes
  <2>3. asked' \in [Sources -> Nat] /\ mine' \subseteq Fds
    BY <1>3 DEF Ask, TypeOK
  <2>4. CASE UNCHANGED kernelVars /\ chan' = Append(chan, Submit(kind, fd, Notify[s]))
    <3>1. chan' \in Seq(Operations \cup {Poll})
      BY <2>2, <2>4 DEF TypeOK
    <3> QED BY <1>3, <2>3, <2>4, <3>1 DEF Ask, TypeOK, tableVars, kernelVars
  <2>5. CASE Close(Without(files, mine \ mine')) /\ UNCHANGED chan
    <3>1. files' \in Files /\ epoll' \subseteq Registrations /\ fresh' \subseteq epoll'
      BY <2>5, WithoutTypes, CloseTypes DEF TypeOK, Files
    <3> QED BY <1>3, <2>3, <2>5, <3>1 DEF Ask, TypeOK, tableVars, Files
  <2> QED BY <1>3, <2>4, <2>5 DEF Ask
<1> QED BY <1>1, <1>2, <1>3

LEMMA CloseFdTypes ==
  ASSUME TypeOK, NEW fd \in Fds, CloseFd(fd)
  PROVE  TypeOK'
<1>1. files' \in Files /\ epoll' \subseteq Registrations /\ fresh' \subseteq epoll'
  BY WithoutTypes, CloseTypes DEF CloseFd, TypeOK, Files
<1> QED BY <1>1 DEF CloseFd, TypeOK, tableVars, Files

LEMMA NotifierTypes ==
  ASSUME TypeOK, NEW n \in Notifiers, Receive(n) \/ Quit(n)
  PROVE  TypeOK'
<1>1. CASE Receive(n)
  <2>1. inbox' \in [Notifiers -> Seq(Sources)]
    BY <1>1 DEF Receive, TypeOK
  <2> QED BY <1>1, <2>1 DEF Receive, TypeOK, clientVars, kernelVars, tableVars
<1>2. CASE Quit(n)
  BY <1>2 DEF Quit, TypeOK, clientVars, kernelVars, tableVars
<1> QED BY <1>1, <1>2

LEMMA ExecutorTypes ==
  ASSUME TypeOK, SendPoll \/ Shutdown
  PROVE  TypeOK'
<1>1. CASE SendPoll
  <2>1. chan' \in Seq(Operations \cup {Poll})
    BY <1>1 DEF SendPoll, TypeOK
  <2> QED BY <1>1, <2>1 DEF SendPoll, TypeOK, clientVars, kernelVars, tableVars
<1>2. CASE Shutdown
  BY <1>2 DEF Shutdown, TypeOK, clientVars, kernelVars, tableVars
<1> QED BY <1>1, <1>2

LEMMA NextTypes == TypeOK /\ [Next]_vars => TypeOK'
<1> SUFFICES ASSUME TypeOK, [Next]_vars PROVE TypeOK'
  OBVIOUS
<1>1. CASE UNCHANGED vars
  BY <1>1 DEF vars, TypeOK, clientVars, kernelVars, tableVars
<1>2. CASE PollerStep
  BY <1>2, PollerTypes
<1>3. ASSUME NEW s \in Sources, \/ Arrive(s)
                                \/ \E fd \in Fds : \/ Open(s, fd)
                                                   \/ \E kind \in Kinds : Ask(kind, s, fd)
      PROVE  TypeOK'
  BY <1>3, SourceTypes
<1>4. ASSUME NEW fd \in Fds, CloseFd(fd) PROVE TypeOK'
  BY <1>4, CloseFdTypes
<1>5. ASSUME NEW n \in Notifiers, Receive(n) \/ Quit(n) PROVE TypeOK'
  BY <1>5, NotifierTypes
<1>6. CASE SendPoll \/ Shutdown
  BY <1>6, ExecutorTypes
<1> QED BY <1>1, <1>2, <1>3, <1>4, <1>5, <1>6 DEF Next

\* Every variable keeps its type, whatever clients do and whatever fails.
THEOREM PollerTypeCorrect == Spec => []TypeOK
<1> QED BY InitTypes, NextTypes, PTL DEF Spec

-----------------------------------------------------------------------------
(* Ids.                                                                    *)

\* The thread's own tables are the only ones IdsApart is about.
LEMMA TablesKept ==
  ASSUME IdsApart, UNCHANGED <<failed, tableVars>>
  PROVE  IdsApart'
BY DEF IdsApart, Known, Vacant, tableVars

\* An operation that leaves its number the id of the slot its token went to.
LEMMA StoredApart ==
  ASSUME TypeOK, IdsApart, UNCHANGED failed, NEW o \in Operations, ~Vacant(o.fd),
         NEW token \in Operations, NEW n \in Notifiers \cup {None},
         tokens' = IF o.fd \in Known THEN [tokens EXCEPT ![Slot(o)] = token]
                                     ELSE Append(tokens, token),
         \/ o.fd \in Known /\ UNCHANGED event_src_ids
         \/ event_src_ids' = [event_src_ids EXCEPT ![o.fd] = [id |-> Slot(o), notify |-> n]]
  PROVE  IdsApart'
<1>1. /\ DOMAIN tokens' = DOMAIN tokens \cup {Slot(o)}
      /\ o.fd \notin Known => Slot(o) \notin DOMAIN tokens
  BY StoreTypes
<1>2. o.fd \in Fds /\ event_src_ids \in [Fds -> Entries]
  BY DEF Operations, TypeOK
<1>3. event_src_ids'[o.fd].id = Slot(o)
  BY <1>2 DEF Slot
<1>4. \A fd \in Fds \ {o.fd} : event_src_ids'[fd] = event_src_ids[fd]
  BY <1>2
<1>5. o.fd \in Known => event_src_ids[o.fd].id = Slot(o)
  BY DEF Slot
<1>6. SUFFICES ASSUME ~failed
               PROVE  \A fd \in Known' : /\ ~Vacant(fd)'
                                         /\ \A other \in Known' :
                                              event_src_ids'[other].id = event_src_ids'[fd].id => other = fd
  BY DEF IdsApart
<1>7. \A fd \in Known : /\ event_src_ids[fd].id \in DOMAIN tokens
                        /\ \A other \in Known : event_src_ids[other].id = event_src_ids[fd].id => other = fd
  BY <1>6 DEF IdsApart, Vacant
<1>8. Known' \subseteq Known \cup {o.fd}
  BY <1>4 DEF Known
<1>9. \A fd \in Known' \ {o.fd} : fd \in Known /\ fd \in Fds \ {o.fd}
  BY <1>8 DEF Known
<1>10. \A fd \in Known' : ~Vacant(fd)'
  BY <1>1, <1>3, <1>4, <1>7, <1>9 DEF Vacant
<1>11. \A fd, other \in Known' : event_src_ids'[other].id = event_src_ids'[fd].id => other = fd
  BY <1>1, <1>3, <1>4, <1>5, <1>7, <1>9
<1> QED BY <1>10, <1>11

LEMMA EndsApart == \A label, S : Ends(label, S) => IdsApart'
BY DEF Ends, IdsApart, Known, NoEntry

LEMMA NextApart == TypeOK /\ IdsApart /\ [Next]_vars => IdsApart'
<1> SUFFICES ASSUME TypeOK, IdsApart, [Next]_vars PROVE IdsApart'
  OBVIOUS
<1>1. ASSUME NEW o, RecvFdAdd(o) PROVE IdsApart'
  <2>1. o \in Operations
    BY <1>1, ReceivedTypes DEF RecvFdAdd, Handles
  <2>2. Submit("FdAdd", o.fd, NotifierFor(o)) \in Operations
    BY <2>1, SlotTypes, OperationTypes DEF Operations, Kinds
  <2> QED BY <1>1, <2>1, <2>2, StoredApart DEF RecvFdAdd, Handles, Store, pushUnchanged
<1>2. ASSUME NEW o, NEW clone \in Fds, RecvTcpAdd(o, clone) PROVE IdsApart'
  <2>1. o \in Operations
    BY <1>2, ReceivedTypes DEF RecvTcpAdd, Handles
  <2>2. /\ Submit("TcpAdd", clone, NotifierFor(o)) \in Operations
        /\ o.notify \in Notifiers \cup {None}
    BY <2>1, SlotTypes, OperationTypes DEF Operations, Kinds
  <2> QED BY <1>2, <2>1, <2>2, StoredApart DEF RecvTcpAdd, Handles, Store, pushUnchanged
<1>3. ASSUME NEW o, RecvTcpFails(o) PROVE IdsApart'
  BY <1>3 DEF RecvTcpFails, IdsApart
<1>4. ASSUME NEW o, RecvModify(o) PROVE IdsApart'
  <2>1. o \in Operations
    BY <1>4, ReceivedTypes DEF RecvModify, Handles
  <2>2. /\ Submit("Modify", o.fd, NotifierFor(o)) \in Operations
        /\ o.notify \in Notifiers \cup {None}
        /\ event_src_ids[o.fd].notify \in Notifiers \cup {None}
        /\ o.fd \notin Known => NotifierFor(o) = o.notify
    BY <2>1, SlotTypes, OperationTypes DEF Operations, Kinds, NotifierFor, TypeOK, Entries
  <2> QED BY <1>4, <2>1, <2>2, StoredApart DEF RecvModify, Handles, pushUnchanged
<1>5. ASSUME NEW o, RecvPanics(o) PROVE IdsApart'
  BY <1>5, EndsApart DEF RecvPanics
<1>6. ASSUME NEW o, RecvPoll(o) PROVE IdsApart'
  BY <1>6, TablesKept DEF RecvPoll
<1>7. ASSUME NEW r \in events, Deliver(r) \/ DeliverPanics(r) PROVE IdsApart'
  BY <1>7, TablesKept, EndsApart DEF Deliver, DeliverPanics
<1>8. CASE PollDone \/ RecvNothing \/ Check
  BY <1>8, TablesKept, EndsApart DEF PollDone, RecvNothing, Check, Continue, pushUnchanged
<1>9. CASE PollerStep
  BY <1>1, <1>2, <1>3, <1>4, <1>5, <1>6, <1>7, <1>8, <1>9 DEF PollerStep
<1>10. ASSUME NEW s \in Sources, \/ Arrive(s)
                                 \/ \E fd \in Fds : \/ Open(s, fd)
                                                    \/ \E kind \in Kinds : Ask(kind, s, fd)
       PROVE  IdsApart'
  BY <1>10, TablesKept DEF Arrive, Open, Ask
<1>11. ASSUME NEW fd \in Fds, CloseFd(fd) PROVE IdsApart'
  BY <1>11, TablesKept DEF CloseFd
<1>12. ASSUME NEW n \in Notifiers, Receive(n) \/ Quit(n) PROVE IdsApart'
  BY <1>12, TablesKept DEF Receive, Quit
<1>13. CASE SendPoll \/ Shutdown \/ UNCHANGED vars
  BY <1>13, TablesKept DEF SendPoll, Shutdown, vars
<1> QED BY <1>9, <1>10, <1>11, <1>12, <1>13 DEF Next

\* No index into the slab panics and no two numbers share a token until a
\* try_clone has failed (Poller::push_token_entry), whatever clients do.
THEOREM TokensApart == Spec => []IdsApart
<1>1. Init => IdsApart
  BY DEF Init, IdsApart, Known, NoEntry
<1> QED BY <1>1, InitTypes, NextTypes, NextApart, PTL DEF Spec

-----------------------------------------------------------------------------
(* Descriptors.                                                            *)

Opened == {fd \in Fds : files[fd] # None}

OneEach(table) == \A i, j \in DOMAIN table :
  table[i].op = "TcpAdd" /\ table[j].op = "TcpAdd" /\ table[i].fd = table[j].fd => i = j

LEMMA AccountedParts ==
  Accounted <=> /\ Opened = mine \cup InTransit \cup Listeners
                /\ mine \cap InTransit = {}
                /\ (mine \cup InTransit) \cap Listeners = {}
                /\ OneEach(chan)
                /\ OneEach(tokens)
BY DEF Accounted, Opened, OneEach

LEMMA AccountedPrime ==
  Accounted' <=> /\ Opened' = mine' \cup InTransit' \cup Listeners'
                 /\ mine' \cap InTransit' = {}
                 /\ (mine' \cup InTransit') \cap Listeners' = {}
                 /\ OneEach(chan')
                 /\ OneEach(tokens')
BY DEF Accounted, Opened, OneEach

\* The listener of an operation that is received is on its way no more.
LEMMA ReceivedTransit ==
  ASSUME TypeOK, Accounted, NEW o, Received(o)
  PROVE  /\ OneEach(chan')
         /\ InTransit' = InTransit \ {fd \in {o.fd} : o.op = "TcpAdd"}
         /\ o.op = "TcpAdd" => o.fd \in InTransit
<1>1. chan \in Seq(Operations \cup {Poll}) /\ chan # <<>> /\ o = Head(chan) /\ chan' = Tail(chan)
  BY DEF TypeOK, Received
<1> HIDE DEF Poll
<1>2. /\ DOMAIN chan = 1 .. Len(chan) /\ Len(chan) \in Nat \ {0}
      /\ DOMAIN chan' = 1 .. Len(chan) - 1
      /\ \A i \in 1 .. Len(chan) - 1 : chan'[i] = chan[i + 1]
      /\ o = chan[1]
  BY <1>1
<1>3. OneEach(chan)
  BY AccountedParts
<1>4. OneEach(chan')
  <2> SUFFICES ASSUME NEW i \in DOMAIN chan', NEW j \in DOMAIN chan',
                      chan'[i].op = "TcpAdd", chan'[j].op = "TcpAdd", chan'[i].fd = chan'[j].fd
               PROVE  i = j
    BY DEF OneEach
  <2>1. i + 1 \in DOMAIN chan /\ j + 1 \in DOMAIN chan /\ chan'[i] = chan[i + 1] /\ chan'[j] = chan[j + 1]
    BY <1>2
  <2>2. i + 1 = j + 1
    BY <1>3, <2>1 DEF OneEach
  <2> QED BY <1>2, <2>2
<1>5. o.op = "TcpAdd" => o.fd \in InTransit
  BY <1>2 DEF InTransit
<1>6. ASSUME NEW fd \in InTransit' PROVE fd \in InTransit /\ ~(o.op = "TcpAdd" /\ fd = o.fd)
  <2>1. PICK i \in DOMAIN chan' : chan'[i].op = "TcpAdd" /\ chan'[i].fd = fd
    BY <1>6 DEF InTransit
  <2>2. i + 1 \in DOMAIN chan /\ chan[i + 1] = chan'[i] /\ i + 1 # 1 /\ 1 \in DOMAIN chan
    BY <1>2
  <2> QED BY <1>2, <1>3, <2>1, <2>2 DEF InTransit, OneEach
<1>7. ASSUME NEW fd \in InTransit, ~(o.op = "TcpAdd" /\ fd = o.fd) PROVE fd \in InTransit'
  <2>1. PICK i \in DOMAIN chan : chan[i].op = "TcpAdd" /\ chan[i].fd = fd
    BY DEF InTransit
  <2>2. i # 1
    BY <1>2, <1>7, <2>1
  <2>3. i - 1 \in DOMAIN chan' /\ chan'[i - 1] = chan[i]
    BY <1>2, <2>2
  <2> QED BY <2>1, <2>3 DEF InTransit
<1> QED BY <1>4, <1>5, <1>6, <1>7

\* Where the token of o goes, the listener of the token before is dropped.
LEMMA StoredListeners ==
  ASSUME TypeOK, Accounted, NEW o \in Operations, NEW token \in Operations, ~Vacant(o.fd),
         tokens' = IF o.fd \in Known THEN [tokens EXCEPT ![Slot(o)] = token]
                                     ELSE Append(tokens, token),
         token.op = "TcpAdd" => token.fd \notin Listeners
  PROVE  /\ OneEach(tokens')
         /\ Overwritten(o) \subseteq Listeners
         /\ Listeners' = (Listeners \ Overwritten(o)) \cup {fd \in {token.fd} : token.op = "TcpAdd"}
<1>1. /\ DOMAIN tokens' = DOMAIN tokens \cup {Slot(o)}
      /\ tokens'[Slot(o)] = token
      /\ \A i \in DOMAIN tokens : i # Slot(o) => tokens'[i] = tokens[i]
      /\ o.fd \in Known <=> Slot(o) \in DOMAIN tokens
  BY StoreTypes
<1>2. OneEach(tokens)
  BY AccountedParts
<1>3. \A fd : fd \in Overwritten(o) <=>
        Slot(o) \in DOMAIN tokens /\ tokens[Slot(o)].op = "TcpAdd" /\ fd = tokens[Slot(o)].fd
  BY <1>1 DEF Overwritten
<1>4. Overwritten(o) \subseteq Listeners
  BY <1>3 DEF Listeners
<1>5. OneEach(tokens')
  BY <1>1, <1>2 DEF OneEach, Listeners
<1>6. ASSUME NEW fd \in Listeners'
      PROVE  fd \in Listeners \ Overwritten(o) \/ (token.op = "TcpAdd" /\ fd = token.fd)
  <2>1. PICK i \in DOMAIN tokens' : tokens'[i].op = "TcpAdd" /\ tokens'[i].fd = fd
    BY <1>6 DEF Listeners
  <2> QED BY <1>1, <1>2, <1>3, <2>1 DEF Listeners, OneEach
<1>7. ASSUME NEW fd, fd \in Listeners \ Overwritten(o) \/ (token.op = "TcpAdd" /\ fd = token.fd)
      PROVE  fd \in Listeners'
  <2>1. CASE fd \in Listeners \ Overwritten(o)
    <3>1. PICK i \in DOMAIN tokens : tokens[i].op = "TcpAdd" /\ tokens[i].fd = fd
      BY <2>1 DEF Listeners
    <3>2. i # Slot(o)
      BY <1>3, <2>1, <3>1
    <3> QED BY <1>1, <3>1, <3>2 DEF Listeners
  <2>2. CASE token.op = "TcpAdd" /\ fd = token.fd
    BY <1>1, <2>2 DEF Listeners
  <2> QED BY <1>7, <2>1, <2>2
<1> QED BY <1>4, <1>5, <1>6, <1>7

LEMMA WithoutOpened ==
  ASSUME NEW table \in Files, NEW S, files' = Without(table, S)
  PROVE  Opened' = {fd \in Fds : table[fd] # None} \ S
BY DEF Opened, Without

LEMMA EndsAccounted ==
  ASSUME TypeOK, Accounted, NEW label, NEW S, Ends(label, S), OneEach(chan'),
         InTransit' = InTransit \ S, S \subseteq InTransit
  PROVE  Accounted'
<1>1. Opened' = Opened \ (Listeners \cup S)
  BY WithoutOpened DEF Ends, TypeOK, Files, Opened
<1>2. Listeners' = {} /\ OneEach(tokens') /\ mine' = mine
  BY DEF Ends, Listeners, OneEach, clientVars
<1> QED BY <1>1, <1>2, AccountedParts, AccountedPrime

\* Neither the numbers in use nor who has them.
LEMMA AccountedKept ==
  ASSUME Accounted, UNCHANGED <<files, mine, chan, tokens>>
  PROVE  Accounted'
BY DEF Accounted, InTransit, Listeners

LEMMA PollerAccounted == TypeOK /\ Accounted /\ PollerStep => Accounted'
<1> SUFFICES ASSUME TypeOK, Accounted, PollerStep PROVE Accounted'
  OBVIOUS
<1>f. files \in Files
  BY DEF TypeOK, Files
<1>1. ASSUME NEW o, RecvFdAdd(o) PROVE Accounted'
  <2>1. o \in Operations /\ ~Vacant(o.fd) /\ o.op = "FdAdd" /\ Received(o)
    BY <1>1, ReceivedTypes DEF RecvFdAdd, Handles
  <2> DEFINE token == Submit("FdAdd", o.fd, NotifierFor(o))
  <2>2. token \in Operations /\ token.op # "TcpAdd"
    BY <2>1, SlotTypes, OperationTypes DEF Operations, Kinds, Submit
  <2>3. Listeners' = Listeners \ Overwritten(o) /\ OneEach(tokens') /\ Overwritten(o) \subseteq Listeners
    BY <1>1, <2>1, <2>2, StoredListeners DEF RecvFdAdd, Store
  <2>4. Opened' = Opened \ Overwritten(o)
    BY <1>1, <1>f, WithoutOpened DEF RecvFdAdd, Register, Opened
  <2>5. InTransit' = InTransit /\ OneEach(chan') /\ mine' = mine
    BY <1>1, <2>1, ReceivedTransit DEF RecvFdAdd, pushUnchanged, clientVars
  <2> QED BY <2>3, <2>4, <2>5, AccountedParts, AccountedPrime
<1>2. ASSUME NEW o, NEW clone \in Fds, RecvTcpAdd(o, clone) PROVE Accounted'
  <2>1. o \in Operations /\ ~Vacant(o.fd) /\ o.op = "TcpAdd" /\ Received(o)
    BY <1>2, ReceivedTypes DEF RecvTcpAdd, Handles
  <2> DEFINE token == Submit("TcpAdd", clone, NotifierFor(o))
             cloned == [files EXCEPT ![clone] = files[o.fd]]
  <2>2. token \in Operations /\ token.op = "TcpAdd" /\ token.fd = clone
    BY <2>1, SlotTypes, OperationTypes DEF Operations, Kinds, Submit
  <2>3. clone \notin Opened
    BY <1>2 DEF RecvTcpAdd, Lowest, Free, Opened
  <2>4. /\ Listeners' = (Listeners \ Overwritten(o)) \cup {clone}
        /\ OneEach(tokens')
        /\ Overwritten(o) \subseteq Listeners
    <3>1. token.fd \notin Listeners
      BY <2>2, <2>3, AccountedParts
    <3>2. tokens' = IF o.fd \in Known THEN [tokens EXCEPT ![Slot(o)] = token] ELSE Append(tokens, token)
      BY <1>2 DEF RecvTcpAdd, Store
    <3> HIDE DEF token
    <3> QED BY <2>1, <2>2, <3>1, <3>2, StoredListeners
  <2>5. InTransit' = InTransit \ {o.fd} /\ OneEach(chan') /\ mine' = mine /\ o.fd \in InTransit
    BY <1>2, <2>1, ReceivedTransit DEF RecvTcpAdd, pushUnchanged, clientVars
  <2>6. o.fd \in Opened
    BY <2>5, AccountedParts
  <2>7. Opened' = ((Opened \cup {clone}) \ Overwritten(o)) \ {o.fd}
    <3>1. files' = Without(Without(cloned, Overwritten(o)), {o.fd})
      BY <1>2 DEF RecvTcpAdd, Register
    <3>2. \A fd \in Fds : cloned[fd] # None <=> fd \in Opened \cup {clone}
      BY <1>f, <2>6 DEF Opened, Files
    <3> HIDE DEF cloned
    <3> QED BY <3>1, <3>2 DEF Opened, Without
  <2> QED BY <2>3, <2>4, <2>5, <2>6, <2>7, AccountedParts, AccountedPrime
<1>3. ASSUME NEW o, RecvTcpFails(o) PROVE Accounted'
  <2>1. o.op = "TcpAdd" /\ Received(o)
    BY <1>3 DEF RecvTcpFails, Handles
  <2>2. Opened' = Opened \ {o.fd}
    BY <1>3, <1>f, WithoutOpened DEF RecvTcpFails, Close, Opened
  <2>3. InTransit' = InTransit \ {o.fd} /\ OneEach(chan') /\ o.fd \in InTransit
    BY <2>1, ReceivedTransit
  <2>4. Listeners' = Listeners /\ mine' = mine /\ OneEach(tokens')
    BY <1>3, AccountedParts DEF RecvTcpFails, Listeners, clientVars
  <2> QED BY <2>2, <2>3, <2>4, AccountedParts, AccountedPrime
<1>4. ASSUME NEW o, RecvModify(o) PROVE Accounted'
  <2>1. o \in Operations /\ ~Vacant(o.fd) /\ o.op = "Modify" /\ Received(o)
    BY <1>4, ReceivedTypes DEF RecvModify, Handles
  <2> DEFINE token == Submit("Modify", o.fd, NotifierFor(o))
  <2>2. /\ token \in Operations /\ token.op # "TcpAdd"
        /\ o.fd \notin Known => token = Submit("Modify", o.fd, o.notify)
    BY <2>1, SlotTypes, OperationTypes DEF Operations, Kinds, Submit, NotifierFor
  <2>3. Listeners' = Listeners \ Overwritten(o) /\ OneEach(tokens') /\ Overwritten(o) \subseteq Listeners
    <3>1. tokens' = IF o.fd \in Known THEN [tokens EXCEPT ![Slot(o)] = token] ELSE Append(tokens, token)
      BY <1>4, <2>2 DEF RecvModify
    <3> HIDE DEF token
    <3> QED BY <2>1, <2>2, <3>1, StoredListeners
  <2>4. Opened' = Opened \ Overwritten(o)
    BY <1>4, <1>f, WithoutOpened DEF RecvModify, Close, Opened
  <2>5. InTransit' = InTransit /\ OneEach(chan') /\ mine' = mine
    BY <1>4, <2>1, ReceivedTransit DEF RecvModify, pushUnchanged, clientVars
  <2> QED BY <2>3, <2>4, <2>5, AccountedParts, AccountedPrime
<1>5. ASSUME NEW o, RecvPanics(o) PROVE Accounted'
  <2> DEFINE S == {fd \in {o.fd} : o.op = "TcpAdd"}
  <2>1. InTransit' = InTransit \ S /\ OneEach(chan') /\ S \subseteq InTransit
    BY <1>5, ReceivedTransit DEF RecvPanics
  <2>2. Ends("panicked", S)
    <3>1. S = IF o.op = "TcpAdd" THEN {o.fd} ELSE {}
      OBVIOUS
    <3> QED BY <1>5, <3>1 DEF RecvPanics
  <2> HIDE DEF S
  <2> QED BY <2>1, <2>2, EndsAccounted
<1>6. ASSUME NEW o, RecvPoll(o) PROVE Accounted'
  <2>1. InTransit' = InTransit /\ OneEach(chan')
    BY <1>6, ReceivedTransit DEF RecvPoll
  <2>2. Opened' = Opened /\ Listeners' = Listeners /\ mine' = mine /\ tokens' = tokens
    BY <1>6 DEF RecvPoll, Opened, Listeners, clientVars, tableVars
  <2> QED BY <2>1, <2>2, AccountedParts, AccountedPrime
<1>7. ASSUME UNCHANGED chan
      PROVE  InTransit' = InTransit /\ (OneEach(chan) => OneEach(chan'))
  BY <1>7 DEF InTransit
<1>8. ASSUME NEW r \in events, Deliver(r) \/ DeliverPanics(r) PROVE Accounted'
  <2>1. CASE Deliver(r)
    BY <2>1, AccountedKept DEF Deliver, clientVars, kernelVars, tableVars
  <2>2. CASE DeliverPanics(r)
    BY <1>7, <2>2, EndsAccounted, AccountedParts DEF DeliverPanics
  <2> QED BY <1>8, <2>1, <2>2
<1>9. CASE PollDone \/ RecvNothing \/ Continue
  BY <1>9, AccountedKept DEF PollDone, RecvNothing, Continue, pushUnchanged, clientVars,
                             kernelVars, tableVars
<1>10. CASE Check
  BY <1>7, <1>9, <1>10, EndsAccounted, AccountedParts DEF Check
<1> QED
  BY <1>1, <1>2, <1>3, <1>4, <1>5, <1>6, <1>8, <1>9, <1>10 DEF PollerStep

LEMMA AskAccounted ==
  ASSUME TypeOK, Accounted, NEW kind \in Kinds, NEW s \in Sources, NEW fd \in Fds,
         Ask(kind, s, fd)
  PROVE  Accounted'
<1> DEFINE given == {f \in {fd} : kind = "TcpAdd"}
<1>1. mine' = mine \ given /\ given \subseteq mine /\ UNCHANGED tokens
  BY DEF Ask, Held, tableVars
<1>2. Listeners' = Listeners /\ OneEach(tokens')
  BY <1>1, AccountedParts DEF Listeners
<1>3. CASE chan' = Append(chan, Submit(kind, fd, Notify[s])) /\ UNCHANGED kernelVars
  <2>1. chan \in Seq(Operations \cup {Poll})
    BY DEF TypeOK
  <2>2. /\ DOMAIN chan' = DOMAIN chan \cup {Len(chan) + 1}
        /\ \A i \in DOMAIN chan : chan'[i] = chan[i] /\ i # Len(chan) + 1
        /\ chan'[Len(chan) + 1].op = kind /\ chan'[Len(chan) + 1].fd = fd
    BY <1>3, <2>1 DEF Submit
  <2>3. InTransit' = InTransit \cup given
    BY <2>2 DEF InTransit
  <2>4. given \cap InTransit = {} /\ OneEach(chan)
    BY <1>1, AccountedParts
  <2>5. OneEach(chan')
    BY <2>2, <2>4 DEF OneEach, InTransit
  <2>6. Opened' = Opened
    BY <1>3 DEF Opened, kernelVars
  <2> HIDE DEF given
  <2> QED BY <1>1, <1>2, <2>3, <2>5, <2>6, AccountedParts, AccountedPrime
<1>4. CASE Close(Without(files, mine \ mine')) /\ UNCHANGED chan
  <2>1. mine \ mine' = given
    BY <1>1
  <2> HIDE DEF given
  <2>2. files' = Without(files, given) /\ files \in Files
    BY <1>4, <2>1 DEF Close, TypeOK, Files
  <2>3. Opened' = Opened \ given
    BY <2>2, WithoutOpened DEF Opened
  <2>4. InTransit' = InTransit /\ OneEach(chan')
    BY <1>4, AccountedParts DEF InTransit
  <2> QED BY <1>1, <1>2, <2>3, <2>4, AccountedParts, AccountedPrime
<1> QED BY <1>3, <1>4 DEF Ask

LEMMA NextAccounted == TypeOK /\ Accounted /\ [Next]_vars => Accounted'
<1> SUFFICES ASSUME TypeOK, Accounted, [Next]_vars PROVE Accounted'
  OBVIOUS
<1>1. CASE PollerStep
  BY <1>1, PollerAccounted
<1>2. ASSUME NEW s \in Sources, Arrive(s) PROVE Accounted'
  BY <1>2, AccountedKept DEF Arrive, clientVars, tableVars
<1>3. ASSUME NEW s \in Sources, NEW fd \in Fds, Open(s, fd) PROVE Accounted'
  <2>1. fd \notin Opened
    BY <1>3 DEF Open, Lowest, Free, Opened
  <2>2. Opened' = Opened \cup {fd} /\ mine' = mine \cup {fd}
    BY <1>3, NoneAssumption DEF Open, Opened, TypeOK
  <2>3. UNCHANGED <<chan, tokens>>
    BY <1>3 DEF Open, tableVars
  <2>4. InTransit' = InTransit /\ Listeners' = Listeners
    BY <2>3 DEF InTransit, Listeners
  <2> QED BY <2>1, <2>2, <2>3, <2>4, AccountedParts, AccountedPrime
<1>4. ASSUME NEW s \in Sources, NEW fd \in Fds, NEW kind \in Kinds, Ask(kind, s, fd)
      PROVE  Accounted'
  BY <1>4, AskAccounted
<1>5. ASSUME NEW fd \in Fds, CloseFd(fd) PROVE Accounted'
  <2>1. Opened' = Opened \ {fd} /\ mine' = mine \ {fd} /\ fd \in mine
    BY <1>5, WithoutOpened DEF CloseFd, Close, TypeOK, Files, Opened
  <2>2. UNCHANGED <<chan, tokens>>
    BY <1>5 DEF CloseFd, tableVars
  <2>3. InTransit' = InTransit /\ Listeners' = Listeners
    BY <2>2 DEF InTransit, Listeners
  <2> QED BY <2>1, <2>2, <2>3, AccountedParts, AccountedPrime
<1>6. ASSUME NEW n \in Notifiers, Receive(n) \/ Quit(n) PROVE Accounted'
  BY <1>6, AccountedKept DEF Receive, Quit, clientVars, kernelVars, tableVars
<1>7. CASE SendPoll
  <2>1. chan \in Seq(Operations \cup {Poll}) /\ chan' = Append(chan, Poll)
    BY <1>7 DEF SendPoll, TypeOK
  <2>2. /\ DOMAIN chan' = DOMAIN chan \cup {Len(chan) + 1}
        /\ \A i \in DOMAIN chan : chan'[i] = chan[i]
        /\ chan'[Len(chan) + 1].op # "TcpAdd"
    BY <2>1 DEF Poll
  <2>3. InTransit' = InTransit
    BY <2>2 DEF InTransit
  <2>4. OneEach(chan')
    BY <2>2, AccountedParts DEF OneEach
  <2>5. UNCHANGED <<files, mine, tokens>>
    BY <1>7 DEF SendPoll, clientVars, kernelVars, tableVars
  <2>6. Opened' = Opened /\ Listeners' = Listeners
    BY <2>5 DEF Opened, Listeners
  <2> QED BY <2>3, <2>4, <2>5, <2>6, AccountedParts, AccountedPrime
<1>8. CASE Shutdown \/ UNCHANGED vars
  BY <1>8, AccountedKept DEF Shutdown, vars, clientVars, kernelVars, tableVars
<1> QED BY <1>1, <1>2, <1>3, <1>4, <1>5, <1>6, <1>7, <1>8 DEF Next

LEMMA InitAccounted == Init => Accounted
<1> SUFFICES ASSUME Init PROVE Accounted
  OBVIOUS
<1>1. DOMAIN chan = {} /\ DOMAIN tokens = {} /\ mine = {} /\ \A fd \in Fds : files[fd] = None
  BY DEF Init
<1> QED BY <1>1 DEF Accounted, InTransit, Listeners

\* A descriptor is a client's, an operation's or a token's, and nobody else's:
\* the listeners register_tcp_socket moves, push_token_entry clones and drops
\* and the end of the thread drops are neither closed twice nor leaked.
THEOREM DescriptorsAccounted == Spec => []Accounted
<1> QED BY InitTypes, NextTypes, InitAccounted, NextAccounted, PTL DEF Spec

-----------------------------------------------------------------------------
(* Prepared clients.  A number in an operation on its way refers to the    *)
(* source the operation is for, is unknown to the poller and is in no      *)
(* other operation; the numbers clients could still register are in        *)
(* neither.  So no token is ever given away, and the token of a            *)
(* registration has the notifier of its source.                            *)

Ops == {i \in DOMAIN chan : chan[i] # Poll}

QueuedFresh ==
  Up => \A i \in Ops :
    LET fd == chan[i].fd IN
      /\ chan[i].op \in {"FdAdd", "TcpAdd"}
      /\ files[fd] \in Sources
      /\ chan[i].notify = Notify[files[fd]]
      /\ fd \notin Known
      /\ asked[files[fd]] > 0
      /\ \A j \in Ops : chan[j].fd = fd => j = i
AskedOnce == \A fd \in mine : /\ files[fd] \in Sources
                              /\ fd \in Known => asked[files[fd]] > 0
AskedFirst == Known # {} => \E s \in Sources : asked[s] > 0
RightToken == \A r \in epoll \cup events :
  r.id \in DOMAIN tokens /\ tokens[r.id].notify = Notify[r.src]

Prepared == QueuedFresh /\ AskedOnce /\ AskedFirst /\ RightToken /\ Own

LEMMA OpTypes == ASSUME TypeOK, NEW i \in Ops PROVE chan[i] \in Operations /\ chan[i].fd \in Fds
BY DEF Ops, TypeOK, Operations

\* What is received comes off the front, and the rest moves up by one.
LEMMA ReceivedOps ==
  ASSUME TypeOK, NEW o \in Operations, Received(o)
  PROVE  /\ 1 \in Ops /\ chan[1] = o
         /\ \A i \in Ops' : i \in Nat /\ i # 0 /\ i + 1 \in Ops /\ chan'[i] = chan[i + 1]
<1>1. chan \in Seq(Operations \cup {Poll}) /\ chan # <<>> /\ o = chan[1] /\ chan' = Tail(chan)
  BY DEF Received, TypeOK
<1>2. o # Poll
  BY OperationTypes
<1> HIDE DEF Poll
<1>3. Len(chan) \in Nat \ {0} /\ DOMAIN chan = 1 .. Len(chan)
  BY <1>1
<1>4. /\ DOMAIN chan' = 1 .. (Len(chan) - 1)
      /\ \A i \in 1 .. (Len(chan) - 1) : chan'[i] = chan[i + 1]
  BY <1>1
<1> QED BY <1>1, <1>2, <1>3, <1>4 DEF Ops

LEMMA HeadFresh ==
  ASSUME TypeOK, QueuedFresh, NEW o \in Operations, Received(o)
  PROVE  /\ o.op \in {"FdAdd", "TcpAdd"}
         /\ files[o.fd] \in Sources
         /\ o.notify = Notify[files[o.fd]]
         /\ o.fd \notin Known
         /\ asked[files[o.fd]] > 0
BY ReceivedOps DEF QueuedFresh, Received, Up

\* What remains in the channel stays fresh when what it says stays true of it.
LEMMA ReceivedFresh ==
  ASSUME TypeOK, QueuedFresh, NEW o \in Operations, Received(o), UNCHANGED asked,
         \A fd \in Fds : fd # o.fd /\ files[fd] # None => files'[fd] = files[fd],
         Known' \subseteq Known \cup {o.fd}
  PROVE  QueuedFresh'
<1>1. /\ \A i \in Ops' : i \in Nat /\ i # 0 /\ i + 1 \in Ops /\ chan'[i] = chan[i + 1]
      /\ 1 \in Ops /\ chan[1] = o
  BY ReceivedOps
<1>2. Up
  BY DEF Up, Received
<1>3. SUFFICES ASSUME NEW i \in Ops'
               PROVE  LET fd == chan'[i].fd IN
                        /\ chan'[i].op \in {"FdAdd", "TcpAdd"}
                        /\ files'[fd] \in Sources
                        /\ chan'[i].notify = Notify[files'[fd]]
                        /\ fd \notin Known'
                        /\ asked'[files'[fd]] > 0
                        /\ \A j \in Ops' : chan'[j].fd = fd => j = i
  BY DEF QueuedFresh
<1>4. i + 1 \in Ops /\ chan'[i] = chan[i + 1] /\ i + 1 # 1 /\ i \in Nat
  BY <1>1
<1> DEFINE k == i + 1
           fd == chan[k].fd
<1>5. /\ chan[k].op \in {"FdAdd", "TcpAdd"}
      /\ files[fd] \in Sources
      /\ chan[k].notify = Notify[files[fd]]
      /\ fd \notin Known
      /\ asked[files[fd]] > 0
      /\ \A j \in Ops : chan[j].fd = fd => j = k
  BY <1>2, <1>4 DEF QueuedFresh
<1>6. fd # o.fd /\ fd \in Fds
  BY <1>1, <1>4, <1>5, OpTypes
<1>7. files'[fd] = files[fd]
  BY <1>5, <1>6, NoneAssumption
<1>8. ASSUME NEW j \in Ops', chan'[j].fd = fd PROVE j = i
  <2>1. j \in Nat /\ j + 1 \in Ops /\ chan'[j] = chan[j + 1]
    BY <1>1
  <2>2. j + 1 = k
    BY <1>5, <1>8, <2>1
  <2> QED BY <1>4, <2>1, <2>2
<1> QED BY <1>4, <1>5, <1>6, <1>7, <1>8

\* What stays in the channel, and what only adds Polls to it.
LEMMA KeptFresh ==
  ASSUME QueuedFresh, Up' => Up, Ops' \subseteq Ops, \A i \in Ops' : chan'[i] = chan[i],
         UNCHANGED <<files, asked, event_src_ids>>
  PROVE  QueuedFresh'
BY DEF QueuedFresh, Known

\* A registration of a number that was unknown.
LEMMA RegisteredRight ==
  ASSUME TypeOK, RightToken, UNCHANGED events, NEW o \in Operations, o.fd \notin Known,
         files[o.fd] \in Sources, o.notify = Notify[files[o.fd]],
         NEW token \in Operations, token.notify = o.notify, tokens' = Append(tokens, token),
         NEW table, table[o.fd] = files[o.fd], NEW after, Register(table, o.fd, Slot(o), after)
  PROVE  RightToken'
<1>1. tokens \in Seq(Operations) /\ Slot(o) = Len(tokens) + 1
  BY DEF TypeOK, Slot, NextId
<1>2. /\ \A i \in DOMAIN tokens : i \in DOMAIN tokens' /\ tokens'[i] = tokens[i]
      /\ Slot(o) \in DOMAIN tokens' /\ tokens'[Slot(o)] = token
  BY <1>1
<1>3. \A r \in epoll' : r \in epoll \/ (r.id = Slot(o) /\ r.src = files[o.fd])
  BY DEF Register, Alive, Registrable
<1> QED BY <1>2, <1>3 DEF RightToken

LEMMA EndsPrepared ==
  ASSUME TypeOK, Prepared, NEW label \in {"exited", "panicked"}, NEW S, Ends(label, S),
         \A fd \in mine : fd \notin S \cup Listeners
  PROVE  Prepared'
<1>1. Known' = {} /\ ~Up'
  BY DEF Ends, Known, NoEntry, Up
<1>2. AskedOnce'
  BY <1>1 DEF Prepared, AskedOnce, Ends, clientVars, Without, TypeOK
<1> QED BY <1>1, <1>2 DEF Prepared, QueuedFresh, AskedFirst, RightToken, Own, Ends

\* What neither the clients' registrations nor the poller's tables take part in.
LEMMA PreparedKept ==
  ASSUME Prepared, UNCHANGED <<clientVars, tableVars, files, chan>>, Up' => Up,
         epoll' \cup events' \subseteq epoll \cup events, Own'
  PROVE  Prepared'
<1>1. Ops' = Ops /\ Known' = Known
  BY DEF Ops, Known, tableVars
<1>2. QueuedFresh'
  BY <1>1, KeptFresh DEF Prepared, tableVars, clientVars
<1> QED BY <1>1, <1>2 DEF Prepared, AskedOnce, AskedFirst, RightToken, clientVars, tableVars

LEMMA PollerPrepared ==
  ASSUME TypeOK, Accounted, Prepared, PollerStep
  PROVE  Prepared'
<1>f. /\ QueuedFresh /\ AskedOnce /\ AskedFirst /\ RightToken /\ Own
      /\ files \in Files /\ event_src_ids \in [Fds -> Entries]
      /\ tokens \in Seq(Operations)
  BY DEF Prepared, TypeOK, Files
<1>1. ASSUME NEW o, RecvFdAdd(o) PROVE Prepared'
  <2>1. o \in Operations /\ o.fd \in Fds /\ Received(o) /\ o.op = "FdAdd"
    BY <1>1, ReceivedTypes DEF RecvFdAdd, Handles, Operations
  <2>2. /\ files[o.fd] \in Sources
        /\ o.notify = Notify[files[o.fd]]
        /\ o.fd \notin Known
        /\ asked[files[o.fd]] > 0
    BY <1>f, <2>1, HeadFresh
  <2> DEFINE token == Submit("FdAdd", o.fd, NotifierFor(o))
             kept == Without(files, Overwritten(o))
  <2>3. kept = files
    BY <1>f, <2>2 DEF Overwritten, Without, Files
  <2>4. /\ files' = files /\ UNCHANGED <<mine, asked, inbox, events>>
        /\ Known' \subseteq Known \cup {o.fd}
    BY <1>1, <1>f, <2>3 DEF RecvFdAdd, Register, Known, Store, pushUnchanged, clientVars
  <2>5. token \in Operations /\ token.notify = o.notify /\ tokens' = Append(tokens, token)
    BY <1>1, <2>1, <2>2, SlotTypes, OperationTypes
       DEF RecvFdAdd, Store, Operations, Kinds, NotifierFor, Submit
  <2>6. Register(kept, o.fd, Slot(o), kept)
    BY <1>1 DEF RecvFdAdd
  <2> HIDE DEF token, kept
  <2>7. RightToken'
    BY <1>f, <2>1, <2>2, <2>3, <2>4, <2>5, <2>6, RegisteredRight
  <2>8. QueuedFresh'
    BY <1>f, <2>1, <2>4, ReceivedFresh
  <2>9. AskedOnce' /\ AskedFirst'
    BY <1>f, <2>2, <2>4 DEF AskedOnce, AskedFirst
  <2> QED BY <1>f, <2>4, <2>7, <2>8, <2>9 DEF Prepared, Own
<1>2. ASSUME NEW o, NEW clone \in Fds, RecvTcpAdd(o, clone) PROVE Prepared'
  <2>1. o \in Operations /\ o.fd \in Fds /\ Received(o) /\ o.op = "TcpAdd"
    BY <1>2, ReceivedTypes DEF RecvTcpAdd, Handles, Operations
  <2>2. /\ files[o.fd] \in Sources
        /\ o.notify = Notify[files[o.fd]]
        /\ o.fd \notin Known
        /\ asked[files[o.fd]] > 0
    BY <1>f, <2>1, HeadFresh
  <2>3. files[clone] = None
    BY <1>2 DEF RecvTcpAdd, Lowest, Free
  <2> DEFINE token == Submit("TcpAdd", clone, NotifierFor(o))
             kept == Without([files EXCEPT ![clone] = files[o.fd]], Overwritten(o))
             after == Without(kept, {o.fd})
  <2>4. /\ kept[o.fd] = files[o.fd]
        /\ \A fd \in Fds : fd # o.fd /\ files[fd] # None => after[fd] = files[fd]
    BY <1>f, <2>1, <2>2, <2>3 DEF Overwritten, Without, Files
  <2>5. /\ files' = after /\ UNCHANGED <<mine, asked, inbox, events>>
        /\ Known' \subseteq Known \cup {o.fd}
    BY <1>2, <1>f DEF RecvTcpAdd, Register, Known, Store, pushUnchanged, clientVars
  <2>6. token \in Operations /\ token.notify = o.notify /\ tokens' = Append(tokens, token)
    BY <1>2, <2>1, <2>2, SlotTypes, OperationTypes
       DEF RecvTcpAdd, Store, Operations, Kinds, NotifierFor, Submit
  <2>7. Register(kept, o.fd, Slot(o), after)
    BY <1>2 DEF RecvTcpAdd
  <2> HIDE DEF token, kept, after
  <2>8. RightToken'
    BY <1>f, <2>1, <2>2, <2>4, <2>5, <2>6, <2>7, RegisteredRight
  <2>9. QueuedFresh'
    BY <1>f, <2>1, <2>4, <2>5, ReceivedFresh
  <2>10. o.fd \notin mine
    BY <2>1, ReceivedTransit, AccountedParts
  <2>11. AskedOnce'
    BY <1>f, <2>4, <2>5, <2>10, NoneAssumption DEF AskedOnce, TypeOK
  <2>12. AskedFirst'
    BY <1>f, <2>2, <2>5 DEF AskedFirst
  <2> QED BY <1>f, <2>5, <2>8, <2>9, <2>11, <2>12 DEF Prepared, Own
<1>3. ASSUME NEW o, RecvTcpFails(o) PROVE Prepared'
  <2>1. o \in Operations /\ o.fd \in Fds /\ Received(o) /\ o.op = "TcpAdd"
    BY <1>3, ReceivedTypes DEF RecvTcpFails, Handles, Operations
  <2>2. files[o.fd] \in Sources /\ asked[files[o.fd]] > 0
    BY <1>f, <2>1, HeadFresh
  <2>3. /\ UNCHANGED <<mine, asked, inbox, events, tokens>>
        /\ Known' \subseteq Known \cup {o.fd}
        /\ epoll' \subseteq epoll
        /\ \A fd \in Fds : fd # o.fd => files'[fd] = files[fd]
    BY <1>3, <1>f DEF RecvTcpFails, Close, Alive, Known, Without, clientVars
  <2>4. QueuedFresh'
    BY <1>f, <2>1, <2>3, ReceivedFresh
  <2>5. o.fd \notin mine
    BY <2>1, ReceivedTransit, AccountedParts
  <2>6. AskedOnce'
    BY <1>f, <2>3, <2>5 DEF AskedOnce, TypeOK
  <2>7. AskedFirst' /\ RightToken' /\ Own'
    BY <1>f, <2>2, <2>3 DEF AskedFirst, RightToken, Own
  <2> QED BY <2>4, <2>6, <2>7 DEF Prepared
<1>4. ASSUME NEW o, RecvModify(o) PROVE FALSE
  BY <1>4, <1>f, ReceivedTypes, HeadFresh DEF RecvModify, Handles
<1>5. ASSUME NEW o, RecvPanics(o) PROVE FALSE
  BY <1>5, <1>f, ReceivedTypes, HeadFresh DEF RecvPanics, Vacant
<1>6. ASSUME NEW o, RecvPoll(o) PROVE Prepared'
  <2>1. /\ UNCHANGED <<files, epoll, tableVars, clientVars, inbox>>
        /\ events' \subseteq epoll
    BY <1>6 DEF RecvPoll, TypeOK
  <2>2. \A i \in Ops' : i + 1 \in Ops /\ chan'[i] = chan[i + 1] /\ i \in Nat
    <3>1. chan \in Seq(Operations \cup {Poll}) /\ chan # <<>> /\ chan' = Tail(chan)
      BY <1>6 DEF RecvPoll, Received, TypeOK
    <3> HIDE DEF Poll
    <3>2. /\ Len(chan) \in Nat \ {0} /\ DOMAIN chan = 1 .. Len(chan)
          /\ DOMAIN chan' = 1 .. (Len(chan) - 1)
          /\ \A i \in 1 .. (Len(chan) - 1) : chan'[i] = chan[i + 1]
      BY <3>1
    <3> QED BY <3>2 DEF Ops
  <2>3. Up /\ Known' = Known
    BY <1>6, <2>1 DEF RecvPoll, Received, Up, Known, tableVars
  <2>4. ASSUME NEW i \in Ops', NEW j \in Ops', chan'[j].fd = chan'[i].fd PROVE j = i
    <3>1. j + 1 = i + 1
      BY <1>f, <2>2, <2>3, <2>4 DEF QueuedFresh
    <3> QED BY <2>2, <3>1
  <2>5. QueuedFresh'
    BY <1>f, <2>1, <2>2, <2>3, <2>4 DEF QueuedFresh, clientVars
  <2> QED BY <1>f, <2>1, <2>3, <2>5
          DEF Prepared, AskedOnce, AskedFirst, RightToken, Own, clientVars, tableVars
<1>7. ASSUME NEW r \in events, Deliver(r) PROVE Prepared'
  <2> DEFINE n == tokens[r.id].notify
  <2>1. n = Notify[r.src] /\ inbox \in [Notifiers -> Seq(Sources)] /\ r.src \in Sources
    BY <1>f DEF RightToken, TypeOK, Registrations
  <2>2. UNCHANGED inbox \/ inbox' = [inbox EXCEPT ![n] = Append(@, r.src)]
    BY <1>7 DEF Deliver
  <2> HIDE DEF n
  <2>3. Own'
    <3> SUFFICES ASSUME NEW m \in Notifiers, NEW i \in DOMAIN inbox'[m]
                 PROVE  Notify[inbox'[m][i]] = m
      BY DEF Own
    <3>1. CASE inbox'[m] = inbox[m]
      BY <1>f, <3>1 DEF Own
    <3>2. CASE inbox'[m] = Append(inbox[m], r.src) /\ n = m
      <4>1. inbox[m] \in Seq(Sources)
        BY <2>1
      <4>2. (i \in DOMAIN inbox[m] /\ inbox'[m][i] = inbox[m][i]) \/ inbox'[m][i] = r.src
        BY <3>2, <4>1
      <4> QED BY <1>f, <2>1, <3>2, <4>2 DEF Own
    <3> QED BY <2>1, <2>2, <3>1, <3>2
  <2>4. UNCHANGED <<clientVars, tableVars, files, chan, epoll, pc>> /\ events' \subseteq events
    BY <1>7 DEF Deliver, kernelVars
  <2> QED BY <2>3, <2>4, PreparedKept DEF Up
<1>8. ASSUME NEW r \in events, DeliverPanics(r) PROVE Prepared'
  BY <1>8, EndsPrepared, AccountedParts DEF DeliverPanics
<1>9. CASE PollDone \/ RecvNothing \/ Continue
  <2>1. UNCHANGED <<clientVars, tableVars, files, chan, epoll, events, inbox>> /\ Up
    BY <1>9 DEF PollDone, RecvNothing, Continue, Goto, pushUnchanged, kernelVars, Up
  <2> QED BY <1>f, <2>1, PreparedKept DEF Own
<1>10. CASE Check
  BY <1>9, <1>10, EndsPrepared, AccountedParts DEF Check
<1> QED
  BY <1>1, <1>2, <1>3, <1>4, <1>5, <1>6, <1>7, <1>8, <1>9, <1>10 DEF PollerStep

LEMMA AskPrepared ==
  ASSUME TypeOK, Accounted, Prepared, manner = "prepared",
         NEW kind \in Kinds, NEW s \in Sources, NEW fd \in Fds, Ask(kind, s, fd)
  PROVE  Prepared'
<1>f. QueuedFresh /\ AskedOnce /\ AskedFirst /\ RightToken /\ Own
  BY DEF Prepared
<1>1. /\ asked[s] = 0 /\ kind \in {"FdAdd", "TcpAdd"}
      /\ fd \in mine /\ files[fd] = s /\ mine' \subseteq mine
      /\ kind = "TcpAdd" => fd \notin mine'
      /\ UNCHANGED <<tableVars, events, inbox, pc>>
  BY DEF Ask, MayAsk, Held
<1>2. asked' = [asked EXCEPT ![s] = asked[s] + 1] /\ asked \in [Sources -> Nat]
  BY DEF Ask, TypeOK
<1>3. asked'[s] > 0 /\ \A t \in Sources : asked[t] > 0 => asked'[t] > 0
  BY <1>1, <1>2
<1>4. Known' = Known
  BY <1>1 DEF Known, tableVars
<1>5. fd \notin Known
  BY <1>f, <1>1 DEF AskedOnce
<1>6. AskedFirst'
  BY <1>3 DEF AskedFirst
<1>7. CASE Up /\ chan' = Append(chan, Submit(kind, fd, Notify[s])) /\ UNCHANGED kernelVars
  <2>1. chan \in Seq(Operations \cup {Poll})
    BY DEF TypeOK
  <2> DEFINE last == Len(chan) + 1
  <2>2. /\ DOMAIN chan' = DOMAIN chan \cup {last}
        /\ \A i \in DOMAIN chan : chan'[i] = chan[i] /\ i # last
        /\ chan'[last] = Submit(kind, fd, Notify[s])
    BY <1>7, <2>1
  <2> HIDE DEF last
  <2>3. Ops' = Ops \cup {last} /\ \A i \in Ops : chan'[i] = chan[i] /\ i # last
    <3>1. chan'[last] # Poll
      BY <1>1, <2>2 DEF Submit, Poll
    <3> HIDE DEF Poll
    <3> QED BY <2>2, <3>1 DEF Ops
  <2>4. files' = files
    BY <1>7 DEF kernelVars
  <2>5. \A i \in Ops : chan[i].fd # fd
    BY <1>f, <1>1, <1>7 DEF QueuedFresh
  <2>6. QueuedFresh'
    <3>1. ASSUME NEW i \in Ops
          PROVE  /\ chan'[i].op \in {"FdAdd", "TcpAdd"}
                 /\ files'[chan'[i].fd] \in Sources
                 /\ chan'[i].notify = Notify[files'[chan'[i].fd]]
                 /\ chan'[i].fd \notin Known'
                 /\ asked'[files'[chan'[i].fd]] > 0
                 /\ \A j \in Ops' : chan'[j].fd = chan'[i].fd => j = i
      <4>1. chan'[i] = chan[i]
        BY <2>3
      <4>2. \A j \in Ops : chan'[j].fd = chan'[i].fd => j = i
        BY <1>f, <1>7, <2>3, <4>1 DEF QueuedFresh
      <4>3. chan'[last].fd # chan'[i].fd
        BY <2>2, <2>5, <4>1 DEF Submit
      <4>4. \A j \in Ops' : chan'[j].fd = chan'[i].fd => j = i
        BY <2>3, <4>2, <4>3
      <4> QED BY <1>f, <1>3, <1>4, <1>7, <2>4, <4>1, <4>4 DEF QueuedFresh
    <3>2. /\ chan'[last].op \in {"FdAdd", "TcpAdd"}
          /\ files'[chan'[last].fd] \in Sources
          /\ chan'[last].notify = Notify[files'[chan'[last].fd]]
          /\ chan'[last].fd \notin Known'
          /\ asked'[files'[chan'[last].fd]] > 0
          /\ \A j \in Ops' : chan'[j].fd = chan'[last].fd => j = last
      BY <1>1, <1>3, <1>4, <1>5, <2>2, <2>3, <2>4, <2>5 DEF Submit
    <3> QED BY <2>3, <3>1, <3>2 DEF QueuedFresh
  <2>7. AskedOnce'
    BY <1>f, <1>1, <1>3, <1>4, <2>4 DEF AskedOnce
  <2>8. RightToken' /\ Own'
    BY <1>f, <1>1, <1>7 DEF RightToken, Own, kernelVars, tableVars
  <2> QED BY <1>6, <2>6, <2>7, <2>8 DEF Prepared
<1>8. CASE ~Up /\ Close(Without(files, mine \ mine')) /\ UNCHANGED chan
  <2>1. QueuedFresh'
    BY <1>1, <1>8 DEF QueuedFresh, Up
  <2>2. \A f \in mine' : files'[f] = files[f]
    BY <1>1, <1>8 DEF Close, Without, TypeOK
  <2>3. AskedOnce'
    BY <1>f, <1>1, <1>3, <1>4, <2>2 DEF AskedOnce
  <2>4. RightToken' /\ Own'
    BY <1>f, <1>1, <1>8 DEF RightToken, Own, Close, Alive, tableVars
  <2> QED BY <1>6, <2>1, <2>3, <2>4 DEF Prepared
<1> QED BY <1>7, <1>8 DEF Ask

LEMMA NextPrepared ==
  ASSUME TypeOK, Accounted, Prepared, manner = "prepared", [Next]_vars
  PROVE  Prepared'
<1>f. QueuedFresh /\ AskedOnce /\ AskedFirst /\ RightToken /\ Own
  BY DEF Prepared
<1>1. CASE PollerStep
  BY <1>1, PollerPrepared
<1>2. ASSUME NEW s \in Sources, Arrive(s) PROVE Prepared'
  BY <1>f, <1>2, PreparedKept DEF Arrive, Own, Up
<1>3. ASSUME NEW s \in Sources, NEW fd \in Fds, Open(s, fd) PROVE Prepared'
  <2>1. \A t \in Sources : asked[t] = 0
    BY <1>3 DEF Open, MayOpen
  <2>2. /\ UNCHANGED <<asked, tableVars, chan, epoll, events, inbox, pc>>
        /\ mine' = mine \cup {fd}
        /\ \A f \in Fds : files'[f] = IF f = fd THEN s ELSE files[f]
    BY <1>3 DEF Open, TypeOK
  <2>3. Known = {} /\ Known' = Known
    BY <1>f, <2>1, <2>2 DEF AskedFirst, Known, tableVars
  <2>4. Up => Ops = {}
    BY <1>f, <2>1 DEF QueuedFresh
  <2>5. QueuedFresh'
    BY <2>2, <2>4 DEF QueuedFresh, Ops, Up
  <2>6. AskedOnce' /\ AskedFirst'
    BY <1>f, <2>2, <2>3 DEF AskedOnce, AskedFirst, TypeOK
  <2> QED BY <1>f, <2>2, <2>5, <2>6 DEF Prepared, RightToken, Own, tableVars
<1>4. ASSUME NEW s \in Sources, NEW fd \in Fds, NEW kind \in Kinds, Ask(kind, s, fd)
      PROVE  Prepared'
  BY <1>4, AskPrepared
<1>5. ASSUME NEW fd \in Fds, CloseFd(fd) PROVE FALSE
  BY <1>5 DEF CloseFd, MayClose
<1>6. ASSUME NEW n \in Notifiers, Receive(n) \/ Quit(n) PROVE Prepared'
  <2>1. UNCHANGED <<clientVars, tableVars, files, chan, epoll, events, pc>>
    BY <1>6 DEF Receive, Quit, kernelVars
  <2>2. /\ inbox \in [Notifiers -> Seq(Sources)]
        /\ \/ inbox' = [inbox EXCEPT ![n] = Tail(inbox[n])] /\ inbox[n] # <<>>
           \/ inbox' = [inbox EXCEPT ![n] = <<>>]
    BY <1>6 DEF Receive, Quit, TypeOK
  <2>3. Own'
    BY <1>f, <2>2 DEF Own
  <2> QED BY <2>1, <2>3, PreparedKept DEF Up
<1>7. CASE SendPoll
  <2>1. chan \in Seq(Operations \cup {Poll}) /\ chan' = Append(chan, Poll)
    BY <1>7 DEF SendPoll, TypeOK
  <2> HIDE DEF Poll
  <2>2. Ops' = Ops /\ \A i \in Ops : chan'[i] = chan[i]
    BY <2>1 DEF Ops
  <2>3. UNCHANGED <<clientVars, kernelVars, tableVars, events, inbox, pc>>
    BY <1>7 DEF SendPoll
  <2>4. QueuedFresh'
    BY <1>f, <2>2, <2>3, KeptFresh DEF Up, clientVars, kernelVars, tableVars
  <2>5. Known' = Known
    BY <2>3 DEF Known, tableVars
  <2> QED BY <1>f, <2>3, <2>4, <2>5
          DEF Prepared, AskedOnce, AskedFirst, RightToken, Own, clientVars, kernelVars, tableVars
<1>8. CASE Shutdown \/ UNCHANGED vars
  BY <1>f, <1>8, PreparedKept DEF Shutdown, vars, kernelVars, Own, Up
<1> QED BY <1>1, <1>2, <1>3, <1>4, <1>5, <1>6, <1>7, <1>8 DEF Next

LEMMA MannerKept == [Next]_vars => manner' = manner
<1> SUFFICES ASSUME [Next]_vars PROVE manner' = manner
  OBVIOUS
<1>1. CASE PollerStep
  BY <1>1 DEF PollerStep, RecvFdAdd, RecvTcpAdd, RecvTcpFails, RecvModify, RecvPanics, RecvPoll,
              Deliver, DeliverPanics, PollDone, RecvNothing, Check, Continue, Ends, pushUnchanged
<1>2. CASE ~PollerStep
  BY <1>2 DEF Next, Arrive, Open, CloseFd, Ask, Receive, Quit, SendPoll, Shutdown, vars
<1> QED BY <1>1, <1>2

\* Clients that open all they register before they register any of it receive
\* only events of their own sources (tokens and notifiers of Poller), whatever
\* the capacities, the failures of try_clone and the order of the operations.
THEOREM OwnNotifier == Spec => []OwnEvents
<1> DEFINE PreparedInv == manner = "prepared" => Prepared
<1>1. Init => PreparedInv
  <2> SUFFICES ASSUME Init PROVE Prepared
    OBVIOUS
  <2>1. /\ Known = {} /\ Ops = {} /\ mine = {} /\ epoll = {} /\ events = {}
        /\ \A n \in Notifiers : inbox[n] = <<>>
    BY DEF Init, Known, NoEntry, Ops
  <2> QED BY <2>1 DEF Prepared, QueuedFresh, AskedOnce, AskedFirst, RightToken, Own
<1>2. TypeOK /\ Accounted /\ PreparedInv /\ [Next]_vars => PreparedInv'
  BY NextPrepared, MannerKept
<1>3. PreparedInv => OwnEvents
  BY DEF Prepared, OwnEvents
<1> HIDE DEF PreparedInv
<1> QED BY <1>1, <1>2, <1>3, PollerTypeCorrect, DescriptorsAccounted, PTL DEF Spec
=============================================================================
