----------------------- MODULE EventBusRefinementProofs -----------------------
(***************************************************************************)
(* The proof that EventBus implements PubSub, from the invariant of        *)
(* EventBusDeliveryProofs: a member of PubSub is a subscriber the bus was  *)
(* told nothing about, by itself or by whoever named its id, and as no     *)
(* message on its way harms it, only the answers of its own polls touch    *)
(* its queue.                                                              *)
(***************************************************************************)
EXTENDS EventBusDeliveryProofs

\* What PubSub sees of the bus.
Members  == {s \in Subs : Member(s)}
Gone     == told \cup {s \in Subs : call[s] = "left"}
Pending  == [s \in Subs |-> IF Member(s) THEN event_queues[IdOf(s)] ELSE <<>>]
InHand   == [s \in Subs |-> IF Member(s) THEN InFlight(s) ELSE <<>>]
Received == [s \in Subs |-> IF Member(s) THEN got[s] ELSE <<>>]

LEMMA TopicVars ==
  /\ Topic!vars = <<Members, Gone, gaveUp, Pending, InHand, Received>>
  /\ Topic!vars' = <<Members', Gone', gaveUp', Pending', InHand', Received'>>
BY DEF Topic!vars, Members, Gone, Pending, InHand, Received

\* Steps that change nothing PubSub sees.
LEMMA StaysTheSame ==
  ASSUME UNCHANGED <<Gone, gaveUp>>,
         \A s \in Subs : Member(s)' <=> Member(s),
         \A s \in Subs : Member(s) => /\ event_queues'[IdOf(s)'] = event_queues[IdOf(s)]
                                      /\ InFlight(s)' = InFlight(s)
                                      /\ got'[s] = got[s]
  PROVE  UNCHANGED Topic!vars
<1>1. Members' = Members
  BY DEF Members
<1>2. Pending' = Pending
  BY DEF Pending
<1>3. InHand' = InHand
  BY DEF InHand
<1>4. Received' = Received
  BY DEF Received
<1> QED BY <1>1, <1>2, <1>3, <1>4, TopicVars

-----------------------------------------------------------------------------
(* The steps of the clients.                                               *)

LEMMA SubscribedSame ==
  ASSUME TypeInv, NEW s \in Subs, Subscribed(s), NEW o \in Subs
  PROVE  IdOf(o)' = IdOf(o) /\ InFlight(o)' = InFlight(o)
<1>1. /\ call[s] = "Subscribe" /\ reply[s] # <<>>
      /\ reply' = [reply EXCEPT ![s] = <<>>]
      /\ \/ id' = [id EXCEPT ![s] = Head(reply[s]).id]
         \/ Head(reply[s]).id = NULL_SUBID /\ UNCHANGED id
  BY DEF Subscribed
<1>2. /\ reply'[s] = <<>>
      /\ o # s => reply'[o] = reply[o] /\ id'[o] = id[o]
  BY <1>1, EmptiedReply DEF TypeInv, TypeOK
<1>3. CASE o = s
  <2>1. id[s] = NULL_SUBID /\ InFlight(s) = <<>>
    BY <1>1, NoHolderId
  <2>2. id'[s] = Head(reply[s]).id
    BY <1>1, <2>1 DEF TypeInv, TypeOK
  <2> QED BY <1>1, <1>2, <1>3, <2>1, <2>2 DEF IdOf, InFlight
<1>4. CASE o # s
  BY <1>2, <1>4 DEF IdOf, InFlight
<1> QED BY <1>3, <1>4

\* Who runs no subscription, or whose subscription was answered, has not left.
LEMMA GoneSame ==
  ASSUME UNCHANGED told, \A s \in Subs : call'[s] = "left" <=> call[s] = "left"
  PROVE  Gone' = Gone
BY DEF Gone

\* The steps of clients that PubSub does not see.
LEMMA ClientsUnseen ==
  ASSUME TypeInv,
         \/ \E s \in Subs : \/ Subscribe(s) \/ Subscribed(s) \/ Clone(s)
                            \/ \E op \in Polls : CallPoll(s, op) \/ BeginMatch(s, op)
         \/ \E e \in Events : Publish(e)
         \/ RequestCleanup
         \/ UNCHANGED vars
  PROVE  UNCHANGED Topic!vars
<1>1. UNCHANGED <<busVars, told, guessed, gaveUp, got>>
  BY DEF Subscribe, Subscribed, Clone, CallPoll, BeginMatch, Publish, RequestCleanup, vars, clientVars
<1>2. \A o \in Subs : IdOf(o)' = IdOf(o) /\ InFlight(o)' = InFlight(o)
  <2>1. CASE \E s \in Subs : Subscribed(s)
    BY <2>1, SubscribedSame
  <2>2. CASE ~\E s \in Subs : Subscribed(s)
    <3>1. UNCHANGED <<id, reply>>
      BY <2>2 DEF Subscribe, Clone, CallPoll, BeginMatch, Publish, RequestCleanup, vars, clientVars
    <3> QED BY <3>1 DEF IdOf, InFlight
  <2> QED BY <2>1, <2>2
<1>3. \A o \in Subs : call'[o] = "left" <=> call[o] = "left"
  <2>1. call \in [Subs -> Calls]
    BY DEF TypeInv, TypeOK
  <2>2. ASSUME NEW s \in Subs, Subscribe(s) \/ Subscribed(s) \/ Clone(s)
                               \/ \E op \in Polls : CallPoll(s, op) \/ BeginMatch(s, op)
        PROVE  \A o \in Subs : call'[o] = "left" <=> call[o] = "left"
    BY <2>1, <2>2 DEF Subscribe, Subscribed, Clone, CallPoll, BeginMatch, Polls
  <2>3. CASE (\E e \in Events : Publish(e)) \/ RequestCleanup \/ UNCHANGED vars
    BY <2>3 DEF Publish, RequestCleanup, vars, clientVars
  <2> QED BY <2>2, <2>3
<1>4. Gone' = Gone
  BY <1>1, <1>3, GoneSame
<1>5. \A s \in Subs : Member(s)' <=> Member(s)
  BY <1>1, <1>2 DEF Member, Undisturbed, busVars
<1> QED BY <1>1, <1>2, <1>4, <1>5, StaysTheSame DEF busVars

\* The answer of a poll reaches the subscriber.
LEMMA PolledReceives ==
  ASSUME TypeInv, NEW s \in Subs, Polled(s)
  PROVE  Topic!Receive(s)
<1>1. /\ call[s] \in Polls /\ reply[s] # <<>>
      /\ reply' = [reply EXCEPT ![s] = <<>>]
      /\ got' = [got EXCEPT ![s] = got[s] \o Head(reply[s]).events]
      /\ call' = [call EXCEPT ![s] = "idle"]
      /\ UNCHANGED <<id, told, guessed, gaveUp, busVars>>
  BY DEF Polled
<1>2. /\ reply'[s] = <<>>
      /\ \A o \in Subs : o # s => reply'[o] = reply[o] /\ got'[o] = got[o]
      /\ got'[s] = got[s] \o Head(reply[s]).events
  BY <1>1, EmptiedReply DEF TypeInv, TypeOK
<1>3. \A o \in Subs : IdOf(o)' = IdOf(o)
  <2>1. IdOf(s) = id[s]
    BY <1>1, HolderId
  <2> QED BY <1>1, <1>2, <2>1 DEF IdOf
<1>4. /\ InFlight(s) = Head(reply[s]).events /\ InFlight(s)' = <<>>
      /\ \A o \in Subs : o # s => InFlight(o)' = InFlight(o)
  BY <1>1, <1>2 DEF InFlight
<1>5. \A o \in Subs : Member(o)' <=> Member(o)
  BY <1>1, <1>3 DEF Member, Undisturbed, busVars
<1>6. Members' = Members
  BY <1>5 DEF Members
<1>7. Gone' = Gone
  <2>1. \A o \in Subs : call'[o] = "left" <=> call[o] = "left"
    BY <1>1 DEF TypeInv, TypeOK, Polls
  <2> QED BY <1>1, <2>1, GoneSame
<1>8. Pending' = Pending
  BY <1>1, <1>3, <1>5 DEF Pending, busVars
<1>9. InHand' = [InHand EXCEPT ![s] = <<>>]
  BY <1>4, <1>5 DEF InHand
<1>10. Received' = [Received EXCEPT ![s] = Received[s] \o InHand[s]]
  <2>1. ASSUME NEW o \in Subs
        PROVE  Received'[o] = IF o = s THEN Received[s] \o InHand[s] ELSE Received[o]
    <3>1. CASE o # s
      BY <1>2, <1>5, <3>1 DEF Received
    <3>2. CASE o = s /\ Member(s)
      BY <1>2, <1>4, <1>5, <3>2 DEF Received, InHand
    <3>3. CASE o = s /\ ~Member(s)
      <4>1. Received'[s] = <<>> /\ Received[s] = <<>> /\ InHand[s] = <<>>
        BY <1>5, <3>3 DEF Received, InHand
      <4>2. <<>> \o <<>> = <<>>
        OBVIOUS
      <4> QED BY <3>3, <4>1, <4>2
    <3> QED BY <3>1, <3>2, <3>3
  <2>2. Received' = [o \in Subs |-> Received'[o]] /\ Received = [o \in Subs |-> Received[o]]
    BY DEF Received
  <2> QED BY <2>1, <2>2
<1> QED BY <1>1, <1>6, <1>7, <1>8, <1>9, <1>10
        DEF Topic!Receive, Members, Gone, Pending, InHand, Received

\* A step that takes s out of the members and leaves all others as they are.
LEMMA LeavesTopic ==
  ASSUME NEW s \in Subs, s \notin Gone, Gone' = Gone \cup {s},
         gaveUp' \in {gaveUp, gaveUp \cup {s}}, ~Member(s)',
         \A o \in Subs : o # s => /\ Member(o)' <=> Member(o)
                                  /\ IdOf(o)' = IdOf(o) /\ InFlight(o)' = InFlight(o),
         UNCHANGED <<event_queues, got>>
  PROVE  Topic!Leave(s)
<1>1. Members' = Members \ {s}
  BY DEF Members
<1>2. Pending' = [Pending EXCEPT ![s] = <<>>]
  BY DEF Pending
<1>3. InHand' = [InHand EXCEPT ![s] = <<>>]
  BY DEF InHand
<1>4. Received' = [Received EXCEPT ![s] = <<>>]
  BY DEF Received
<1> QED BY <1>1, <1>2, <1>3, <1>4 DEF Topic!Leave, Members, Gone, Pending, InHand, Received

LEMMA AbandonTopic ==
  ASSUME TypeInv, Newcomers, NEW s \in Subs, Abandon(s)
  PROVE  Topic!GiveUp(s) \/ Topic!Leave(s)
<1>1. /\ UNCHANGED <<busVars, handles, id, got, told, guessed>>
      /\ gaveUp' = gaveUp \cup {s} /\ call[s] \in {"Subscribe"} \cup Polls
      /\ call' = [call EXCEPT ![s] = IF call[s] = "Subscribe" THEN "left" ELSE "idle"]
      /\ reply' = [reply EXCEPT ![s] = <<>>]
  BY DEF Abandon
<1>2. /\ reply'[s] = <<>> /\ \A o \in Subs : o # s => reply'[o] = reply[o]
      /\ \A o \in Subs : o # s => call'[o] = call[o]
      /\ call'[s] = IF call[s] = "Subscribe" THEN "left" ELSE "idle"
  BY <1>1, EmptiedReply DEF TypeInv, TypeOK
<1>3. \A o \in Subs : o # s => /\ Member(o)' <=> Member(o)
                               /\ IdOf(o)' = IdOf(o) /\ InFlight(o)' = InFlight(o)
  <2>1. \A o \in Subs : o # s => IdOf(o)' = IdOf(o) /\ InFlight(o)' = InFlight(o)
    BY <1>1, <1>2 DEF IdOf, InFlight
  <2> QED BY <1>1, <2>1 DEF Member, Undisturbed, busVars
<1>4. IdOf(s)' = id[s] /\ InFlight(s)' = <<>>
  BY <1>1, <1>2 DEF IdOf, InFlight
\* Whose subscription the bus was told about in the meantime has left already.
<1>5. CASE call[s] = "Subscribe" /\ s \notin told
  <2>1. id[s] = NULL_SUBID
    BY <1>5, NoHolderId
  <2>2. s \notin Gone /\ Gone' = Gone \cup {s}
    BY <1>1, <1>2, <1>5 DEF Gone
  <2>3. ~Member(s)'
    BY <1>4, <2>1 DEF Member, Undisturbed
  <2>4. Topic!Leave(s)
    BY <1>1, <1>3, <2>2, <2>3, LeavesTopic DEF busVars
  <2> QED BY <2>4
<1>6. CASE call[s] \in Polls \/ s \in told
  <2>1. Gone' = Gone
    BY <1>1, <1>2, <1>6 DEF Gone, Polls
  <2>2. (Member(s)' <=> Member(s)) /\ (Member(s) => IdOf(s)' = IdOf(s))
    <3>1. CASE s \in told
      BY <1>1, <3>1 DEF Member, Undisturbed
    <3>2. CASE call[s] \in Polls
      <4>1. IdOf(s) = id[s]
        BY <3>2, HolderId
      <4> QED BY <1>1, <1>4, <4>1 DEF Member, Undisturbed, busVars
    <3> QED BY <1>6, <3>1, <3>2
  <2>3. \A o \in Subs : (Member(o)' <=> Member(o)) /\ (Member(o) => IdOf(o)' = IdOf(o))
    BY <1>3, <2>2
  <2>4. Members' = Members
    BY <2>3 DEF Members
  <2>5. Pending' = Pending
    BY <1>1, <2>3 DEF Pending, busVars
  <2>6. InHand' = [InHand EXCEPT ![s] = <<>>]
    BY <1>3, <1>4, <2>3 DEF InHand
  <2>7. Received' = Received
    BY <1>1, <2>3 DEF Received
  <2>8. Topic!GiveUp(s)
    BY <1>1, <2>1, <2>4, <2>5, <2>6, <2>7 DEF Topic!GiveUp, Members, Gone, Pending, InHand, Received
  <2> QED BY <2>8
<1> QED BY <1>1, <1>5, <1>6

\* The bus is told of s, by whoever it is: s leaves, if it has not left before.
LEMMA ToldTopic ==
  ASSUME TypeInv, NEW s \in Subs, told' = told \cup {s}, call[s] # "left",
         UNCHANGED <<busVars, id, call, got, guessed, gaveUp, reply>>
  PROVE  Topic!Leave(s) \/ UNCHANGED Topic!vars
<1>1. \A o \in Subs : IdOf(o)' = IdOf(o) /\ InFlight(o)' = InFlight(o)
  BY DEF IdOf, InFlight
<1>2. \A o \in Subs : o # s => (Member(o)' <=> Member(o))
  BY <1>1 DEF Member, Undisturbed, busVars
<1>3. CASE s \in told
  <2>1. told' = told
    BY <1>3
  <2>2. \A o \in Subs : Member(o)' <=> Member(o)
    BY <1>1, <2>1 DEF Member, Undisturbed, busVars
  <2>3. Gone' = Gone
    BY <2>1 DEF Gone
  <2> QED BY <1>1, <2>2, <2>3, StaysTheSame DEF busVars
<1>4. CASE s \notin told
  <2>1. s \notin Gone /\ Gone' = Gone \cup {s}
    BY <1>4 DEF Gone
  <2>2. ~Member(s)'
    BY DEF Member, Undisturbed
  <2> QED BY <1>1, <1>2, <2>1, <2>2, LeavesTopic DEF busVars
<1> QED BY <1>3, <1>4

LEMMA DropTopic ==
  ASSUME TypeInv, NEW s \in Subs, Drop(s)
  PROVE  Topic!Leave(s) \/ UNCHANGED Topic!vars
<1>1. handles[s] # 0 /\ Borrowed(s) \in 0 .. 1
  <2>1. handles[s] \in 0 .. 2 /\ Borrowed(s) \in 0 .. 1
    BY DEF TypeInv, TypeOK, Borrowed
  <2> QED BY <2>1 DEF Drop
<1>2. call[s] # "left"
  BY <1>1 DEF TypeInv, Holders
<1>3. told' = told \cup {s} /\ UNCHANGED <<busVars, id, call, got, guessed, gaveUp, reply>>
  BY DEF Drop
<1> QED BY <1>2, <1>3, ToldTopic

\* With delay-delete at most one subscriber ever has the id that is named.
LEMMA UnsubscribeTopic ==
  ASSUME DeliverInv, delayDelete \/ Reckless = FALSE,
         NEW s \in Subs, NEW i \in Named, Unsubscribe(s, i)
  PROVE  (\E o \in Subs : Topic!Leave(o)) \/ UNCHANGED Topic!vars
<1>1. /\ delayDelete /\ told' = told \cup Owners(i)
      /\ guessed' = IF Owners(i) = {} THEN guessed \cup {i} ELSE guessed
      /\ UNCHANGED <<busVars, id, call, got, gaveUp, reply>>
  BY DEF Unsubscribe, TellsTwice
<1>2. i # NULL_SUBID /\ TypeInv
  BY LimitsAssumption DEF SubIds, NULL_SUBID, DeliverInv
<1>3. CASE Owners(i) = {}
  <2>1. UNCHANGED told /\ guessed' = guessed \cup {i}
    BY <1>1, <1>3
  <2>2. \A o \in Subs : IdOf(o)' = IdOf(o) /\ InFlight(o)' = InFlight(o) /\ IdOf(o) # i
    BY <1>1, <1>3 DEF IdOf, InFlight, Owners
  <2>3. Gone' = Gone /\ \A o \in Subs : Member(o)' <=> Member(o)
    BY <1>1, <2>1, <2>2 DEF Gone, Member, Undisturbed, busVars
  <2> QED BY <1>1, <2>2, <2>3, StaysTheSame DEF busVars
<1>4. CASE Owners(i) # {}
  <2>1. PICK o \in Subs : IdOf(o) = i
    BY <1>4 DEF Owners
  <2>2. Owners(i) = {o}
    BY <1>1, <1>2, <2>1 DEF Owners, DeliverInv, Ids, NeverAgain
  <2>3. call[o] # "left"
    <3>1. call[o] = "left" => id[o] = NULL_SUBID /\ reply[o] = <<>>
      BY <1>2, NoHolderId
    <3> QED BY <1>2, <2>1, <3>1 DEF IdOf
  <2> QED BY <1>1, <1>2, <1>4, <2>2, <2>3, ToldTopic
<1> QED BY <1>3, <1>4

-----------------------------------------------------------------------------
(* The steps of the bus.                                                   *)

\* Who waits for the answer of a poll has the queue it polls; who has that queue
\* and does not wait gave the poll up.
LEMMA HandTopic ==
  ASSUME DeliverInv, NEW op \in Polls, Receive(op), Head(receiver).arg \in DOMAIN event_queues,
         NEW n \in 0 .. Len(event_queues[Head(receiver).arg]), Hand(Head(receiver).arg, n)
  PROVE  \/ \E s \in Subs : n \in 0 .. Len(Pending[s]) /\ (Topic!Take(s, n) \/ Topic!Lose(s, n))
         \/ UNCHANGED Topic!vars
<1> DEFINE i     == Head(receiver).arg
           q     == event_queues[i]
           taken == SubSeq(q, 1, n)
           rest  == SubSeq(q, n + 1, Len(q))
           a     == Answer(i, taken)
<1>1. TypeInv /\ receiver # <<>> /\ Head(receiver).op = op
  BY DEF DeliverInv, Receive
<1>2. i \in SubIds /\ q \in Seq(Events)
  BY <1>1 DEF TypeInv, TypeOK
<1>3. taken \in Seq(Events) /\ rest \in Seq(Events)
  BY <1>2, SplitTypes
<1>4. a.id = i /\ a.events = taken
  BY <1>2, <1>3, AnswerTypes
<1>5. event_queues' = WithQueue(i, rest) /\ Respond(a) /\ UNCHANGED clientVars
  BY DEF Hand
<1>6. Harmless(Head(receiver))
  BY <1>1, HeadHarmless
<1>7. i \in DOMAIN event_queues /\ n \in 0 .. Len(q)
  OBVIOUS
<1> HIDE DEF q, taken, rest, a
<1>8. /\ DOMAIN event_queues' = DOMAIN event_queues
      /\ event_queues'[i] = rest
      /\ \A j \in DOMAIN event_queues : j # i => event_queues'[j] = event_queues[j]
  BY <1>1, <1>2, <1>3, <1>5, <1>7, QueueTypes
<1>9. UNCHANGED <<id, call, got, told, guessed, gaveUp>>
  BY <1>5 DEF clientVars
<1>10. ASSUME NEW s \in Subs, Head(receiver).reply = s
       PROVE  /\ IdOf(s) = i /\ IdOf(s)' = i
              /\ InFlight(s) = <<>> /\ InFlight(s)' = taken
  <2>1. reply[s] = <<>> /\ reply'[s] # <<>> /\ Head(reply'[s]) = a
    BY <1>1, <1>5, <1>10, Responded
  <2>2. id[s] = i
    BY <1>1, <1>10, HeadTypes
  <2> QED BY <1>4, <2>1, <2>2 DEF IdOf, InFlight
<1>11. ASSUME NEW s \in Subs, Head(receiver).reply # s
       PROVE  IdOf(s)' = IdOf(s) /\ InFlight(s)' = InFlight(s)
  <2>1. reply'[s] = reply[s]
    BY <1>1, <1>5, <1>11, Responded
  <2> QED BY <1>9, <2>1 DEF IdOf, InFlight
<1>12. \A s \in Subs : IdOf(s)' = IdOf(s) /\ (Member(s)' <=> Member(s))
  BY <1>8, <1>9, <1>10, <1>11 DEF Member, Undisturbed
<1>13. Members' = Members /\ Gone' = Gone
  BY <1>9, <1>12 DEF Members, Gone
<1>14. Received' = Received
  BY <1>9, <1>12 DEF Received
<1>15. ASSUME NEW s \in Subs, Member(s), IdOf(s) = i
       PROVE  /\ Pending[s] = q
              /\ Pending' = [Pending EXCEPT ![s] = SubSeq(Pending[s], n + 1, Len(Pending[s]))]
              /\ \A o \in Subs : Member(o) /\ IdOf(o) = i => o = s
  <2>1. \A o \in Subs : Member(o) /\ IdOf(o) = i => o = s
    BY <1>15 DEF DeliverInv, Streams, Apart, Member
  <2>2. Pending[s] = q
    BY <1>15 DEF Pending, q
  <2>3. Pending' = [Pending EXCEPT ![s] = rest]
    <3>1. ASSUME NEW o \in Subs PROVE Pending'[o] = IF o = s THEN rest ELSE Pending[o]
      BY <1>8, <1>12, <1>15, <2>1 DEF Pending, Member
    <3>2. Pending' = [o \in Subs |-> Pending'[o]] /\ Pending = [o \in Subs |-> Pending[o]]
      BY DEF Pending
    <3> QED BY <3>1, <3>2
  <2> QED BY <2>1, <2>2, <2>3 DEF rest
<1>16. CASE \E s \in Subs : Head(receiver).reply = s /\ Member(s)
  <2>1. PICK s \in Subs : Head(receiver).reply = s /\ Member(s)
    BY <1>16
  <2>2. IdOf(s) = i
    BY <1>10, <2>1
  <2>3. InHand[s] = <<>>
    BY <1>10, <2>1 DEF InHand
  <2>4. InHand' = [InHand EXCEPT ![s] = taken]
    <3>1. ASSUME NEW o \in Subs PROVE InHand'[o] = IF o = s THEN taken ELSE InHand[o]
      BY <1>10, <1>11, <1>12, <2>1 DEF InHand
    <3>2. InHand' = [o \in Subs |-> InHand'[o]] /\ InHand = [o \in Subs |-> InHand[o]]
      BY DEF InHand
    <3> QED BY <3>1, <3>2
  <2>5. /\ Pending[s] = q
        /\ Pending' = [Pending EXCEPT ![s] = SubSeq(Pending[s], n + 1, Len(Pending[s]))]
    BY <1>15, <2>1, <2>2
  <2>6. InHand' = [InHand EXCEPT ![s] = SubSeq(Pending[s], 1, n)]
    BY <2>4, <2>5 DEF taken
  <2>7. Topic!Take(s, n)
    BY <1>9, <1>13, <1>14, <2>3, <2>5, <2>6
       DEF Topic!Take, Topic!Rest, Members, Gone, Pending, InHand, Received
  <2> QED BY <1>7, <2>5, <2>7
<1>17. CASE ~\E s \in Subs : Head(receiver).reply = s /\ Member(s)
  <2>1. InHand' = InHand
    <3>1. ASSUME NEW o \in Subs PROVE InHand'[o] = InHand[o]
      BY <1>11, <1>12, <1>17 DEF InHand
    <3>2. InHand' = [o \in Subs |-> InHand'[o]] /\ InHand = [o \in Subs |-> InHand[o]]
      BY DEF InHand
    <3> QED BY <3>1, <3>2
  <2>2. CASE \E s \in Subs : Member(s) /\ IdOf(s) = i
    <3>1. PICK s \in Subs : Member(s) /\ IdOf(s) = i
      BY <2>2
    <3>2. s \in gaveUp
      BY <1>1, <1>6, <1>17, <3>1 DEF Harmless, Member
    <3>3. /\ Pending[s] = q
          /\ Pending' = [Pending EXCEPT ![s] = SubSeq(Pending[s], n + 1, Len(Pending[s]))]
      BY <1>15, <3>1
    <3>4. Topic!Lose(s, n)
      BY <1>9, <1>13, <1>14, <2>1, <3>2, <3>3
         DEF Topic!Lose, Topic!Rest, Members, Gone, Pending, InHand, Received
    <3> QED BY <1>7, <3>3, <3>4
  <2>3. CASE ~\E s \in Subs : Member(s) /\ IdOf(s) = i
    <3>1. Pending' = Pending
      <4>1. ASSUME NEW o \in Subs PROVE Pending'[o] = Pending[o]
        BY <1>8, <1>12, <2>3 DEF Pending, Member
      <4>2. Pending' = [o \in Subs |-> Pending'[o]] /\ Pending = [o \in Subs |-> Pending[o]]
        BY DEF Pending
      <4> QED BY <4>1, <4>2
    <3> QED BY <1>9, <1>13, <1>14, <2>1, <3>1, TopicVars
  <2> QED BY <2>2, <2>3
<1> QED BY <1>16, <1>17

\* The answers that come with no event and no id change nobody's stream.
LEMMA EmptyAnswerUnseen ==
  ASSUME DeliverInv, HandleSubscribeExhausted \/ HandleStrayPoll
  PROVE  UNCHANGED Topic!vars
<1>1. TypeInv /\ receiver # <<>> /\ UNCHANGED <<busVars, clientVars>>
  BY DEF DeliverInv, HandleSubscribeExhausted, HandleStrayPoll, Receive
<1>2. PICK i : /\ Respond(Answer(i, <<>>))
               /\ \/ i = NULL_SUBID /\ Head(receiver).op = "Subscribe"
                  \/ Head(receiver).op \in Polls /\ i = Head(receiver).arg
  BY DEF HandleSubscribeExhausted, HandleStrayPoll, Receive
<1>3. Answer(i, <<>>).id = i /\ Answer(i, <<>>).events = <<>>
  BY DEF Answer
<1>4. ASSUME NEW s \in Subs PROVE IdOf(s)' = IdOf(s) /\ InFlight(s)' = InFlight(s)
  <2>1. CASE Head(receiver).reply = s
    <3>1. reply[s] = <<>> /\ reply'[s] # <<>> /\ Head(reply'[s]) = Answer(i, <<>>)
      BY <1>1, <1>2, <2>1, Responded
    <3>2. call[s] = Head(receiver).op /\ (call[s] \in Polls => Head(receiver).arg = id[s])
      BY <1>1, <2>1, HeadTypes
    <3>3. call[s] = "Subscribe" => id[s] = NULL_SUBID
      BY <1>1, NoHolderId
    <3>4. i = id[s]
      BY <1>2, <3>2, <3>3
    <3> QED BY <1>3, <3>1, <3>4 DEF IdOf, InFlight
  <2>2. CASE Head(receiver).reply # s
    <3>1. reply'[s] = reply[s] /\ id' = id
      BY <1>1, <1>2, <2>2, Responded DEF clientVars
    <3> QED BY <3>1 DEF IdOf, InFlight
  <2> QED BY <2>1, <2>2
<1>5. UNCHANGED <<event_queues, told, guessed, gaveUp, call, got>>
  BY <1>1 DEF busVars, clientVars
<1>6. Gone' = Gone /\ \A s \in Subs : Member(s)' <=> Member(s)
  BY <1>4, <1>5 DEF Gone, Member, Undisturbed
<1> QED BY <1>4, <1>5, <1>6, StaysTheSame

\* The queues that go are those of subscriptions the bus was told about.
LEMMA UnsubscribeUnseen ==
  ASSUME DeliverInv, HandleUnsubscribe \/ HandleUnsubscribeLater \/ HandleCleanup
  PROVE  UNCHANGED Topic!vars
<1>1. TypeInv /\ receiver # <<>> /\ UNCHANGED <<clientVars, reply>>
  BY DEF DeliverInv, HandleUnsubscribe, HandleUnsubscribeLater, HandleCleanup, Receive
<1>2. UNCHANGED <<id, told, guessed, gaveUp, call, got>>
  BY <1>1 DEF clientVars
<1>3. \A s \in Subs : IdOf(s)' = IdOf(s) /\ InFlight(s)' = InFlight(s)
  BY <1>1, <1>2 DEF IdOf, InFlight
<1>4. \A s \in Subs : Member(s) =>
        IdOf(s) \in DOMAIN event_queues' /\ event_queues'[IdOf(s)] = event_queues[IdOf(s)]
  <2>1. CASE HandleUnsubscribe
    <3>1. Harmless(Head(receiver)) /\ Head(receiver).op = "Unsubscribe"
          /\ event_queues' = Without({Head(receiver).arg})
      BY <1>1, <2>1, HeadHarmless DEF HandleUnsubscribe, Receive
    <3> QED BY <3>1 DEF Harmless, Without, Member
  <2>2. CASE HandleUnsubscribeLater
    BY <2>2 DEF HandleUnsubscribeLater, Member
  <2>3. CASE HandleCleanup
    <3>1. event_queues' = Without(recycle)
      BY <2>3 DEF HandleCleanup
    <3> QED BY <3>1 DEF DeliverInv, Ids, Recycled, Without, Member
  <2> QED BY <2>1, <2>2, <2>3
<1>5. DOMAIN event_queues' \subseteq DOMAIN event_queues
  BY DEF HandleUnsubscribe, HandleUnsubscribeLater, HandleCleanup, Without
<1>6. \A s \in Subs : Member(s)' <=> Member(s)
  BY <1>2, <1>3, <1>4, <1>5 DEF Member, Undisturbed
<1>7. Gone' = Gone
  BY <1>2 DEF Gone
<1> QED BY <1>2, <1>3, <1>4, <1>6, <1>7, StaysTheSame

LEMMA PushTopic ==
  ASSUME DeliverInv, HandlePush
  PROVE  \E e \in Events : Topic!Publish(e)
<1> DEFINE e == Head(receiver).arg
<1>1. TypeInv /\ receiver # <<>> /\ Head(receiver).op = "PushEvent"
      /\ UNCHANGED <<clientVars, reply>>
      /\ event_queues' = [i \in DOMAIN event_queues |-> Append(event_queues[i], e)]
  BY DEF DeliverInv, HandlePush, Receive
<1>2. e \in Events
  BY <1>1, HeadTypes, MessageKinds
<1> HIDE DEF e
<1>3. UNCHANGED <<id, told, guessed, gaveUp, call, got>> /\ DOMAIN event_queues' = DOMAIN event_queues
  BY <1>1 DEF clientVars
<1>4. \A s \in Subs : IdOf(s)' = IdOf(s) /\ InFlight(s)' = InFlight(s)
  BY <1>1, <1>3 DEF IdOf, InFlight
<1>5. \A s \in Subs : Member(s)' <=> Member(s)
  BY <1>3, <1>4 DEF Member, Undisturbed
<1>6. Members' = Members /\ Gone' = Gone
  BY <1>3, <1>5 DEF Members, Gone
<1>7. InHand' = InHand
  BY <1>4, <1>5 DEF InHand
<1>8. Received' = Received
  BY <1>3, <1>5 DEF Received
<1>9. Pending' = [s \in Subs |-> IF s \in Members THEN Append(Pending[s], e) ELSE Pending[s]]
  <2>1. ASSUME NEW s \in Subs
        PROVE  Pending'[s] = IF s \in Members THEN Append(Pending[s], e) ELSE Pending[s]
    <3>1. CASE Member(s)
      <4>1. IdOf(s) \in DOMAIN event_queues
        BY <3>1 DEF Member
      <4> QED BY <1>1, <1>4, <1>5, <3>1, <4>1 DEF Pending, Members
    <3>2. CASE ~Member(s)
      BY <1>5, <3>2 DEF Pending, Members
    <3> QED BY <3>1, <3>2
  <2>2. Pending' = [s \in Subs |-> Pending'[s]]
    BY DEF Pending
  <2> QED BY <2>1, <2>2
<1>10. Topic!Publish(e)
  BY <1>3, <1>6, <1>7, <1>8, <1>9 DEF Topic!Publish, Members, Gone, Pending, InHand, Received
<1> QED BY <1>2, <1>10

LEMMA SubscribeTopic ==
  ASSUME DeliverInv, HandleSubscribe
  PROVE  (\E s \in Subs : Topic!Join(s)) \/ UNCHANGED Topic!vars
<1>1. PICK i \in ids : event_queues' = WithQueue(i, <<>>) /\ Respond(Answer(i, <<>>))
  BY DEF HandleSubscribe
<1>2. TypeInv /\ receiver # <<>> /\ Head(receiver).op = "Subscribe" /\ UNCHANGED clientVars
  BY DEF DeliverInv, HandleSubscribe, Receive
<1>3. UNCHANGED <<id, told, guessed, gaveUp, call, got>>
  BY <1>2 DEF clientVars
<1>4. i \in SubIds /\ i # NULL_SUBID /\ i \notin DOMAIN event_queues
  BY DEF DeliverInv, IdsInv, IdsApart, SubIds, NULL_SUBID
<1>5. /\ DOMAIN event_queues' = DOMAIN event_queues \cup {i}
      /\ event_queues'[i] = <<>>
      /\ \A j \in DOMAIN event_queues : event_queues'[j] = event_queues[j]
  <2>1. <<>> \in Seq(Events)
    OBVIOUS
  <2> QED BY <1>1, <1>2, <1>4, <2>1, QueueTypes
<1>6. Answer(i, <<>>).id = i /\ Answer(i, <<>>).events = <<>>
  BY DEF Answer
<1>7. ASSUME NEW s \in Subs, Head(receiver).reply = s
      PROVE  /\ ~Member(s) /\ (Member(s)' <=> i \notin guessed) /\ s \notin Gone
             /\ IdOf(s)' = i /\ InFlight(s)' = <<>> /\ got[s] = <<>>
  <2>1. reply[s] = <<>> /\ reply'[s] # <<>> /\ Head(reply'[s]) = Answer(i, <<>>)
    BY <1>1, <1>2, <1>7, Responded
  <2>2. call[s] = "Subscribe"
    BY <1>2, <1>7, HeadTypes
  <2>3. id[s] = NULL_SUBID /\ got[s] = <<>>
    BY <1>2, <2>2, NoHolderId
  <2>5. s \notin told
    BY <2>1, <2>2, <2>3 DEF DeliverInv, Newcomers, IdOf
  <2>4. IdOf(s) = NULL_SUBID /\ IdOf(s)' = i /\ InFlight(s)' = <<>>
    BY <1>6, <2>1, <2>3 DEF IdOf, InFlight
  <2> QED BY <1>3, <1>4, <1>5, <2>2, <2>3, <2>4, <2>5 DEF Member, Undisturbed, Gone
<1>8. ASSUME NEW s \in Subs, Head(receiver).reply # s
      PROVE  /\ IdOf(s)' = IdOf(s) /\ InFlight(s)' = InFlight(s) /\ (Member(s)' <=> Member(s))
             /\ Member(s) => event_queues'[IdOf(s)] = event_queues[IdOf(s)]
  <2>1. IdOf(s)' = IdOf(s) /\ InFlight(s)' = InFlight(s)
    <3>1. reply'[s] = reply[s]
      BY <1>1, <1>2, <1>8, Responded
    <3> QED BY <1>3, <3>1 DEF IdOf, InFlight
  <2>2. Undisturbed(s) => IdOf(s) \in DOMAIN event_queues
    BY DEF DeliverInv, Streams, Owns
  <2> QED BY <1>3, <1>5, <2>1, <2>2 DEF Member, Undisturbed
<1>9. Gone' = Gone
  BY <1>3 DEF Gone
<1>10. CASE Head(receiver).reply \in Subs /\ i \notin guessed
  <2> DEFINE s == Head(receiver).reply
  <2>1. s \in Subs /\ s \notin Members \cup Gone
    BY <1>7, <1>10 DEF Members
  <2>2. Members' = Members \cup {s}
    BY <1>7, <1>8, <1>10 DEF Members
  <2>3. Pending' = Pending
    BY <1>5, <1>7, <1>8 DEF Pending
  <2>4. InHand' = InHand
    BY <1>7, <1>8 DEF InHand
  <2>5. Received' = Received
    BY <1>3, <1>7, <1>8 DEF Received
  <2> HIDE DEF s
  <2>6. Topic!Join(s)
    BY <1>3, <1>9, <2>1, <2>2, <2>3, <2>4, <2>5 DEF Topic!Join, Members, Gone, Pending, InHand, Received
  <2> QED BY <2>1, <2>6
<1>11. CASE Head(receiver).reply \notin Subs \/ i \in guessed
  <2>1. \A s \in Subs : Member(s)' <=> Member(s)
    BY <1>7, <1>8, <1>11
  <2>2. \A s \in Subs : Member(s) => /\ event_queues'[IdOf(s)'] = event_queues[IdOf(s)]
                                     /\ InFlight(s)' = InFlight(s)
                                     /\ got'[s] = got[s]
    BY <1>3, <1>7, <1>8
  <2> QED BY <1>3, <1>9, <2>1, <2>2, StaysTheSame
<1> QED BY <1>10, <1>11

-----------------------------------------------------------------------------
LEMMA InitTopic == Init => Topic!Init
<1> SUFFICES ASSUME Init PROVE Topic!Init
  OBVIOUS
<1>1. /\ told = {} /\ gaveUp = {} /\ call = [s \in Subs |-> "none"]
      /\ \A s \in Subs : IdOf(s) = NULL_SUBID
  BY DEF Init, IdOf
<1>2. \A s \in Subs : ~Member(s)
  BY <1>1 DEF Member, Undisturbed
<1> QED BY <1>1, <1>2 DEF Topic!Init

LEMMA NextTopic ==
  ASSUME DeliverInv, delayDelete \/ Reckless = FALSE, [Next]_vars
  PROVE  [Topic!Next]_Topic!vars
<1>1. TypeInv
  BY DEF DeliverInv
<1>2. ASSUME \E s \in Subs : Topic!Join(s) \/ Topic!Receive(s) \/ Topic!GiveUp(s) \/ Topic!Leave(s)
      PROVE  Topic!Next
  BY <1>2 DEF Topic!Next
<1>3. ASSUME NEW s \in Subs, NEW n \in 0 .. Len(Pending[s]), Topic!Take(s, n) \/ Topic!Lose(s, n)
      PROVE  Topic!Next
  BY <1>3 DEF Topic!Next, Pending
<1>4. CASE HandlePoll \/ HandleBatchPoll
  <2>1. PICK op \in Polls : Receive(op)
    BY <1>4 DEF HandlePoll, HandleBatchPoll, Polls
  <2>2. ASSUME NEW i \in DOMAIN event_queues
        PROVE  0 \in 0 .. Len(event_queues[i]) /\ Len(event_queues[i]) \in 0 .. Len(event_queues[i])
               /\ (event_queues[i] # <<>> => 1 \in 0 .. Len(event_queues[i]))
    BY <1>1 DEF TypeInv, TypeOK
  <2>3. Head(receiver).arg \in DOMAIN event_queues
    BY <1>4 DEF HandlePoll, HandleBatchPoll
  <2>4. PICK n \in 0 .. Len(event_queues[Head(receiver).arg]) : Hand(Head(receiver).arg, n)
    BY <1>4, <2>2 DEF HandlePoll, HandleBatchPoll
  <2> QED BY <1>3, <2>1, <2>3, <2>4, HandTopic
<1>5. CASE Bus
  <2>1. (\E e \in Events : Topic!Publish(e)) => Topic!Next
    BY DEF Topic!Next
  <2> QED BY <1>2, <1>4, <1>5, <2>1, EmptyAnswerUnseen, UnsubscribeUnseen, PushTopic, SubscribeTopic DEF Bus
<1>6. ASSUME NEW s \in Subs, Resume(s) \/ Client(s)
      PROVE  [Topic!Next]_Topic!vars
  <2>1. matcher[s] \in {"none"} \cup Polls
    BY <1>1 DEF TypeInv, TypeOK
  <2>2. MatchPoll(s) \/ FreePoll(s) => UNCHANGED Topic!vars
    BY <1>1, <2>1, ClientsUnseen DEF MatchPoll, FreePoll
  <2>3. Polled(s) => Topic!Next
    BY <1>1, <1>2, PolledReceives
  <2>4. Abandon(s) => Topic!Next
    BY <1>1, <1>2, AbandonTopic DEF DeliverInv
  <2>5. Drop(s) \/ (\E i \in Named : Unsubscribe(s, i)) => Topic!Next \/ UNCHANGED Topic!vars
    BY <1>1, <1>2, DropTopic, UnsubscribeTopic
  <2>6. Subscribe(s) \/ Subscribed(s) \/ Clone(s) \/ (\E op \in Polls : BeginMatch(s, op)) =>
          UNCHANGED Topic!vars
    BY <1>1, ClientsUnseen
  <2> QED BY <1>6, <2>2, <2>3, <2>4, <2>5, <2>6 DEF Resume, Client
<1>7. CASE (\E e \in Events : Publish(e)) \/ RequestCleanup \/ UNCHANGED vars
  BY <1>1, <1>7, ClientsUnseen
<1> QED BY <1>5, <1>6, <1>7 DEF Next

\* The bus implements PubSub for any number of subscribers, ids and events, in both
\* builds: every step of EventBus::run and of the handles is a step of PubSub or
\* changes nothing PubSub sees.  With delay-delete this holds whatever ids clients
\* pass to unsubscribe: who is named leaves, and nobody else.  Where ids are given
\* out again at once, it holds for clients that drop their one handle and call no
\* unsubscribe besides.
THEOREM BusRefinement ==
  ASSUME FALSE \in Builds => Reckless = FALSE
  PROVE  Spec => ImplementsPubSub
<1> DEFINE Inv == delayDelete \/ Reckless = FALSE => DeliverInv
<1>1. Init => Topic!Init
  BY InitTopic
<1>2. TypeInv /\ Inv => DeliverInv /\ (delayDelete \/ Reckless = FALSE)
  BY FeatureAssumption DEF TypeInv, TypeOK
<1>3. DeliverInv /\ (delayDelete \/ Reckless = FALSE) /\ [Next]_vars => [Topic!Next]_Topic!vars
  BY NextTopic
<1>4. Spec => []Inv
  BY Delivers
<1> HIDE DEF Inv
<1> QED BY <1>1, <1>2, <1>3, <1>4, Types, PTL DEF Spec, ImplementsPubSub, Topic!Spec
===============================================================================
