---------------------------- MODULE EventBusProofs ----------------------------
(***************************************************************************)
(* Proofs about EventBus, for any number of subscribers, ids and events:   *)
(* what the bus does with its ids, whatever it receives, and the types,    *)
(* with what a subscriber and the mailbox know of the call it waits for.   *)
(***************************************************************************)
EXTENDS EventBus, SequenceTheorems, TLAPS

\* What the bus alone makes true, whatever messages it receives: its ids are ids,
\* and nothing waits for cleanup where ids are given back at once.
IdsInv ==
  /\ IdsApart
  /\ ids \subseteq SubIds
  /\ DOMAIN event_queues \subseteq SubIds
  /\ ~delayDelete => recycle = {}

\* A message, a reply or a handle on the clients' side leaves the ids alone.
LEMMA ClientsKeepIds ==
  ASSUME IdsInv, UNCHANGED <<delayDelete, busVars>>
  PROVE  IdsInv'
BY DEF IdsInv, IdsApart, busVars, SubIds

\* The bus neither mislays an id nor has it in two places, whatever it receives.
LEMMA BusKeepsIds ==
  ASSUME IdsInv, Bus
  PROVE  IdsInv'
<1>1. CASE HandleSubscribe
  <2>1. PICK new_id \in ids :
          /\ event_queues' = WithQueue(new_id, <<>>)
          /\ ids' = ids \ {new_id}
    BY <1>1 DEF HandleSubscribe
  <2>2. DOMAIN event_queues' = DOMAIN event_queues \cup {new_id}
    BY <2>1 DEF WithQueue
  <2>3. UNCHANGED <<delayDelete, recycle>>
    BY <1>1 DEF HandleSubscribe
  <2> QED BY <2>1, <2>2, <2>3 DEF IdsInv, IdsApart, SubIds
<1>2. CASE HandleSubscribeExhausted
  BY <1>2, ClientsKeepIds DEF HandleSubscribeExhausted
<1>3. CASE HandleUnsubscribe
  <2> DEFINE i == Head(receiver).arg
  <2>1. /\ DOMAIN event_queues' = DOMAIN event_queues \ {i}
        /\ ids' = ids \cup ({i} \cap DOMAIN event_queues)
        /\ UNCHANGED <<delayDelete, recycle>>
    BY <1>3 DEF HandleUnsubscribe, Without
  <2> HIDE DEF i
  <2> QED BY <2>1 DEF IdsInv, IdsApart, SubIds
<1>4. CASE HandleUnsubscribeLater
  BY <1>4 DEF HandleUnsubscribeLater, IdsInv, IdsApart, SubIds
<1>5. CASE HandleCleanup
  <2>1. /\ DOMAIN event_queues' = DOMAIN event_queues \ recycle
        /\ recycle' = {}
        /\ UNCHANGED <<delayDelete, ids>>
    BY <1>5 DEF HandleCleanup, Without
  <2> QED BY <2>1 DEF IdsInv, IdsApart, SubIds
<1>6. CASE HandlePush
  <2>1. /\ DOMAIN event_queues' = DOMAIN event_queues
        /\ UNCHANGED <<delayDelete, ids, recycle>>
    BY <1>6 DEF HandlePush
  <2> QED BY <2>1 DEF IdsInv, IdsApart, SubIds
<1>7. ASSUME NEW i \in DOMAIN event_queues, NEW n, Hand(i, n)
      PROVE  IdsInv'
  <2>1. /\ DOMAIN event_queues' = DOMAIN event_queues
        /\ UNCHANGED <<delayDelete, ids, recycle>>
    BY <1>7 DEF Hand, WithQueue
  <2> QED BY <2>1 DEF IdsInv, IdsApart, SubIds
<1>8. CASE HandlePoll
  BY <1>7, <1>8 DEF HandlePoll
<1>9. CASE HandleBatchPoll
  BY <1>7, <1>9 DEF HandleBatchPoll
<1>10. CASE HandleStrayPoll
  BY <1>10, ClientsKeepIds DEF HandleStrayPoll
<1> QED
  BY <1>1, <1>2, <1>3, <1>4, <1>5, <1>6, <1>8, <1>9, <1>10 DEF Bus

LEMMA InitIds == Init => IdsInv
BY DEF Init, IdsInv, IdsApart, SubIds

LEMMA NextIds == IdsInv /\ [Next]_vars => IdsInv'
<1> SUFFICES ASSUME IdsInv, [Next]_vars PROVE IdsInv'
  OBVIOUS
<1>1. CASE Bus
  BY <1>1, BusKeepsIds
<1>2. ASSUME NEW s \in Subs, Resume(s) \/ Client(s)
      PROVE  UNCHANGED <<delayDelete, busVars>>
  BY <1>2 DEF Resume, Client, Subscribe, Subscribed, Polled, MatchPoll, FreePoll,
     CallPoll, BeginMatch, Abandon, Unsubscribe, Clone, Drop
<1>3. ASSUME NEW e \in Events, Publish(e)
      PROVE  UNCHANGED <<delayDelete, busVars>>
  BY <1>3 DEF Publish
<1>4. RequestCleanup => UNCHANGED <<delayDelete, busVars>>
  BY DEF RequestCleanup
<1>5. UNCHANGED vars => UNCHANGED <<delayDelete, busVars>>
  BY DEF vars
<1> QED BY <1>1, <1>2, <1>3, <1>4, <1>5, ClientsKeepIds DEF Next

\* IdsApart holds of every behaviour: however handles are made, cloned, dropped
\* and polled, even by clients that tell the bus twice, no id is both free and in
\* use (EventBus::subscribe, unsubscribe and cleanup), and without delay-delete
\* every id is one or the other.
THEOREM IdsNeverShared == Spec => []IdsApart
<1>1. IdsInv => IdsApart
  BY DEF IdsInv
<1> QED BY InitIds, NextIds, <1>1, PTL DEF Spec

-----------------------------------------------------------------------------
(* Type correctness.  A subscriber has one message or one answer of its    *)
(* call under way and nothing when it waits for none, so that the bounded  *)
(* reply channel never overflows; and it has a handle only with an id.     *)

Answers == [id : SubIds \cup {NULL_SUBID}, events : Seq(Events)]

OneMessage == \A s \in Subs : \A k \in DOMAIN receiver : receiver[k].reply = s =>
  /\ call[s] = receiver[k].op
  /\ reply[s] = <<>>
  /\ call[s] \in Polls => receiver[k].arg = id[s]
  /\ \A j \in DOMAIN receiver : receiver[j].reply = s => j = k
OneAnswer == \A s \in Subs : reply[s] # <<>> =>
  /\ Len(reply[s]) = 1
  /\ call[s] \in {"Subscribe"} \cup Polls
  /\ call[s] \in Polls => Head(reply[s]).id = id[s]
  /\ call[s] = "Subscribe" => Head(reply[s]).events = <<>>
Holders == \A s \in Subs :
  /\ call[s] \in {"none", "Subscribe", "left"} => handles[s] = 0
  /\ call[s] \in {"none", "Subscribe", "left"} <=> id[s] = NULL_SUBID
  /\ id[s] = NULL_SUBID => got[s] = <<>>

TypeInv == /\ TypeOK
           /\ reply \in [Subs -> Seq(Answers)]
           /\ OneMessage /\ OneAnswer /\ Holders

\* What goes into a channel or a queue goes to its end.
LEMMA AppendElements ==
  ASSUME NEW S, NEW s \in Seq(S), NEW e \in S
  PROVE  /\ Append(s, e) \in Seq(S)
         /\ DOMAIN Append(s, e) = DOMAIN s \cup {Len(s) + 1}
         /\ Len(s) + 1 \notin DOMAIN s
         /\ \A i \in DOMAIN s : Append(s, e)[i] = s[i]
         /\ Append(s, e)[Len(s) + 1] = e
OBVIOUS

\* What the bus receives comes off the front, and the rest moves up by one.
LEMMA TailElements ==
  ASSUME NEW S, NEW s \in Seq(S), s # <<>>
  PROVE  /\ Tail(s) \in Seq(S)
         /\ 1 \in DOMAIN s /\ Head(s) = s[1] /\ Head(s) \in S
         /\ \A i \in DOMAIN Tail(s) : /\ i \in Nat /\ i + 1 \in DOMAIN s /\ i + 1 # 1
                                      /\ Tail(s)[i] = s[i + 1]
OBVIOUS

LEMMA MessageTypes ==
  /\ \A s \in Subs : Message("Subscribe", Nobody, s) \in Messages
  /\ \A op \in Polls, i \in SubIds, s \in Subs : Message(op, i, s) \in Messages
  /\ \A i \in SubIds : Message("Unsubscribe", i, Nobody) \in Messages
  /\ \A e \in Events : Message("PushEvent", e, Nobody) \in Messages
  /\ CleanUpBgTask \in Messages
BY DEF Message, Messages, CleanUpBgTask

\* Who waits for the answer of a message is in the call that sent it, and the
\* other messages have nobody who waits.
LEMMA MessageKinds ==
  \A m \in Messages :
    /\ m.reply \in Subs \cup {Nobody}
    /\ m.reply \in Subs => m.op \in {"Subscribe"} \cup Polls
    /\ m.op \in Polls \cup {"Unsubscribe"} => m.arg \in SubIds
    /\ m.op = "PushEvent" => m.arg \in Events
    /\ m.op \in {"Unsubscribe", "PushEvent", "CleanUpBgTask"} => m.reply = Nobody
BY NobodyAssumption DEF Messages, Polls

LEMMA AnswerTypes ==
  \A i \in SubIds \cup {NULL_SUBID}, events \in Seq(Events) :
    /\ Answer(i, events) \in Answers
    /\ Answer(i, events).id = i
    /\ Answer(i, events).events = events
BY DEF Answer, Answers

\* A message of a subscriber that waited for nothing, or of nobody.
LEMMA SentMail ==
  ASSUME TypeInv, NEW m \in Messages, receiver' = Append(receiver, m), UNCHANGED <<reply, id>>,
         \A s \in Subs : m.reply # s => call'[s] = call[s],
         \A s \in Subs : m.reply = s => /\ call[s] \notin {"Subscribe"} \cup Polls
                                        /\ call'[s] = m.op
                                        /\ call'[s] \in Polls => m.arg = id[s]
  PROVE  receiver' \in Seq(Messages) /\ OneMessage' /\ OneAnswer'
<1>1. receiver \in Seq(Messages)
  BY DEF TypeInv, TypeOK
<1>2. /\ receiver' \in Seq(Messages)
      /\ DOMAIN receiver' = DOMAIN receiver \cup {Len(receiver) + 1}
      /\ Len(receiver) + 1 \notin DOMAIN receiver
      /\ \A i \in DOMAIN receiver : receiver'[i] = receiver[i]
      /\ receiver'[Len(receiver) + 1] = m
  BY <1>1, AppendElements
<1>3. ASSUME NEW s \in Subs, NEW k \in DOMAIN receiver, m.reply = s, receiver[k].reply = s
      PROVE  FALSE
  <2>1. receiver[k] \in Messages
    BY <1>1
  <2>2. receiver[k].op \in {"Subscribe"} \cup Polls /\ call[s] = receiver[k].op
    BY <1>3, <2>1, MessageKinds DEF TypeInv, OneMessage
  <2> QED BY <1>3, <2>2
<1>4. ASSUME NEW s \in Subs, m.reply = s PROVE reply[s] = <<>>
  BY <1>4 DEF TypeInv, OneAnswer
<1>5. OneMessage'
  <2> SUFFICES ASSUME NEW s \in Subs, NEW k \in DOMAIN receiver', receiver'[k].reply = s
               PROVE  /\ call'[s] = receiver'[k].op
                      /\ reply[s] = <<>>
                      /\ call'[s] \in Polls => receiver'[k].arg = id[s]
                      /\ \A j \in DOMAIN receiver' : receiver'[j].reply = s => j = k
    BY DEF OneMessage
  <2>1. CASE m.reply = s
    <3>1. k = Len(receiver) + 1 /\ \A j \in DOMAIN receiver' : receiver'[j].reply = s => j = k
      BY <1>2, <1>3, <2>1
    <3> QED BY <1>2, <1>4, <2>1, <3>1
  <2>2. CASE m.reply # s
    <3>1. k \in DOMAIN receiver /\ \A j \in DOMAIN receiver' : receiver'[j].reply = s => j \in DOMAIN receiver
      BY <1>2, <2>2
    <3> QED BY <1>2, <2>2, <3>1 DEF TypeInv, OneMessage
  <2> QED BY <2>1, <2>2
<1>6. OneAnswer'
  BY <1>4 DEF TypeInv, OneAnswer
<1> QED BY <1>2, <1>5, <1>6

\* The bus takes a message and answers who waits, if somebody does.
LEMMA AnsweredMail ==
  ASSUME TypeInv, receiver # <<>>, receiver' = Tail(receiver), UNCHANGED <<call, id>>,
         NEW a \in Answers, Respond(a),
         \A s \in Subs : Head(receiver).reply = s =>
           /\ call[s] \in Polls => a.id = id[s]
           /\ call[s] = "Subscribe" => a.events = <<>>
  PROVE  /\ receiver' \in Seq(Messages) /\ OneMessage' /\ OneAnswer'
         /\ reply' \in [Subs -> Seq(Answers)] /\ \A s \in Subs : Len(reply'[s]) <= 1
<1> DEFINE to == Head(receiver).reply
<1>1. /\ receiver \in Seq(Messages) /\ reply \in [Subs -> Seq(Answers)]
      /\ \A s \in Subs : Len(reply[s]) <= 1
  BY DEF TypeInv, TypeOK
<1>2. /\ receiver' \in Seq(Messages)
      /\ 1 \in DOMAIN receiver /\ Head(receiver) = receiver[1] /\ Head(receiver) \in Messages
      /\ \A i \in DOMAIN receiver' : /\ i \in Nat /\ i + 1 \in DOMAIN receiver /\ i + 1 # 1
                                     /\ receiver'[i] = receiver[i + 1]
  BY <1>1, TailElements
<1>3. ASSUME NEW s \in Subs, to = s
      PROVE  /\ reply'[s] = <<a>> /\ reply[s] = <<>>
             /\ call[s] \in {"Subscribe"} \cup Polls
             /\ \A k \in DOMAIN receiver' : receiver'[k].reply # s
  <2>1. reply[s] = <<>> /\ call[s] = Head(receiver).op
        /\ \A j \in DOMAIN receiver : receiver[j].reply = s => j = 1
    BY <1>2, <1>3 DEF TypeInv, OneMessage
  <2>2. reply'[s] = Append(reply[s], a)
    BY <1>1, <1>3 DEF Respond
  <2> QED BY <1>2, <1>3, <2>1, <2>2, MessageKinds
<1>4. ASSUME NEW s \in Subs, to # s PROVE reply'[s] = reply[s]
  BY <1>1, <1>4 DEF Respond
<1>5. /\ reply' \in [Subs -> Seq(Answers)] /\ \A s \in Subs : Len(reply'[s]) <= 1
  <2>1. DOMAIN reply' = Subs /\ reply' = [s \in Subs |-> reply'[s]]
    BY <1>1 DEF Respond
  <2>2. \A s \in Subs : reply'[s] \in Seq(Answers) /\ Len(reply'[s]) <= 1
    <3> TAKE s \in Subs
    <3>1. CASE to = s
      <4>1. <<a>> \in Seq(Answers) /\ Len(<<a>>) <= 1
        OBVIOUS
      <4> QED BY <1>3, <3>1, <4>1
    <3>2. CASE to # s
      BY <1>1, <1>4, <3>2
    <3> QED BY <3>1, <3>2
  <2> QED BY <2>1, <2>2
<1>6. OneMessage'
  <2> SUFFICES ASSUME NEW s \in Subs, NEW k \in DOMAIN receiver', receiver'[k].reply = s
               PROVE  /\ call[s] = receiver'[k].op
                      /\ reply'[s] = <<>>
                      /\ call[s] \in Polls => receiver'[k].arg = id[s]
                      /\ \A j \in DOMAIN receiver' : receiver'[j].reply = s => j = k
    BY DEF OneMessage
  <2>1. reply'[s] = reply[s]
    BY <1>3, <1>4
  <2>2. receiver[k + 1].reply = s /\ k + 1 \in DOMAIN receiver
    BY <1>2
  <2>3. /\ call[s] = receiver[k + 1].op /\ reply[s] = <<>>
        /\ call[s] \in Polls => receiver[k + 1].arg = id[s]
        /\ \A j \in DOMAIN receiver : receiver[j].reply = s => j = k + 1
    BY <2>2 DEF TypeInv, OneMessage
  <2>4. ASSUME NEW j \in DOMAIN receiver', receiver'[j].reply = s PROVE j = k
    <3>1. j + 1 \in DOMAIN receiver /\ receiver[j + 1].reply = s /\ j \in Nat /\ k \in Nat
      BY <1>2, <2>4
    <3>2. j + 1 = k + 1
      BY <2>3, <3>1
    <3> QED BY <3>1, <3>2
  <2> QED BY <1>2, <2>1, <2>3, <2>4
<1>7. OneAnswer'
  <2> SUFFICES ASSUME NEW s \in Subs, reply'[s] # <<>>
               PROVE  /\ Len(reply'[s]) = 1
                      /\ call[s] \in {"Subscribe"} \cup Polls
                      /\ call[s] \in Polls => Head(reply'[s]).id = id[s]
                      /\ call[s] = "Subscribe" => Head(reply'[s]).events = <<>>
    BY DEF OneAnswer
  <2>1. CASE to = s
    <3>1. Len(<<a>>) = 1 /\ Head(<<a>>) = a
      OBVIOUS
    <3> QED BY <1>3, <2>1, <3>1
  <2>2. CASE to # s
    BY <1>4, <2>2 DEF TypeInv, OneAnswer
  <2> QED BY <2>1, <2>2
<1> QED BY <1>2, <1>5, <1>6, <1>7

\* The bus takes a message that nobody waits for.
LEMMA TakenMail ==
  ASSUME TypeInv, receiver # <<>>, receiver' = Tail(receiver), UNCHANGED <<call, id, reply>>
  PROVE  receiver' \in Seq(Messages) /\ OneMessage' /\ OneAnswer'
<1>1. receiver \in Seq(Messages)
  BY DEF TypeInv, TypeOK
<1>2. /\ receiver' \in Seq(Messages)
      /\ \A i \in DOMAIN receiver' : /\ i \in Nat /\ i + 1 \in DOMAIN receiver
                                     /\ receiver'[i] = receiver[i + 1]
  BY <1>1, TailElements
<1>3. OneMessage'
  <2> SUFFICES ASSUME NEW s \in Subs, NEW k \in DOMAIN receiver', receiver'[k].reply = s
               PROVE  /\ call[s] = receiver'[k].op
                      /\ reply[s] = <<>>
                      /\ call[s] \in Polls => receiver'[k].arg = id[s]
                      /\ \A j \in DOMAIN receiver' : receiver'[j].reply = s => j = k
    BY DEF OneMessage
  <2>1. /\ call[s] = receiver[k + 1].op /\ reply[s] = <<>>
        /\ call[s] \in Polls => receiver[k + 1].arg = id[s]
        /\ \A j \in DOMAIN receiver : receiver[j].reply = s => j = k + 1
    BY <1>2 DEF TypeInv, OneMessage
  <2>2. ASSUME NEW j \in DOMAIN receiver', receiver'[j].reply = s PROVE j = k
    <3>1. j + 1 = k + 1 /\ j \in Nat /\ k \in Nat
      BY <1>2, <2>1, <2>2
    <3> QED BY <3>1
  <2> QED BY <1>2, <2>1, <2>2
<1>4. OneAnswer'
  BY DEF TypeInv, OneAnswer
<1> QED BY <1>2, <1>3, <1>4

LEMMA FunctionIsSeq ==
  ASSUME NEW S, NEW n \in Nat, NEW f \in [1 .. n -> S]
  PROVE  f \in Seq(S)
OBVIOUS

\* The answer in a reply channel, and the channel when it is empty.
LEMMA HeadAnswer ==
  ASSUME TypeInv, NEW s \in Subs, reply[s] # <<>>
  PROVE  Head(reply[s]).id \in SubIds \cup {NULL_SUBID} /\ Head(reply[s]).events \in Seq(Events)
<1>1. reply[s] \in Seq(Answers)
  BY DEF TypeInv
<1>2. Head(reply[s]) \in Answers
  BY <1>1, TailElements
<1> QED BY <1>2 DEF Answers

LEMMA EmptiedReply ==
  ASSUME TypeInv, NEW s \in Subs, reply' = [reply EXCEPT ![s] = <<>>]
  PROVE  /\ reply' \in [Subs -> Seq(Answers)]
         /\ reply'[s] = <<>>
         /\ \A o \in Subs : o # s => reply'[o] = reply[o]
         /\ \A o \in Subs : Len(reply'[o]) <= 1
<1>1. /\ reply \in [Subs -> Seq(Answers)] /\ \A o \in Subs : Len(reply[o]) <= 1
  BY DEF TypeInv, TypeOK
<1>2. reply' \in [Subs -> Seq(Answers)] /\ Len(<<>>) <= 1
  BY <1>1
<1>3. reply'[s] = <<>> /\ \A o \in Subs : o # s => reply'[o] = reply[o]
  BY <1>1
<1> QED BY <1>1, <1>2, <1>3

\* A subscriber that has an answer has no message in the mailbox.
LEMMA NoMessage ==
  ASSUME TypeInv, NEW s \in Subs, reply[s] # <<>>
  PROVE  \A k \in DOMAIN receiver : receiver[k].reply # s
BY DEF TypeInv, OneMessage

\* The rest of the types, when the reply channels have theirs.
LEMMA ReplyTypes ==
  ASSUME reply' \in [Subs -> Seq(Answers)]
  PROVE  \A s \in Subs : reply'[s] \in Seq([id : SubIds \cup {NULL_SUBID}, events : Seq(Events)])
BY DEF Answers

\* What a step of a subscriber that sends nothing must keep.
LEMMA LocalMail ==
  ASSUME TypeInv, NEW s \in Subs, reply[s] # <<>>, UNCHANGED receiver,
         reply' = [reply EXCEPT ![s] = <<>>],
         \A o \in Subs : o # s => call'[o] = call[o] /\ id'[o] = id[o]
  PROVE  OneMessage' /\ OneAnswer'
<1>1. \A k \in DOMAIN receiver : receiver[k].reply # s
  BY NoMessage
<1>2. reply'[s] = <<>> /\ \A o \in Subs : o # s => reply'[o] = reply[o]
  BY EmptiedReply
<1>3. OneMessage'
  BY <1>1, <1>2 DEF TypeInv, OneMessage
<1>4. OneAnswer'
  BY <1>2 DEF TypeInv, OneAnswer
<1> QED BY <1>3, <1>4

LEMMA InitTypes == Init => TypeInv
BY IdAssumption DEF Init, TypeInv, TypeOK, OneMessage, OneAnswer, Holders, SubIds, Calls, Polls

\* The first n events of a queue and the rest are both sequences of events.
LEMMA SplitTypes ==
  ASSUME NEW q \in Seq(Events), NEW n \in 0 .. Len(q)
  PROVE  /\ SubSeq(q, 1, n) \in Seq(Events) /\ SubSeq(q, n + 1, Len(q)) \in Seq(Events)
         /\ SubSeq(q, 1, n) \o SubSeq(q, n + 1, Len(q)) = q
<1>1. \A i \in 1 .. n : q[i] \in Events
  OBVIOUS
<1>2. \A i \in n + 1 .. Len(q) : q[i] \in Events
  OBVIOUS
<1>3. SubSeq(q, 1, n) \in Seq(Events) /\ SubSeq(q, n + 1, Len(q)) \in Seq(Events)
  BY <1>1, <1>2, SubSeqProperties
<1>4. SubSeq(q, 1, n) \o SubSeq(q, n + 1, Len(q)) = SubSeq(q, 1, Len(q))
  <2>1. 1 \in 1 .. Len(q) + 1 /\ n \in 1 - 1 .. Len(q) /\ Len(q) \in n .. Len(q)
    OBVIOUS
  <2> QED BY <2>1, ConcatAdjacentSubSeq
<1> QED BY <1>3, <1>4, SubSeqFull

\* The steps of the subscribers that send nothing.
LEMMA LocalTypes ==
  ASSUME TypeInv, NEW s \in Subs,
         Subscribed(s) \/ Polled(s) \/ (\E op \in Polls : BeginMatch(s, op)) \/ Clone(s)
  PROVE  TypeInv'
<1>1. CASE Subscribed(s)
  <2> DEFINE new_id == Head(reply[s]).id
  <2>1. /\ call[s] = "Subscribe" /\ reply[s] # <<>> /\ UNCHANGED receiver
        /\ reply' = [reply EXCEPT ![s] = <<>>]
        /\ UNCHANGED <<delayDelete, busVars, matcher, got, told, guessed, gaveUp, published, history>>
        /\ \/ /\ new_id # NULL_SUBID
              /\ id' = [id EXCEPT ![s] = new_id]
              /\ handles' = [handles EXCEPT ![s] = 1]
              /\ call' = [call EXCEPT ![s] = "idle"]
           \/ /\ call' = [call EXCEPT ![s] = "none"]
              /\ UNCHANGED <<id, handles>>
    BY <1>1 DEF Subscribed
  <2>2. new_id \in SubIds \cup {NULL_SUBID}
    BY <2>1, HeadAnswer
  <2> HIDE DEF new_id
  <2>3. reply' \in [Subs -> Seq(Answers)] /\ \A o \in Subs : Len(reply'[o]) <= 1
    BY <2>1, EmptiedReply
  <2>9. /\ id' \in [Subs -> SubIds \cup {NULL_SUBID}]
        /\ handles' \in [Subs -> 0 .. 2]
        /\ call' \in [Subs -> Calls]
    <3>1. id \in [Subs -> SubIds \cup {NULL_SUBID}] /\ handles \in [Subs -> 0 .. 2] /\ call \in [Subs -> Calls]
      BY DEF TypeInv, TypeOK
    <3>2. "idle" \in Calls /\ "none" \in Calls /\ 1 \in 0 .. 2
      BY DEF Calls
    <3> QED BY <2>1, <2>2, <3>1, <3>2
  <2>4. TypeOK'
    BY <2>1, <2>3, <2>9, ReplyTypes DEF TypeInv, TypeOK, busVars, history
  <2>5. OneMessage' /\ OneAnswer'
    BY <2>1, LocalMail DEF TypeInv, TypeOK
  <2>6. Holders'
    BY <2>1, <2>2 DEF TypeInv, TypeOK, Holders, Polls
  <2> QED BY <2>3, <2>4, <2>5, <2>6 DEF TypeInv
<1>2. CASE Polled(s)
  <2> DEFINE events == Head(reply[s]).events
  <2>1. /\ call[s] \in Polls /\ reply[s] # <<>> /\ UNCHANGED receiver
        /\ reply' = [reply EXCEPT ![s] = <<>>] /\ call' = [call EXCEPT ![s] = "idle"]
        /\ got' = [got EXCEPT ![s] = @ \o events]
        /\ matcher' = [matcher EXCEPT ![s] = IF Found(events) THEN "none" ELSE @]
        /\ UNCHANGED <<delayDelete, busVars, handles, id, told, guessed, gaveUp, published, history>>
    BY <1>2 DEF Polled
  <2>2. events \in Seq(Events)
    BY <2>1, HeadAnswer
  <2>3. got[s] \o events \in Seq(Events)
    BY <2>2, ConcatProperties DEF TypeInv, TypeOK
  <2> HIDE DEF events
  <2>4. reply' \in [Subs -> Seq(Answers)] /\ \A o \in Subs : Len(reply'[o]) <= 1
    BY <2>1, EmptiedReply
  <2>5. got' \in [Subs -> Seq(Events)] /\ matcher' \in [Subs -> {"none"} \cup Polls]
    BY <2>1, <2>3 DEF TypeInv, TypeOK
  <2>6. TypeOK'
    BY <2>1, <2>4, <2>5, ReplyTypes DEF TypeInv, TypeOK, Calls, busVars, history
  <2>7. OneMessage' /\ OneAnswer'
    BY <2>1, LocalMail DEF TypeInv, TypeOK
  <2>8. Holders'
    BY <2>1, <2>2 DEF TypeInv, TypeOK, Holders, Polls
  <2> QED BY <2>4, <2>6, <2>7, <2>8 DEF TypeInv
<1>3. ASSUME UNCHANGED <<delayDelete, receiver, busVars, id, call, got, told, guessed, gaveUp, reply, published, history>>,
             handles' \in [Subs -> 0 .. 2], matcher' \in [Subs -> {"none"} \cup Polls],
             \A o \in Subs : handles[o] = 0 => handles'[o] = 0
      PROVE  TypeInv'
  <2>1. TypeOK' /\ reply' \in [Subs -> Seq(Answers)]
    BY <1>3 DEF TypeInv, TypeOK, busVars, history
  <2>2. OneMessage'
    BY <1>3 DEF TypeInv, OneMessage
  <2>3. OneAnswer'
    BY <1>3 DEF TypeInv, OneAnswer
  <2>4. Holders'
    BY <1>3 DEF TypeInv, Holders
  <2> QED BY <2>1, <2>2, <2>3, <2>4 DEF TypeInv
<1>4. ASSUME NEW op \in Polls, BeginMatch(s, op) PROVE TypeInv'
  <2>1. matcher' \in [Subs -> {"none"} \cup Polls] /\ handles' \in [Subs -> 0 .. 2]
    BY <1>4 DEF TypeInv, TypeOK, BeginMatch
  <2> QED BY <1>3, <1>4, <2>1 DEF BeginMatch
<1>5. CASE Clone(s)
  <2>1. /\ matcher' \in [Subs -> {"none"} \cup Polls] /\ handles' \in [Subs -> 0 .. 2]
        /\ \A o \in Subs : handles[o] = 0 => handles'[o] = 0
    BY <1>5 DEF TypeInv, TypeOK, Clone
  <2> QED BY <1>3, <1>5, <2>1 DEF Clone
<1> QED BY <1>1, <1>2, <1>4, <1>5

\* A call that is given up leaves a message that nobody waits for, and no answer.
LEMMA AbandonedMail ==
  ASSUME TypeInv, NEW s \in Subs, Abandon(s)
  PROVE  /\ DOMAIN receiver' = DOMAIN receiver /\ receiver' \in Seq(Messages)
         /\ \A k \in DOMAIN receiver :
              /\ receiver'[k].op = receiver[k].op /\ receiver'[k].arg = receiver[k].arg
              /\ receiver'[k].reply = IF receiver[k].reply = s THEN Nobody ELSE receiver[k].reply
<1>1. receiver' = [k \in DOMAIN receiver |->
                    [receiver[k] EXCEPT !.reply = IF @ = s THEN Nobody ELSE @]]
  BY DEF Abandon
<1>2. /\ DOMAIN receiver = 1 .. Len(receiver) /\ Len(receiver) \in Nat
      /\ receiver \in [DOMAIN receiver -> Messages]
  BY LenProperties DEF TypeInv, TypeOK
<1>3. ASSUME NEW k \in DOMAIN receiver
      PROVE  /\ receiver'[k] \in Messages
             /\ receiver'[k].op = receiver[k].op /\ receiver'[k].arg = receiver[k].arg
             /\ receiver'[k].reply = IF receiver[k].reply = s THEN Nobody ELSE receiver[k].reply
  <2>1. receiver[k] \in Messages
    BY <1>2
  <2>2. receiver'[k] = [receiver[k] EXCEPT !.reply = IF @ = s THEN Nobody ELSE @]
    BY <1>1
  <2>3. receiver[k].reply = s => receiver[k].op \in {"Subscribe"} \cup Polls
    BY <2>1, MessageKinds
  <2> QED BY <2>1, <2>2, <2>3 DEF Messages, Polls
<1>4. DOMAIN receiver' = DOMAIN receiver /\ receiver' \in Seq(Messages)
  <2>1. receiver' \in [1 .. Len(receiver) -> Messages]
    BY <1>1, <1>2, <1>3
  <2> QED BY <1>1, <1>2, <2>1, FunctionIsSeq
<1> QED BY <1>3, <1>4

LEMMA AbandonTypes ==
  ASSUME TypeInv, NEW s \in Subs, Abandon(s)
  PROVE  TypeInv'
<1>1. /\ call[s] \in {"Subscribe"} \cup Polls /\ s \in GiveUps
      /\ gaveUp' = gaveUp \cup {s}
      /\ call' = [call EXCEPT ![s] = IF @ = "Subscribe" THEN "left" ELSE "idle"]
      /\ matcher' = [matcher EXCEPT ![s] = "none"]
      /\ receiver' = [k \in DOMAIN receiver |->
                        [receiver[k] EXCEPT !.reply = IF @ = s THEN Nobody ELSE @]]
      /\ reply' = [reply EXCEPT ![s] = <<>>]
      /\ UNCHANGED <<delayDelete, busVars, handles, id, got, told, guessed, published, history>>
  BY DEF Abandon
<1>3. ASSUME NEW k \in DOMAIN receiver
      PROVE  /\ receiver'[k].op = receiver[k].op /\ receiver'[k].arg = receiver[k].arg
             /\ receiver'[k].reply = IF receiver[k].reply = s THEN Nobody ELSE receiver[k].reply
  BY <1>3, AbandonedMail
<1>4. DOMAIN receiver' = DOMAIN receiver /\ receiver' \in Seq(Messages)
  BY AbandonedMail
<1>5. /\ reply' \in [Subs -> Seq(Answers)] /\ reply'[s] = <<>>
      /\ \A o \in Subs : Len(reply'[o]) <= 1
      /\ \A o \in Subs : o # s => reply'[o] = reply[o]
  BY <1>1, EmptiedReply
<1>6. \A o \in Subs : o # s => call'[o] = call[o]
  BY <1>1 DEF TypeInv, TypeOK
<1>7. TypeOK'
  <2>1. call' \in [Subs -> Calls] /\ matcher' \in [Subs -> {"none"} \cup Polls] /\ gaveUp' \subseteq Subs
    BY <1>1 DEF TypeInv, TypeOK, Calls
  <2> QED BY <1>1, <1>4, <1>5, <2>1, ReplyTypes DEF TypeInv, TypeOK, busVars, history
<1>8. OneMessage'
  <2>1. ASSUME NEW o \in Subs, NEW k \in DOMAIN receiver', receiver'[k].reply = o
        PROVE  o # s /\ k \in DOMAIN receiver /\ receiver[k].reply = o
    BY <1>3, <1>4, <2>1, NobodyAssumption
  <2> SUFFICES ASSUME NEW o \in Subs, NEW k \in DOMAIN receiver', receiver'[k].reply = o
               PROVE  /\ call'[o] = receiver'[k].op
                      /\ reply'[o] = <<>>
                      /\ call'[o] \in Polls => receiver'[k].arg = id'[o]
                      /\ \A j \in DOMAIN receiver' : receiver'[j].reply = o => j = k
    BY DEF OneMessage
  <2>2. o # s /\ k \in DOMAIN receiver /\ receiver[k].reply = o
    BY <2>1
  <2>3. /\ call[o] = receiver[k].op /\ reply[o] = <<>>
        /\ call[o] \in Polls => receiver[k].arg = id[o]
        /\ \A j \in DOMAIN receiver : receiver[j].reply = o => j = k
    BY <2>2 DEF TypeInv, OneMessage
  <2> QED BY <1>1, <1>3, <1>5, <1>6, <2>1, <2>2, <2>3
<1>9. OneAnswer'
  BY <1>1, <1>5, <1>6 DEF TypeInv, OneAnswer
<1>10. Holders'
  BY <1>1 DEF TypeInv, TypeOK, Holders, Polls
<1> QED BY <1>5, <1>7, <1>8, <1>9, <1>10 DEF TypeInv

\* The steps that send a message.
LEMMA SendTypes ==
  ASSUME TypeInv,
         \/ \E s \in Subs : \/ Subscribe(s) \/ Drop(s)
                            \/ \E i \in Named : Unsubscribe(s, i)
                            \/ \E op \in Polls : CallPoll(s, op)
         \/ \E e \in Events : Publish(e)
         \/ RequestCleanup
  PROVE  TypeInv'
<1> USE DEF TypeInv, TypeOK
<1>1. ASSUME NEW s \in Subs, Subscribe(s) PROVE TypeInv'
  <2> DEFINE m == Message("Subscribe", Nobody, s)
  <2>1. m \in Messages /\ m.op = "Subscribe" /\ m.reply = s
    BY MessageTypes DEF Message
  <2>2. /\ receiver' = Append(receiver, m) /\ call[s] = "none"
        /\ call' = [call EXCEPT ![s] = "Subscribe"]
        /\ UNCHANGED <<delayDelete, busVars, handles, id, matcher, got, told, guessed, gaveUp, reply, published, history>>
    BY <1>1 DEF Subscribe, Send
  <2> HIDE DEF m
  <2>3. receiver' \in Seq(Messages) /\ OneMessage' /\ OneAnswer'
    BY <2>1, <2>2, SentMail DEF Polls
  <2> QED BY <2>2, <2>3 DEF Calls, busVars, history, Holders, Polls
<1>2. ASSUME NEW s \in Subs, NEW op \in Polls, CallPoll(s, op) PROVE TypeInv'
  <2> DEFINE m == Message(op, id[s], s)
  <2>1. /\ receiver' = Append(receiver, m) /\ call[s] = "idle"
        /\ call' = [call EXCEPT ![s] = op]
        /\ UNCHANGED <<delayDelete, busVars, handles, id, matcher, got, told, guessed, gaveUp, reply, published, history>>
    BY <1>2 DEF CallPoll, Send
  <2>2. id[s] \in SubIds
    BY <2>1 DEF Holders
  <2>3. m \in Messages /\ m.op = op /\ m.reply = s /\ m.arg = id[s]
    BY <2>2, MessageTypes DEF Message
  <2> HIDE DEF m
  <2>4. receiver' \in Seq(Messages) /\ OneMessage' /\ OneAnswer'
    BY <2>1, <2>3, SentMail DEF Polls
  <2> QED BY <2>1, <2>4 DEF Calls, busVars, history, Holders, Polls
<1>3. ASSUME NEW i \in SubIds, receiver' = Append(receiver, Message("Unsubscribe", i, Nobody)),
             handles' \in [Subs -> 0 .. 2], \A s \in Subs : handles[s] = 0 => handles'[s] = 0,
             told' \subseteq Subs, guessed' \subseteq SubIds,
             UNCHANGED <<delayDelete, busVars, id, call, matcher, got, gaveUp, reply, published, history>>
      PROVE  TypeInv'
  <2> DEFINE m == Message("Unsubscribe", i, Nobody)
  <2>1. m \in Messages /\ m.reply = Nobody
    BY MessageTypes DEF Message
  <2>2. receiver' = Append(receiver, m)
    BY <1>3
  <2> HIDE DEF m
  <2>3. receiver' \in Seq(Messages) /\ OneMessage' /\ OneAnswer'
    BY <1>3, <2>1, <2>2, SentMail, NobodyAssumption
  <2>4. Holders'
    BY <1>3 DEF Holders
  <2> QED BY <1>3, <2>3, <2>4 DEF busVars, history
<1>6. ASSUME NEW s \in Subs, NEW i \in Named, Unsubscribe(s, i) PROVE TypeInv'
  <2>1. i \in SubIds
    BY LimitsAssumption
  <2>2. told' \subseteq Subs /\ guessed' \subseteq SubIds
    BY <1>6, <2>1 DEF Unsubscribe, Owners
  <2> QED BY <1>3, <1>6, <2>1, <2>2 DEF Unsubscribe, Send
<1>7. ASSUME NEW s \in Subs, Drop(s) PROVE TypeInv'
  <2>1. Borrowed(s) \in 0 .. 1 /\ handles[s] \in 0 .. 2
    BY DEF Borrowed
  <2>2. handles[s] > 0
    BY <1>7, <2>1 DEF Drop
  <2>3. id[s] \in SubIds
    BY <2>2 DEF Holders
  <2>4. handles' \in [Subs -> 0 .. 2] /\ \A o \in Subs : handles[o] = 0 => handles'[o] = 0
    <3>1. handles \in [Subs -> 0 .. 2] /\ handles[s] - 1 \in 0 .. 2
      BY <2>1, <2>2
    <3> QED BY <1>7, <2>2, <3>1 DEF Drop
  <2>5. told' \subseteq Subs /\ guessed' \subseteq SubIds
    BY <1>7 DEF Drop
  <2> QED BY <1>3, <1>7, <2>3, <2>4, <2>5 DEF Drop, Send
<1>4. ASSUME NEW e \in Events, Publish(e) PROVE TypeInv'
  <2> DEFINE m == Message("PushEvent", e, Nobody)
  <2>1. m \in Messages /\ m.reply = Nobody
    BY MessageTypes DEF Message
  <2>2. /\ receiver' = Append(receiver, m) /\ published' = [published EXCEPT ![e] = "sent"]
        /\ UNCHANGED <<delayDelete, busVars, clientVars, reply, history>>
    BY <1>4 DEF Publish, Send
  <2> HIDE DEF m
  <2>3. receiver' \in Seq(Messages) /\ OneMessage' /\ OneAnswer'
    BY <2>1, <2>2, SentMail, NobodyAssumption DEF clientVars
  <2> QED BY <2>2, <2>3 DEF busVars, clientVars, history, Holders
<1>5. CASE RequestCleanup
  <2>1. CleanUpBgTask \in Messages /\ CleanUpBgTask.reply = Nobody
    BY MessageTypes DEF Message, CleanUpBgTask
  <2>2. /\ receiver' = Append(receiver, CleanUpBgTask)
        /\ UNCHANGED <<delayDelete, busVars, clientVars, reply, published, history>>
    BY <1>5 DEF RequestCleanup, Send
  <2>3. receiver' \in Seq(Messages) /\ OneMessage' /\ OneAnswer'
    BY <2>1, <2>2, SentMail, NobodyAssumption DEF clientVars
  <2> QED BY <2>2, <2>3 DEF busVars, clientVars, history, Holders
<1> QED BY <1>1, <1>2, <1>4, <1>5, <1>6, <1>7

\* The queues keep their types when one of them is set.
LEMMA QueueTypes ==
  ASSUME TypeInv, NEW i \in SubIds, NEW q \in Seq(Events), event_queues' = WithQueue(i, q)
  PROVE  /\ DOMAIN event_queues' = DOMAIN event_queues \cup {i}
         /\ DOMAIN event_queues' \subseteq SubIds
         /\ \A j \in DOMAIN event_queues' : event_queues'[j] \in Seq(Events)
         /\ event_queues'[i] = q
         /\ \A j \in DOMAIN event_queues : j # i => event_queues'[j] = event_queues[j]
BY DEF WithQueue, TypeInv, TypeOK

\* The head of the mailbox.
LEMMA HeadTypes ==
  ASSUME TypeInv, receiver # <<>>
  PROVE  /\ Head(receiver) \in Messages
         /\ 1 \in DOMAIN receiver /\ Head(receiver) = receiver[1]
         /\ \A s \in Subs : Head(receiver).reply = s =>
              /\ call[s] = Head(receiver).op
              /\ reply[s] = <<>>
              /\ call[s] \in Polls => Head(receiver).arg = id[s]
<1>1. receiver \in Seq(Messages)
  BY DEF TypeInv, TypeOK
<1>2. 1 \in DOMAIN receiver /\ Head(receiver) = receiver[1] /\ Head(receiver) \in Messages
  BY <1>1, TailElements
<1> QED BY <1>2 DEF TypeInv, OneMessage

\* The answer of a poll.
LEMMA HandTypes ==
  ASSUME TypeInv, NEW op \in Polls, Receive(op), Head(receiver).arg \in DOMAIN event_queues,
         NEW n \in 0 .. Len(event_queues[Head(receiver).arg]), Hand(Head(receiver).arg, n)
  PROVE  TypeInv'
<1> DEFINE i == Head(receiver).arg
           q == event_queues[i]
           a == Answer(i, SubSeq(q, 1, n))
           rest == SubSeq(q, n + 1, Len(q))
<1>1. receiver # <<>> /\ receiver' = Tail(receiver) /\ Head(receiver).op = op
  BY DEF Receive
<1>2. i \in SubIds /\ q \in Seq(Events)
  BY DEF TypeInv, TypeOK
<1>3. rest \in Seq(Events) /\ SubSeq(q, 1, n) \in Seq(Events)
  BY <1>2, SplitTypes
<1>4. a \in Answers /\ a.id = i
  BY <1>2, <1>3, AnswerTypes
<1>5. event_queues' = WithQueue(i, rest) /\ Respond(a)
      /\ UNCHANGED <<delayDelete, ids, recycle, clientVars, published, history>>
  BY DEF Hand
<1>6. ASSUME NEW s \in Subs, Head(receiver).reply = s
      PROVE  (call[s] \in Polls => a.id = id[s]) /\ call[s] # "Subscribe"
  BY <1>1, <1>4, <1>6, HeadTypes DEF Polls
<1> HIDE DEF i, q, a, rest
<1>7. /\ receiver' \in Seq(Messages) /\ OneMessage' /\ OneAnswer'
      /\ reply' \in [Subs -> Seq(Answers)] /\ \A s \in Subs : Len(reply'[s]) <= 1
  BY <1>1, <1>4, <1>5, <1>6, AnsweredMail DEF clientVars
<1>8. /\ DOMAIN event_queues' \subseteq SubIds
      /\ \A j \in DOMAIN event_queues' : event_queues'[j] \in Seq(Events)
  BY <1>2, <1>3, <1>5, QueueTypes
<1>9. TypeOK'
  <2>1. \A s \in Subs : reply'[s] \in Seq([id : SubIds \cup {NULL_SUBID}, events : Seq(Events)])
    BY <1>7 DEF Answers
  <2> QED BY <1>5, <1>7, <1>8, <2>1 DEF TypeInv, TypeOK, clientVars, history
<1> QED BY <1>5, <1>7, <1>9 DEF TypeInv, Holders, clientVars

\* The steps of the bus that answer nobody.
LEMMA TakeTypes ==
  ASSUME TypeInv,
         HandleUnsubscribe \/ HandleUnsubscribeLater \/ HandleCleanup \/ HandlePush
  PROVE  TypeInv'
<1>1. receiver # <<>> /\ receiver' = Tail(receiver)
      /\ UNCHANGED <<delayDelete, clientVars, reply>>
  BY DEF HandleUnsubscribe, HandleUnsubscribeLater, HandleCleanup, HandlePush, Receive
<1>2. receiver' \in Seq(Messages) /\ OneMessage' /\ OneAnswer'
  BY <1>1, TakenMail DEF clientVars
<1>3. Holders' /\ reply' \in [Subs -> Seq(Answers)]
  BY <1>1 DEF TypeInv, Holders, clientVars
<1>4. Head(receiver) \in Messages
  BY <1>1, HeadTypes
<1>5. CASE HandleUnsubscribe
  <2>1. event_queues' = Without({Head(receiver).arg})
        /\ ids' = ids \cup ({Head(receiver).arg} \cap DOMAIN event_queues)
        /\ UNCHANGED <<recycle, published, history>>
    BY <1>5 DEF HandleUnsubscribe
  <2>2. TypeOK'
    BY <1>1, <1>2, <2>1 DEF TypeInv, TypeOK, Without, clientVars, history
  <2> QED BY <1>2, <1>3, <2>2 DEF TypeInv
<1>6. CASE HandleUnsubscribeLater
  <2>1. Head(receiver).arg \in SubIds
    BY <1>4, <1>6, MessageKinds DEF HandleUnsubscribeLater, Receive
  <2>2. recycle' = recycle \cup {Head(receiver).arg} /\ UNCHANGED <<event_queues, ids, published, history>>
    BY <1>6 DEF HandleUnsubscribeLater
  <2>3. TypeOK'
    BY <1>1, <1>2, <2>1, <2>2 DEF TypeInv, TypeOK, clientVars, history
  <2> QED BY <1>2, <1>3, <2>3 DEF TypeInv
<1>7. CASE HandleCleanup
  <2>1. event_queues' = Without(recycle) /\ recycle' = {} /\ UNCHANGED <<ids, published, history>>
    BY <1>7 DEF HandleCleanup
  <2>2. TypeOK'
    BY <1>1, <1>2, <2>1 DEF TypeInv, TypeOK, Without, clientVars, history
  <2> QED BY <1>2, <1>3, <2>2 DEF TypeInv
<1>8. CASE HandlePush
  <2> DEFINE event == Head(receiver).arg
  <2>1. event \in Events
    BY <1>4, <1>8, MessageKinds DEF HandlePush, Receive
  <2>2. /\ event_queues' = [i \in DOMAIN event_queues |-> Append(event_queues[i], event)]
        /\ published' = [published EXCEPT ![event] = "ok"]
        /\ log' = Append(log, event)
        /\ UNCHANGED <<ids, recycle, start>>
    BY <1>8 DEF HandlePush
  <2> HIDE DEF event
  <2>3. /\ log' \in Seq(Events)
        /\ DOMAIN event_queues' = DOMAIN event_queues
        /\ \A i \in DOMAIN event_queues : event_queues'[i] \in Seq(Events)
    BY <2>1, <2>2, AppendElements DEF TypeInv, TypeOK
  <2>4. TypeOK'
    BY <1>1, <1>2, <2>2, <2>3 DEF TypeInv, TypeOK, clientVars
  <2> QED BY <1>2, <1>3, <2>4 DEF TypeInv
<1> QED BY <1>5, <1>6, <1>7, <1>8

\* The steps of the bus that answer a subscriber, if it still waits.
LEMMA AnswerBusTypes ==
  ASSUME TypeInv,
         \/ HandleSubscribe \/ HandleSubscribeExhausted
         \/ HandlePoll \/ HandleBatchPoll \/ HandleStrayPoll
  PROVE  TypeInv'
<1>1. CASE HandleSubscribe
  <2>1. PICK new_id \in ids : /\ event_queues' = WithQueue(new_id, <<>>)
                              /\ ids' = ids \ {new_id}
                              /\ Respond(Answer(new_id, <<>>))
    BY <1>1 DEF HandleSubscribe
  <2>2. /\ receiver # <<>> /\ receiver' = Tail(receiver) /\ Head(receiver).op = "Subscribe"
        /\ start' = [s \in Subs |-> IF s = Head(receiver).reply THEN Len(log) ELSE start[s]]
        /\ UNCHANGED <<delayDelete, recycle, clientVars, published, log>>
    BY <1>1 DEF HandleSubscribe, Receive
  <2>3. new_id \in SubIds /\ <<>> \in Seq(Events)
    BY DEF TypeInv, TypeOK
  <2>4. Answer(new_id, <<>>) \in Answers /\ Answer(new_id, <<>>).events = <<>>
    BY <2>3, AnswerTypes
  <2>5. \A s \in Subs : Head(receiver).reply = s => call[s] = "Subscribe"
    BY <2>2, HeadTypes
  <2>6. /\ receiver' \in Seq(Messages) /\ OneMessage' /\ OneAnswer'
        /\ reply' \in [Subs -> Seq(Answers)] /\ \A s \in Subs : Len(reply'[s]) <= 1
    BY <2>1, <2>2, <2>4, <2>5, AnsweredMail DEF clientVars, Polls
  <2>7. /\ DOMAIN event_queues' \subseteq SubIds
        /\ \A j \in DOMAIN event_queues' : event_queues'[j] \in Seq(Events)
    BY <2>1, <2>3, QueueTypes
  <2>8. start' \in [Subs -> Nat]
    BY <2>2 DEF TypeInv, TypeOK
  <2>9. TypeOK'
    <3>1. \A s \in Subs : reply'[s] \in Seq([id : SubIds \cup {NULL_SUBID}, events : Seq(Events)])
      BY <2>6 DEF Answers
    <3> QED BY <2>1, <2>2, <2>6, <2>7, <2>8, <3>1 DEF TypeInv, TypeOK, clientVars
  <2> QED BY <2>2, <2>6, <2>9 DEF TypeInv, Holders, clientVars
<1>2. ASSUME NEW i \in SubIds \cup {NULL_SUBID}, Respond(Answer(i, <<>>)),
             receiver # <<>>, receiver' = Tail(receiver),
             UNCHANGED <<delayDelete, busVars, clientVars, published, history>>,
             \A s \in Subs : Head(receiver).reply = s => (call[s] \in Polls => i = id[s])
      PROVE  TypeInv'
  <2>1. Answer(i, <<>>) \in Answers /\ Answer(i, <<>>).events = <<>> /\ Answer(i, <<>>).id = i
    <3>1. <<>> \in Seq(Events)
      OBVIOUS
    <3> QED BY <3>1, AnswerTypes
  <2>2. /\ receiver' \in Seq(Messages) /\ OneMessage' /\ OneAnswer'
        /\ reply' \in [Subs -> Seq(Answers)] /\ \A s \in Subs : Len(reply'[s]) <= 1
    BY <1>2, <2>1, AnsweredMail DEF clientVars
  <2>3. \A s \in Subs : reply'[s] \in Seq([id : SubIds \cup {NULL_SUBID}, events : Seq(Events)])
    BY <2>2 DEF Answers
  <2>4. TypeOK'
    BY <1>2, <2>2, <2>3 DEF TypeInv, TypeOK, busVars, clientVars, history
  <2> QED BY <1>2, <2>2, <2>4 DEF TypeInv, Holders, clientVars
<1>3. CASE HandleSubscribeExhausted
  <2>1. receiver # <<>> /\ receiver' = Tail(receiver) /\ Head(receiver).op = "Subscribe"
        /\ Respond(Answer(NULL_SUBID, <<>>))
        /\ UNCHANGED <<delayDelete, busVars, clientVars, published, history>>
    BY <1>3 DEF HandleSubscribeExhausted, Receive
  <2>2. \A s \in Subs : Head(receiver).reply = s => call[s] \notin Polls
    BY <2>1, HeadTypes DEF Polls
  <2> QED BY <1>2, <2>1, <2>2
<1>4. CASE HandleStrayPoll
  <2>1. PICK op \in Polls : Receive(op)
    BY <1>4 DEF HandleStrayPoll
  <2>2. receiver # <<>> /\ receiver' = Tail(receiver) /\ Head(receiver).op = op
        /\ Respond(Answer(Head(receiver).arg, <<>>))
        /\ UNCHANGED <<delayDelete, busVars, clientVars, published, history>>
    BY <1>4, <2>1 DEF HandleStrayPoll, Receive
  <2>3. Head(receiver).arg \in SubIds
    BY <2>2, HeadTypes, MessageKinds
  <2>4. \A s \in Subs : Head(receiver).reply = s => (call[s] \in Polls => Head(receiver).arg = id[s])
    BY <2>2, HeadTypes
  <2> QED BY <1>2, <2>2, <2>3, <2>4
<1>5. ASSUME NEW i \in DOMAIN event_queues
      PROVE  0 \in 0 .. Len(event_queues[i]) /\ Len(event_queues[i]) \in 0 .. Len(event_queues[i])
             /\ (event_queues[i] # <<>> => 1 \in 0 .. Len(event_queues[i]))
  BY DEF TypeInv, TypeOK
<1>6. CASE HandlePoll
  <2>1. Receive("Poll") /\ Head(receiver).arg \in DOMAIN event_queues
    BY <1>6 DEF HandlePoll
  <2>2. \E n \in 0 .. Len(event_queues[Head(receiver).arg]) : Hand(Head(receiver).arg, n)
    BY <1>5, <1>6 DEF HandlePoll
  <2> QED BY <2>1, <2>2, HandTypes DEF Polls
<1>7. CASE HandleBatchPoll
  <2>1. Receive("BatchPoll") /\ Head(receiver).arg \in DOMAIN event_queues
    BY <1>7 DEF HandleBatchPoll
  <2>2. \E n \in 0 .. Len(event_queues[Head(receiver).arg]) : Hand(Head(receiver).arg, n)
    BY <1>5, <1>7 DEF HandleBatchPoll
  <2> QED BY <2>1, <2>2, HandTypes DEF Polls
<1> QED BY <1>1, <1>3, <1>4, <1>6, <1>7

LEMMA NextTypes == TypeInv /\ [Next]_vars => TypeInv'
<1> SUFFICES ASSUME TypeInv, [Next]_vars PROVE TypeInv'
  OBVIOUS
<1>1. CASE Bus
  BY <1>1, TakeTypes, AnswerBusTypes DEF Bus
<1>2. ASSUME NEW s \in Subs, Resume(s) \/ Client(s)
      PROVE  TypeInv'
  <2>1. matcher[s] \in {"none"} \cup Polls
    BY DEF TypeInv, TypeOK
  <2>2. ASSUME NEW op \in Polls, CallPoll(s, op) PROVE TypeInv'
    BY <2>2, SendTypes
  <2>3. MatchPoll(s) \/ FreePoll(s) => TypeInv'
    BY <2>1, <2>2 DEF MatchPoll, FreePoll
  <2> QED BY <1>2, <2>3, LocalTypes, AbandonTypes, SendTypes DEF Resume, Client
<1>3. ASSUME NEW e \in Events, Publish(e)
      PROVE  TypeInv'
  BY <1>3, SendTypes
<1>4. CASE RequestCleanup
  BY <1>4, SendTypes
<1>5. CASE UNCHANGED vars
  <2>1. UNCHANGED <<delayDelete, receiver, event_queues, ids, recycle, id, handles, call, reply>>
    BY <1>5 DEF vars, busVars, clientVars
  <2>2. UNCHANGED <<matcher, got, told, guessed, gaveUp, published, log, start>>
    BY <1>5 DEF vars, clientVars, history
  <2>3. TypeOK'
    BY <2>1, <2>2 DEF TypeInv, TypeOK
  <2>4. OneMessage' /\ OneAnswer' /\ Holders'
    BY <2>1, <2>2 DEF TypeInv, OneMessage, OneAnswer, Holders
  <2> QED BY <2>1, <2>3, <2>4 DEF TypeInv
<1> QED BY <1>1, <1>2, <1>3, <1>4, <1>5 DEF Next

LEMMA Types == Spec => []TypeInv
<1>1. Init => TypeInv
  BY InitTypes
<1> QED BY <1>1, NextTypes, PTL DEF Spec

\* EventBus!TypeOK for any number of subscribers and events: among others, the
\* bounded reply channel of a call (EventBus::run, reply.send) never holds two
\* answers, not even when calls are given up half-way.
THEOREM BusTypes == Spec => []TypeOK
<1>1. TypeInv => TypeOK
  BY DEF TypeInv
<1> QED BY Types, <1>1, PTL

-----------------------------------------------------------------------------
(* Every subscriber that waits has an answer, or a message in the channel. *)
(* That message and that answer are of its call is the matter of TypeInv.  *)

Owed(s) == reply[s] # <<>> \/ \E k \in DOMAIN receiver : receiver[k].reply = s
Owing   == \A s \in Subs : call[s] \in {"Subscribe"} \cup Polls => Owed(s)

\* The bus takes a message: its sender, if it waits, is answered.
LEMMA TakenOwed ==
  ASSUME TypeInv, Owing, receiver # <<>>, receiver' = Tail(receiver), UNCHANGED call,
         \A s \in Subs :
           reply'[s] # <<>> \/ (reply'[s] = reply[s] /\ Head(receiver).reply # s)
  PROVE  Owing'
<1> SUFFICES ASSUME NEW s \in Subs, call[s] \in {"Subscribe"} \cup Polls, reply'[s] = <<>>
             PROVE  Owed(s)'
  BY DEF Owing, Owed
<1>1. reply[s] = <<>> /\ Head(receiver).reply # s
  OBVIOUS
<1>2. PICK k \in DOMAIN receiver : receiver[k].reply = s
  BY <1>1 DEF Owing, Owed
<1>3. receiver \in Seq(Messages)
  BY DEF TypeInv, TypeOK
<1>4. k # 1 /\ k \in 1 .. Len(receiver) /\ Len(receiver) \in Nat
  BY <1>1, <1>2, <1>3
<1>5. k - 1 \in DOMAIN receiver' /\ receiver'[k - 1] = receiver[k]
  BY <1>3, <1>4
<1> QED BY <1>2, <1>5 DEF Owed

LEMMA RespondedOwed ==
  ASSUME TypeInv, Owing, receiver # <<>>, receiver' = Tail(receiver), UNCHANGED call,
         NEW a, Respond(a)
  PROVE  Owing'
<1>1. reply \in [Subs -> Seq(Answers)]
  BY DEF TypeInv
<1>2. ASSUME NEW s \in Subs
      PROVE  reply'[s] # <<>> \/ (reply'[s] = reply[s] /\ Head(receiver).reply # s)
  <2>1. CASE Head(receiver).reply = s
    <3>1. reply'[s] = Append(reply[s], a) /\ reply[s] \in Seq(Answers)
      BY <1>1, <2>1 DEF Respond
    <3>2. \A q \in Seq(Answers) : Append(q, a) # <<>>
      OBVIOUS
    <3> QED BY <3>1, <3>2
  <2>2. CASE Head(receiver).reply # s
    BY <1>1, <2>2 DEF Respond
  <2> QED BY <2>1, <2>2
<1> QED BY <1>2, TakenOwed

LEMMA BusOwes == TypeInv /\ Owing /\ Bus => Owing'
<1> SUFFICES ASSUME TypeInv, Owing, Bus PROVE Owing'
  OBVIOUS
<1>1. receiver # <<>> /\ receiver' = Tail(receiver) /\ UNCHANGED call
  BY DEF Bus, HandleSubscribe, HandleSubscribeExhausted, HandleUnsubscribe, HandlePush,
         HandleUnsubscribeLater, HandleCleanup, HandlePoll, HandleBatchPoll, Hand,
         HandleStrayPoll, Receive, clientVars
<1>2. CASE HandleUnsubscribe \/ HandleUnsubscribeLater \/ HandleCleanup \/ HandlePush
  <2>1. Head(receiver).op \in {"Unsubscribe", "PushEvent", "CleanUpBgTask"} /\ UNCHANGED reply
    BY <1>2 DEF HandleUnsubscribe, HandleUnsubscribeLater, HandleCleanup, HandlePush, Receive
  <2>2. Head(receiver) \in Messages
    BY <1>1, TailElements DEF TypeInv, TypeOK
  <2>3. \A s \in Subs : Head(receiver).reply # s
    BY <2>1, <2>2, MessageKinds, NobodyAssumption
  <2> QED BY <1>1, <2>1, <2>3, TakenOwed
<1>3. CASE HandleSubscribe \/ HandleSubscribeExhausted \/ HandlePoll \/ HandleBatchPoll \/ HandleStrayPoll
  <2>1. \E a : Respond(a)
    BY <1>3 DEF HandleSubscribe, HandleSubscribeExhausted, HandlePoll, HandleBatchPoll, Hand,
                HandleStrayPoll
  <2> QED BY <1>1, <2>1, RespondedOwed
<1> QED BY <1>2, <1>3 DEF Bus

\* A client sends nothing, or a message of its call.
LEMMA SentOwed ==
  ASSUME TypeInv, Owing, NEW m, receiver' = Append(receiver, m), UNCHANGED reply,
         \A s \in Subs : call'[s] = call[s] \/ m.reply = s
  PROVE  Owing'
<1>1. receiver \in Seq(Messages)
  BY DEF TypeInv, TypeOK
<1>2. /\ DOMAIN receiver' = DOMAIN receiver \cup {Len(receiver) + 1}
      /\ \A k \in DOMAIN receiver : receiver'[k] = receiver[k]
      /\ receiver'[Len(receiver) + 1] = m
  BY <1>1
<1> QED BY <1>2 DEF Owing, Owed

LEMMA ClientOwed ==
  ASSUME TypeInv, Owing, NEW s \in Subs, Resume(s) \/ Client(s)
  PROVE  Owing'
<1>t. call \in [Subs -> Calls] /\ reply \in [Subs -> Seq(Answers)]
  BY DEF TypeInv, TypeOK
<1>1. CASE Subscribed(s) \/ Polled(s)
  <2>1. /\ UNCHANGED receiver /\ call'[s] \notin {"Subscribe"} \cup Polls
        /\ \A o \in Subs \ {s} : call'[o] = call[o] /\ reply'[o] = reply[o]
    BY <1>1, <1>t DEF Subscribed, Polled, Polls
  <2> QED BY <2>1 DEF Owing, Owed
<1>2. CASE Clone(s) \/ \E op \in Polls : BeginMatch(s, op)
  BY <1>2 DEF Clone, BeginMatch, Owing, Owed
<1>3. CASE Abandon(s)
  <2>1. /\ call'[s] \notin {"Subscribe"} \cup Polls
        /\ \A o \in Subs \ {s} : call'[o] = call[o] /\ reply'[o] = reply[o]
    BY <1>3, <1>t DEF Abandon, Polls
  <2>2. /\ DOMAIN receiver' = DOMAIN receiver
        /\ \A k \in DOMAIN receiver :
             receiver'[k].reply = IF receiver[k].reply = s THEN Nobody ELSE receiver[k].reply
    BY <1>3, AbandonedMail
  <2> QED BY <2>1, <2>2 DEF Owing, Owed
<1>4. ASSUME NEW op \in Polls, CallPoll(s, op) PROVE Owing'
  <2>1. /\ receiver' = Append(receiver, Message(op, id[s], s)) /\ UNCHANGED reply
        /\ \A o \in Subs \ {s} : call'[o] = call[o]
    BY <1>4, <1>t DEF CallPoll, Send
  <2> QED BY <2>1, SentOwed DEF Message
<1>5. CASE Subscribe(s)
  <2>1. /\ receiver' = Append(receiver, Message("Subscribe", Nobody, s)) /\ UNCHANGED reply
        /\ \A o \in Subs \ {s} : call'[o] = call[o]
    BY <1>5, <1>t DEF Subscribe, Send
  <2> QED BY <2>1, SentOwed DEF Message
<1>6. CASE Drop(s) \/ \E i \in Named : Unsubscribe(s, i)
  <2>1. PICK i : receiver' = Append(receiver, Message("Unsubscribe", i, Nobody)) /\ UNCHANGED <<reply, call>>
    BY <1>6 DEF Unsubscribe, Drop, Send
  <2> QED BY <2>1, SentOwed
<1>7. matcher[s] \in {"none"} \cup Polls
  BY DEF TypeInv, TypeOK
<1>8. MatchPoll(s) \/ FreePoll(s) => Owing'
  BY <1>4, <1>7 DEF MatchPoll, FreePoll
<1> QED BY <1>1, <1>2, <1>3, <1>5, <1>6, <1>8 DEF Resume, Client

LEMMA NextOwes == TypeInv /\ Owing /\ [Next]_vars => Owing'
<1> SUFFICES ASSUME TypeInv, Owing, [Next]_vars PROVE Owing'
  OBVIOUS
<1>1. ASSUME NEW e \in Events, Publish(e) PROVE Owing'
  <2>1. receiver' = Append(receiver, Message("PushEvent", e, Nobody)) /\ UNCHANGED <<reply, call>>
    BY <1>1 DEF Publish, Send, clientVars
  <2> QED BY <2>1, SentOwed
<1>2. CASE RequestCleanup
  <2>1. receiver' = Append(receiver, CleanUpBgTask) /\ UNCHANGED <<reply, call>>
    BY <1>2 DEF RequestCleanup, Send, clientVars
  <2> QED BY <2>1, SentOwed
<1>3. CASE UNCHANGED vars
  BY <1>3 DEF vars, clientVars, Owing, Owed
<1> QED BY <1>1, <1>2, <1>3, BusOwes, ClientOwed DEF Next

\* No call waits for an answer that will not come (EventBus::run and the replies
\* of its handlers): the message of the call is before the bus or its answer is
\* there, and is the answer to this call and not to one given up before.
THEOREM AnswerAlwaysOwed == Spec => []AnswerOwed
<1>1. Init => Owing
  BY DEF Init, Owing, Polls
<1>2. ASSUME TypeInv, Owing PROVE AnswerOwed
  <2> SUFFICES ASSUME NEW s \in Subs, call[s] \in {"Subscribe"} \cup Polls
               PROVE  \/ /\ reply[s] # <<>>
                         /\ call[s] \in Polls => Head(reply[s]).id = id[s]
                      \/ \E k \in DOMAIN receiver :
                           /\ receiver[k].op = call[s]
                           /\ receiver[k].reply = s
                           /\ call[s] \in Polls => receiver[k].arg = id[s]
    BY DEF AnswerOwed
  <2>1. CASE reply[s] # <<>>
    BY <1>2, <2>1 DEF TypeInv, OneAnswer
  <2>2. CASE \E k \in DOMAIN receiver : receiver[k].reply = s
    BY <1>2, <2>2 DEF TypeInv, OneMessage
  <2> QED BY <1>2, <2>1, <2>2 DEF Owing, Owed
<1> QED BY <1>1, <1>2, NextOwes, Types, PTL DEF Spec

-----------------------------------------------------------------------------
(* Who answers for the queues.  A subscriber that gave its subscribe call  *)
(* up accounts for one message nobody waits for, its place in the mailbox  *)
(* being mess[s], and once the bus took that for one queue, leak[s].       *)

Stray(k)  == receiver[k].op = "Subscribe" /\ receiver[k].reply = Nobody
Left(s)   == call[s] = "left"
AllTraced ==
  \E leak \in [Subs -> SubIds \cup {NULL_SUBID}], mess \in [Subs -> Int] :
    /\ \A i \in DOMAIN event_queues : Claimed(i) \/ \E s \in Subs : Left(s) /\ leak[s] = i
    /\ \A k \in DOMAIN receiver : Stray(k) =>
         \E s \in Subs : Left(s) /\ leak[s] = NULL_SUBID /\ mess[s] = k

\* A step that makes nobody's queue and nobody's message.
LEMMA TracedStill ==
  ASSUME AllTraced, NEW n \in {0, 1},
         \A s \in Subs : Left(s) => Left(s)',
         \A i \in DOMAIN event_queues' : Claimed(i)' \/ (i \in DOMAIN event_queues /\ ~Claimed(i)),
         \A k \in DOMAIN receiver' : Stray(k)' => k \in Int /\ k + n \in DOMAIN receiver /\ Stray(k + n)
  PROVE  AllTraced'
<1>1. PICK leak \in [Subs -> SubIds \cup {NULL_SUBID}], mess \in [Subs -> Int] :
        /\ \A i \in DOMAIN event_queues : Claimed(i) \/ \E s \in Subs : Left(s) /\ leak[s] = i
        /\ \A k \in DOMAIN receiver : Stray(k) =>
             \E s \in Subs : Left(s) /\ leak[s] = NULL_SUBID /\ mess[s] = k
  BY DEF AllTraced
<1>2. PICK mess2 : mess2 = [s \in Subs |-> mess[s] - n]
  OBVIOUS
<1>3. mess2 \in [Subs -> Int] /\ \A s \in Subs : mess2[s] = mess[s] - n /\ mess[s] \in Int
  BY <1>2
<1>4. \A i \in DOMAIN event_queues' : Claimed(i)' \/ \E s \in Subs : Left(s)' /\ leak[s] = i
  BY <1>1
<1>5. ASSUME NEW k \in DOMAIN receiver', Stray(k)'
      PROVE  \E s \in Subs : Left(s)' /\ leak[s] = NULL_SUBID /\ mess2[s] = k
  <2>1. k \in Int /\ k + n \in DOMAIN receiver /\ Stray(k + n)
    BY <1>5
  <2>2. PICK s \in Subs : Left(s) /\ leak[s] = NULL_SUBID /\ mess[s] = k + n
    BY <1>1, <2>1
  <2>3. mess2[s] = k
    BY <1>3, <2>1, <2>2
  <2> QED BY <2>2, <2>3
<1> QED BY <1>3, <1>4, <1>5 DEF AllTraced

\* A client sends a message, which is nobody's only if it is no Subscribe.
LEMMA SentTraced ==
  ASSUME TypeInv, AllTraced, NEW m, receiver' = Append(receiver, m),
         m.op = "Subscribe" => m.reply # Nobody,
         UNCHANGED <<event_queues, recycle, reply, id>>,
         \A s \in Subs : call'[s] = call[s] \/ call[s] \notin {"Subscribe", "left"},
         \A s \in Subs : handles[s] > 0 => handles'[s] > 0 \/ m = Message("Unsubscribe", id[s], Nobody)
  PROVE  AllTraced'
<1>1. receiver \in Seq(Messages)
  BY DEF TypeInv, TypeOK
<1>2. /\ DOMAIN receiver' = DOMAIN receiver \cup {Len(receiver) + 1}
      /\ \A k \in DOMAIN receiver : k \in Int /\ k + 0 = k /\ receiver'[k] = receiver[k]
      /\ Len(receiver) + 1 \in DOMAIN receiver' /\ receiver'[Len(receiver) + 1] = m
  BY <1>1
<1>3. \A k \in DOMAIN receiver' : Stray(k)' => k \in Int /\ k + 0 \in DOMAIN receiver /\ Stray(k + 0)
  BY <1>2 DEF Stray
<1>4. ASSUME NEW i \in DOMAIN event_queues, Claimed(i) PROVE Claimed(i)'
  <2>1. CASE \E s \in Subs : handles[s] > 0 /\ id[s] = i
    <3>1. PICK s \in Subs : handles[s] > 0 /\ id[s] = i
      BY <2>1
    <3>2. CASE handles'[s] > 0
      BY <3>1, <3>2 DEF Claimed
    <3>3. CASE m = Message("Unsubscribe", i, Nobody)
      <4>1. m.op = "Unsubscribe" /\ m.arg = i
        BY <3>3 DEF Message
      <4> QED BY <1>2, <4>1 DEF Claimed
    <3> QED BY <3>1, <3>2, <3>3
  <2>2. CASE \E s \in Subs : call[s] = "Subscribe" /\ reply[s] # <<>> /\ Head(reply[s]).id = i
    BY <2>2 DEF Claimed
  <2>3. CASE \E k \in DOMAIN receiver : receiver[k].op = "Unsubscribe" /\ receiver[k].arg = i
    BY <1>2, <2>3 DEF Claimed
  <2>4. CASE i \in recycle
    BY <2>4 DEF Claimed
  <2> QED BY <1>4, <2>1, <2>2, <2>3, <2>4 DEF Claimed
<1> QED BY <1>3, <1>4, TracedStill DEF Left

\* A subscriber goes on without a message.
LEMMA LocalTraced ==
  ASSUME TypeInv, AllTraced, NEW s \in Subs,
         Subscribed(s) \/ Polled(s) \/ Clone(s) \/ \E op \in Polls : BeginMatch(s, op)
  PROVE  AllTraced'
<1>t. /\ call \in [Subs -> Calls] /\ reply \in [Subs -> Seq(Answers)] /\ id \in [Subs -> SubIds \cup {NULL_SUBID}]
      /\ handles \in [Subs -> 0 .. 2] /\ DOMAIN event_queues \subseteq SubIds
      /\ \A k \in DOMAIN receiver : k \in Int /\ k + 0 = k
  BY DEF TypeInv, TypeOK
<1>1. UNCHANGED <<receiver, event_queues, ids, recycle>>
  BY DEF Subscribed, Polled, Clone, BeginMatch, busVars
<1>2. /\ \A o \in Subs \ {s} : /\ call'[o] = call[o] /\ reply'[o] = reply[o]
                               /\ id'[o] = id[o] /\ handles'[o] = handles[o]
      /\ Left(s) => Left(s)'
  <2>1. CASE Subscribed(s)
    BY <1>t, <2>1 DEF Subscribed, Left
  <2>2. CASE Polled(s)
    BY <1>t, <2>2 DEF Polled, Left, Polls
  <2>3. CASE Clone(s) \/ \E op \in Polls : BeginMatch(s, op)
    BY <1>t, <2>3 DEF Clone, BeginMatch, Left
  <2> QED BY <2>1, <2>2, <2>3
\* What s itself claimed, it claims still: the id of its answer is in its handle.
<1>3. ASSUME NEW i \in DOMAIN event_queues,
             \/ handles[s] > 0 /\ id[s] = i
             \/ call[s] = "Subscribe" /\ reply[s] # <<>> /\ Head(reply[s]).id = i
      PROVE  handles'[s] > 0 /\ id'[s] = i
  <2>1. i # NULL_SUBID
    BY <1>t DEF SubIds, NULL_SUBID
  <2>2. CASE Subscribed(s)
    <3>1. handles[s] = 0
      BY <2>2 DEF Subscribed, TypeInv, Holders
    <3>2. Head(reply[s]).id = i
      BY <1>3, <3>1
    <3>3. id' = [id EXCEPT ![s] = i] /\ handles' = [handles EXCEPT ![s] = 1]
      BY <2>1, <2>2, <3>2 DEF Subscribed
    <3> QED BY <1>t, <3>3
  <2>3. CASE Polled(s)
    <3>1. call[s] # "Subscribe" /\ UNCHANGED <<handles, id>>
      BY <2>3 DEF Polled, Polls
    <3> QED BY <1>3, <3>1
  <2>4. CASE Clone(s)
    <3>1. handles[s] = 1 /\ handles'[s] = 2 /\ id' = id
      BY <1>t, <2>4 DEF Clone
    <3>2. call[s] # "Subscribe"
      BY <3>1 DEF TypeInv, Holders
    <3> QED BY <1>3, <3>1, <3>2
  <2>5. CASE \E op \in Polls : BeginMatch(s, op)
    BY <1>3, <2>5 DEF BeginMatch
  <2> QED BY <2>2, <2>3, <2>4, <2>5
<1>4. \A i \in DOMAIN event_queues : Claimed(i) => Claimed(i)'
  BY <1>1, <1>2, <1>3 DEF Claimed
<1>5. \A k \in DOMAIN receiver' : Stray(k)' => k \in Int /\ k + 0 \in DOMAIN receiver /\ Stray(k + 0)
  BY <1>t, <1>1 DEF Stray
<1> QED BY <1>1, <1>2, <1>4, <1>5, TracedStill DEF Left

\* Who gives up a call; a subscriber that did it while it subscribed answers for its
\* message, or for the queue of its answer, from now on.
LEMMA AbandonTraced ==
  ASSUME TypeInv, AllTraced, NEW s \in Subs, Abandon(s)
  PROVE  AllTraced'
<1>1. /\ call \in [Subs -> Calls] /\ reply \in [Subs -> Seq(Answers)]
      /\ \A k \in DOMAIN receiver : k \in Int /\ k + 0 = k
  BY DEF TypeInv, TypeOK
<1>2. /\ call[s] \in {"Subscribe"} \cup Polls
      /\ call' = [call EXCEPT ![s] = IF @ = "Subscribe" THEN "left" ELSE "idle"]
      /\ reply' = [reply EXCEPT ![s] = <<>>]
      /\ UNCHANGED <<event_queues, recycle, handles, id>>
  BY DEF Abandon, busVars
<1>3. /\ DOMAIN receiver' = DOMAIN receiver
      /\ \A k \in DOMAIN receiver :
           /\ receiver'[k].op = receiver[k].op /\ receiver'[k].arg = receiver[k].arg
           /\ receiver'[k].reply = IF receiver[k].reply = s THEN Nobody ELSE receiver[k].reply
  BY AbandonedMail
<1>4. \A o \in Subs \ {s} : call'[o] = call[o] /\ reply'[o] = reply[o]
  BY <1>1, <1>2
<1>5. \A o \in Subs : Left(o) => o # s /\ Left(o)'
  BY <1>2, <1>4 DEF Left, Polls
<1>6. ASSUME NEW i \in DOMAIN event_queues, Claimed(i)
      PROVE  Claimed(i)' \/ (call[s] = "Subscribe" /\ reply[s] # <<>> /\ Head(reply[s]).id = i)
  BY <1>2, <1>3, <1>4, <1>6 DEF Claimed
<1>7. CASE call[s] # "Subscribe"
  <2>1. \A k \in DOMAIN receiver : Stray(k)' => Stray(k)
    <3> SUFFICES ASSUME NEW k \in DOMAIN receiver, receiver[k].op = "Subscribe", receiver[k].reply = s
                 PROVE  FALSE
      BY <1>3 DEF Stray
    <3> QED BY <1>7 DEF TypeInv, OneMessage
  <2> QED BY <1>1, <1>2, <1>3, <1>5, <1>6, <1>7, <2>1, TracedStill
<1>8. CASE call[s] = "Subscribe"
  <2>1. PICK leak \in [Subs -> SubIds \cup {NULL_SUBID}], mess \in [Subs -> Int] :
          /\ \A i \in DOMAIN event_queues : Claimed(i) \/ \E o \in Subs : Left(o) /\ leak[o] = i
          /\ \A k \in DOMAIN receiver : Stray(k) =>
               \E o \in Subs : Left(o) /\ leak[o] = NULL_SUBID /\ mess[o] = k
    BY DEF AllTraced
  <2>2. Left(s)'
    BY <1>1, <1>2, <1>8 DEF Left
  <2>3. CASE reply[s] # <<>>
    <3>1. PICK i : i = Head(reply[s]).id
      OBVIOUS
    <3>2. i \in SubIds \cup {NULL_SUBID}
      BY <2>3, <3>1, HeadAnswer
    <3>3. PICK leak2 : leak2 = [leak EXCEPT ![s] = i]
      OBVIOUS
    <3>4. leak2 \in [Subs -> SubIds \cup {NULL_SUBID}] /\ leak2[s] = i
          /\ \A o \in Subs \ {s} : leak2[o] = leak[o]
      BY <3>2, <3>3
    <3>5. \A k \in DOMAIN receiver : Stray(k)' => Stray(k)
      BY <1>3, <2>3, NoMessage DEF Stray
    <3>6. \A j \in DOMAIN event_queues' : Claimed(j)' \/ \E o \in Subs : Left(o)' /\ leak2[o] = j
      <4> SUFFICES ASSUME NEW j \in DOMAIN event_queues, ~Claimed(j)'
                   PROVE  \E o \in Subs : Left(o)' /\ leak2[o] = j
        BY <1>2
      <4>1. CASE Claimed(j)
        BY <1>6, <2>2, <3>1, <3>4, <4>1
      <4>2. CASE ~Claimed(j)
        BY <1>5, <2>1, <3>4, <4>2
      <4> QED BY <4>1, <4>2
    <3>7. \A k \in DOMAIN receiver' : Stray(k)' =>
            \E o \in Subs : Left(o)' /\ leak2[o] = NULL_SUBID /\ mess[o] = k
      BY <1>3, <1>5, <2>1, <3>4, <3>5
    <3> QED BY <3>4, <3>6, <3>7 DEF AllTraced
  <2>4. CASE reply[s] = <<>>
    <3>1. PICK n \in Int : \A k \in DOMAIN receiver : receiver[k].reply = s => k = n
      <4>1. CASE \E k \in DOMAIN receiver : receiver[k].reply = s
        BY <1>1, <4>1 DEF TypeInv, OneMessage
      <4>2. CASE ~ \E k \in DOMAIN receiver : receiver[k].reply = s
        BY <4>2
      <4> QED BY <4>1, <4>2
    <3>2. PICK leak2, mess2 : leak2 = [leak EXCEPT ![s] = NULL_SUBID] /\ mess2 = [mess EXCEPT ![s] = n]
      OBVIOUS
    <3>3. /\ leak2 \in [Subs -> SubIds \cup {NULL_SUBID}] /\ leak2[s] = NULL_SUBID
          /\ mess2 \in [Subs -> Int] /\ mess2[s] = n
          /\ \A o \in Subs \ {s} : leak2[o] = leak[o] /\ mess2[o] = mess[o]
      BY <3>1, <3>2
    <3>4. \A j \in DOMAIN event_queues' : Claimed(j)' \/ \E o \in Subs : Left(o)' /\ leak2[o] = j
      <4> SUFFICES ASSUME NEW j \in DOMAIN event_queues, ~Claimed(j)'
                   PROVE  \E o \in Subs : Left(o)' /\ leak2[o] = j
        BY <1>2
      <4>1. ~Claimed(j)
        BY <1>6, <2>4
      <4> QED BY <1>5, <2>1, <3>3, <4>1
    <3>5. ASSUME NEW k \in DOMAIN receiver', Stray(k)'
          PROVE  \E o \in Subs : Left(o)' /\ leak2[o] = NULL_SUBID /\ mess2[o] = k
      <4>1. k \in DOMAIN receiver /\ (Stray(k) \/ receiver[k].reply = s)
        BY <1>3, <3>5 DEF Stray
      <4>2. CASE Stray(k)
        BY <1>5, <2>1, <3>3, <4>1, <4>2
      <4>3. CASE receiver[k].reply = s
        BY <2>2, <3>1, <3>3, <4>1, <4>3
      <4> QED BY <4>1, <4>2, <4>3
    <3> QED BY <3>3, <3>4, <3>5 DEF AllTraced
  <2> QED BY <2>3, <2>4
<1> QED BY <1>7, <1>8

\* An answer that waits is not touched when the bus answers another.
LEMMA AnswersStay ==
  ASSUME TypeInv, receiver # <<>>, UNCHANGED reply \/ \E a : Respond(a),
         NEW s \in Subs, reply[s] # <<>>
  PROVE  reply'[s] = reply[s]
<1>1. 1 \in DOMAIN receiver /\ Head(receiver) = receiver[1]
  BY TailElements DEF TypeInv, TypeOK
<1>2. Head(receiver).reply # s
  BY <1>1, NoMessage
<1> QED BY <1>2 DEF Respond, TypeInv

\* The bus takes a message that makes no queue but one whose owner is told so, and
\* removes the queues that were to go.
LEMMA TakenTraced ==
  ASSUME TypeInv, AllTraced, receiver # <<>>, receiver' = Tail(receiver),
         UNCHANGED <<call, id, handles>>, UNCHANGED reply \/ \E a : Respond(a),
         \A i \in DOMAIN event_queues' :
           \/ Claimed(i)'
           \/ /\ i \in DOMAIN event_queues
              /\ i \in recycle => i \in recycle'
              /\ ~(Head(receiver).op = "Unsubscribe" /\ Head(receiver).arg = i)
  PROVE  AllTraced'
<1>1. /\ Head(receiver) = receiver[1] /\ receiver \in Seq(Messages)
      /\ \A k \in DOMAIN receiver' : /\ k \in Int /\ k + 1 \in DOMAIN receiver
                                     /\ receiver'[k] = receiver[k + 1]
  BY TailElements DEF TypeInv, TypeOK
<1>2. ASSUME NEW k \in DOMAIN receiver, k # 1
      PROVE  k - 1 \in DOMAIN receiver' /\ receiver'[k - 1] = receiver[k]
  BY <1>1, <1>2
<1>3. ASSUME NEW i \in DOMAIN event_queues, Claimed(i), i \in recycle => i \in recycle',
             ~(Head(receiver).op = "Unsubscribe" /\ Head(receiver).arg = i)
      PROVE  Claimed(i)'
  <2>1. CASE \E s \in Subs : handles[s] > 0 /\ id[s] = i
    BY <2>1 DEF Claimed
  <2>2. CASE \E s \in Subs : call[s] = "Subscribe" /\ reply[s] # <<>> /\ Head(reply[s]).id = i
    BY <2>2, AnswersStay DEF Claimed
  <2>3. CASE \E k \in DOMAIN receiver : receiver[k].op = "Unsubscribe" /\ receiver[k].arg = i
    BY <1>1, <1>2, <1>3, <2>3 DEF Claimed
  <2>4. CASE i \in recycle
    BY <1>3, <2>4 DEF Claimed
  <2> QED BY <1>3, <2>1, <2>2, <2>3, <2>4 DEF Claimed
<1>4. \A i \in DOMAIN event_queues' : Claimed(i)' \/ (i \in DOMAIN event_queues /\ ~Claimed(i))
  BY <1>3
<1>5. \A k \in DOMAIN receiver' : Stray(k)' => k \in Int /\ k + 1 \in DOMAIN receiver /\ Stray(k + 1)
  BY <1>1 DEF Stray
<1> QED BY <1>4, <1>5, TracedStill DEF Left

\* A new queue is claimed by the answer on its way, or is what becomes of the message
\* of a subscriber that left.
LEMMA SubscribeTraced ==
  ASSUME TypeInv, AllTraced, HandleSubscribe
  PROVE  AllTraced'
<1>1. PICK new_id \in ids : event_queues' = WithQueue(new_id, <<>>) /\ Respond(Answer(new_id, <<>>))
  BY DEF HandleSubscribe
<1>2. /\ receiver # <<>> /\ receiver' = Tail(receiver) /\ Head(receiver).op = "Subscribe"
      /\ UNCHANGED <<recycle, call, id, handles>>
  BY DEF HandleSubscribe, Receive, clientVars
<1>3. /\ DOMAIN event_queues' = DOMAIN event_queues \cup {new_id} /\ new_id \in SubIds
      /\ reply \in [Subs -> Seq(Answers)]
  BY <1>1 DEF WithQueue, TypeInv, TypeOK
<1>4. /\ 1 \in DOMAIN receiver /\ Head(receiver) = receiver[1] /\ receiver[1] \in Messages
      /\ \A k \in DOMAIN receiver' : /\ k \in Int /\ k + 1 \in DOMAIN receiver /\ k + 1 # 1
                                     /\ receiver'[k] = receiver[k + 1]
  BY <1>2, TailElements DEF TypeInv, TypeOK
<1>5. CASE Head(receiver).reply \in Subs
  <2>1. PICK s \in Subs : Head(receiver).reply = s
    BY <1>5
  <2>2. call[s] = "Subscribe" /\ reply[s] = <<>>
    BY <1>2, <1>4, <2>1 DEF TypeInv, OneMessage
  <2>3. reply'[s] = Append(<<>>, Answer(new_id, <<>>))
    BY <1>1, <1>3, <2>1, <2>2 DEF Respond
  <2>4. reply'[s] # <<>> /\ Head(reply'[s]).id = new_id
    <3>1. \A a : Append(<<>>, a) # <<>> /\ Head(Append(<<>>, a)) = a
      OBVIOUS
    <3> QED BY <2>3, <3>1 DEF Answer
  <2>5. Claimed(new_id)'
    BY <1>2, <2>2, <2>4 DEF Claimed
  <2> QED BY <1>1, <1>2, <1>3, <2>5, TakenTraced
<1>6. CASE Head(receiver).reply = Nobody
  <2>1. PICK leak \in [Subs -> SubIds \cup {NULL_SUBID}], mess \in [Subs -> Int] :
          /\ \A i \in DOMAIN event_queues : Claimed(i) \/ \E s \in Subs : Left(s) /\ leak[s] = i
          /\ \A k \in DOMAIN receiver : Stray(k) =>
               \E s \in Subs : Left(s) /\ leak[s] = NULL_SUBID /\ mess[s] = k
    BY DEF AllTraced
  <2>2. PICK o \in Subs : Left(o) /\ leak[o] = NULL_SUBID /\ mess[o] = 1
    BY <1>2, <1>4, <1>6, <2>1 DEF Stray
  <2>3. PICK leak2, mess2 : /\ leak2 = [leak EXCEPT ![o] = new_id]
                            /\ mess2 = [s \in Subs |-> mess[s] - 1]
    OBVIOUS
  <2>4. /\ leak2 \in [Subs -> SubIds \cup {NULL_SUBID}] /\ leak2[o] = new_id
        /\ mess2 \in [Subs -> Int] /\ \A s \in Subs : mess[s] \in Int /\ mess2[s] = mess[s] - 1
        /\ \A s \in Subs \ {o} : leak2[s] = leak[s]
    BY <1>3, <2>3
  <2>5. \A i \in DOMAIN event_queues : Claimed(i) => Claimed(i)'
    <3> SUFFICES ASSUME NEW i \in DOMAIN event_queues, Claimed(i) PROVE Claimed(i)'
      OBVIOUS
    <3>1. reply' = reply
      BY <1>1, <1>6, NobodyAssumption DEF Respond
    <3>2. ASSUME NEW k \in DOMAIN receiver, receiver[k].op = "Unsubscribe"
          PROVE  k - 1 \in DOMAIN receiver' /\ receiver'[k - 1] = receiver[k]
      BY <1>2, <1>4, <3>2 DEF TypeInv, TypeOK
    <3> QED BY <1>2, <3>1, <3>2 DEF Claimed
  <2>6. ASSUME NEW i \in DOMAIN event_queues'
        PROVE  Claimed(i)' \/ \E s \in Subs : Left(s)' /\ leak2[s] = i
    <3>1. CASE i = new_id
      BY <1>2, <2>2, <2>4, <3>1 DEF Left
    <3>2. CASE i \in DOMAIN event_queues /\ ~Claimed(i)
      <4>1. PICK s \in Subs : Left(s) /\ leak[s] = i
        BY <2>1, <3>2
      <4>2. s # o
        BY <2>2, <3>2, <4>1 DEF TypeInv, TypeOK, SubIds, NULL_SUBID
      <4> QED BY <1>2, <2>4, <4>1, <4>2 DEF Left
    <3> QED BY <1>3, <2>5, <3>1, <3>2
  <2>7. ASSUME NEW k \in DOMAIN receiver', Stray(k)'
        PROVE  \E s \in Subs : Left(s)' /\ leak2[s] = NULL_SUBID /\ mess2[s] = k
    <3>1. k \in Int /\ k + 1 \in DOMAIN receiver /\ k + 1 # 1 /\ Stray(k + 1)
      BY <1>4, <2>7 DEF Stray
    <3>2. PICK s \in Subs : Left(s) /\ leak[s] = NULL_SUBID /\ mess[s] = k + 1
      BY <2>1, <3>1
    <3>3. s # o
      BY <2>2, <3>1, <3>2
    <3>4. mess2[s] = k
      BY <2>4, <3>1, <3>2
    <3> QED BY <1>2, <2>4, <3>2, <3>3, <3>4 DEF Left
  <2> QED BY <2>4, <2>6, <2>7 DEF AllTraced
<1> QED BY <1>4, <1>5, <1>6, MessageKinds

LEMMA BusTraced ==
  ASSUME TypeInv, AllTraced, Bus
  PROVE  AllTraced'
<1>1. CASE HandleSubscribe
  BY <1>1, SubscribeTraced
<1>2. ASSUME receiver # <<>>, receiver' = Tail(receiver), Head(receiver).op # "Unsubscribe",
             UNCHANGED <<recycle, call, id, handles>>, UNCHANGED reply \/ \E a : Respond(a),
             DOMAIN event_queues' \subseteq DOMAIN event_queues
      PROVE  AllTraced'
  BY <1>2, TakenTraced
<1>3. CASE HandleSubscribeExhausted \/ HandleStrayPoll \/ HandlePush
  <2>1. /\ receiver # <<>> /\ receiver' = Tail(receiver) /\ Head(receiver).op # "Unsubscribe"
        /\ UNCHANGED <<recycle, call, id, handles>>
        /\ UNCHANGED reply \/ \E a : Respond(a)
    BY <1>3 DEF HandleSubscribeExhausted, HandleStrayPoll, HandlePush, Receive, Polls,
                busVars, clientVars
  <2>2. DOMAIN event_queues' = DOMAIN event_queues
    BY <1>3 DEF HandleSubscribeExhausted, HandleStrayPoll, HandlePush, busVars
  <2> QED BY <1>2, <2>1, <2>2
<1>4. CASE HandlePoll \/ HandleBatchPoll
  <2>1. /\ receiver # <<>> /\ receiver' = Tail(receiver) /\ Head(receiver).op # "Unsubscribe"
    BY <1>4 DEF HandlePoll, HandleBatchPoll, Receive
  <2>2. PICK i \in DOMAIN event_queues : \E n : Hand(i, n)
    BY <1>4 DEF HandlePoll, HandleBatchPoll
  <2>3. /\ UNCHANGED <<recycle, call, id, handles>> /\ \E a : Respond(a)
        /\ DOMAIN event_queues' = DOMAIN event_queues
    BY <2>2 DEF Hand, WithQueue, clientVars
  <2> QED BY <1>2, <2>1, <2>3
<1>5. CASE HandleUnsubscribe
  <2>1. /\ receiver # <<>> /\ receiver' = Tail(receiver)
        /\ UNCHANGED <<recycle, call, id, handles, reply>>
    BY <1>5 DEF HandleUnsubscribe, Receive, clientVars
  <2>2. DOMAIN event_queues' = DOMAIN event_queues \ {Head(receiver).arg}
    BY <1>5 DEF HandleUnsubscribe, Without
  <2> QED BY <2>1, <2>2, TakenTraced
<1>6. CASE HandleUnsubscribeLater
  <2>1. /\ receiver # <<>> /\ receiver' = Tail(receiver)
        /\ UNCHANGED <<event_queues, call, id, handles, reply>>
        /\ recycle' = recycle \cup {Head(receiver).arg}
    BY <1>6 DEF HandleUnsubscribeLater, Receive, clientVars
  <2>2. \A i : i = Head(receiver).arg => Claimed(i)'
    BY <2>1 DEF Claimed
  <2>3. \A i \in DOMAIN event_queues' :
          \/ Claimed(i)'
          \/ /\ i \in DOMAIN event_queues
             /\ i \in recycle => i \in recycle'
             /\ ~(Head(receiver).op = "Unsubscribe" /\ Head(receiver).arg = i)
    BY <2>1, <2>2
  <2> QED BY <2>1, <2>3, TakenTraced
<1>7. CASE HandleCleanup
  <2>1. /\ receiver # <<>> /\ receiver' = Tail(receiver) /\ Head(receiver).op # "Unsubscribe"
        /\ UNCHANGED <<call, id, handles, reply>>
    BY <1>7 DEF HandleCleanup, Receive, clientVars
  <2>2. DOMAIN event_queues' = DOMAIN event_queues \ recycle
    BY <1>7 DEF HandleCleanup, Without
  <2> QED BY <2>1, <2>2, TakenTraced
<1> QED BY <1>1, <1>3, <1>4, <1>5, <1>6, <1>7 DEF Bus

LEMMA NextTraced == TypeInv /\ AllTraced /\ [Next]_vars => AllTraced'
<1> SUFFICES ASSUME TypeInv, AllTraced, [Next]_vars PROVE AllTraced'
  OBVIOUS
<1>t. call \in [Subs -> Calls] /\ handles \in [Subs -> 0 .. 2] /\ \A s \in Subs : s # Nobody
  BY NobodyAssumption DEF TypeInv, TypeOK
<1>1. ASSUME NEW s \in Subs, NEW op \in Polls, CallPoll(s, op) PROVE AllTraced'
  <2>1. /\ receiver' = Append(receiver, Message(op, id[s], s))
        /\ UNCHANGED <<event_queues, recycle, reply, id, handles>>
        /\ \A o \in Subs : call'[o] = call[o] \/ call[o] \notin {"Subscribe", "left"}
    BY <1>1, <1>t DEF CallPoll, Send, busVars
  <2> QED BY <1>t, <2>1, SentTraced DEF Message
<1>2. ASSUME NEW s \in Subs, Subscribe(s) PROVE AllTraced'
  <2>1. /\ receiver' = Append(receiver, Message("Subscribe", Nobody, s))
        /\ UNCHANGED <<event_queues, recycle, reply, id, handles>>
        /\ \A o \in Subs : call'[o] = call[o] \/ call[o] \notin {"Subscribe", "left"}
    BY <1>2, <1>t DEF Subscribe, Send, busVars
  <2> QED BY <1>t, <2>1, SentTraced DEF Message
<1>8. ASSUME NEW s \in Subs, NEW i \in Named, Unsubscribe(s, i) PROVE AllTraced'
  <2>1. /\ receiver' = Append(receiver, Message("Unsubscribe", i, Nobody))
        /\ UNCHANGED <<event_queues, recycle, reply, id, handles, call>>
    BY <1>8 DEF Unsubscribe, Send, busVars
  <2> QED BY <2>1, SentTraced DEF Message
<1>3. ASSUME NEW s \in Subs, Drop(s) PROVE AllTraced'
  <2>1. /\ receiver' = Append(receiver, Message("Unsubscribe", id[s], Nobody))
        /\ UNCHANGED <<event_queues, recycle, reply, id, call>>
        /\ \A o \in Subs : o # s => handles'[o] = handles[o]
    BY <1>3, <1>t DEF Drop, Send, busVars
  <2>2. \A o \in Subs : handles[o] > 0 => handles'[o] > 0
                          \/ Message("Unsubscribe", id[s], Nobody) = Message("Unsubscribe", id[o], Nobody)
    BY <2>1
  <2>3. Message("Unsubscribe", id[s], Nobody).op # "Subscribe"
    BY DEF Message
  <2> QED BY <2>1, <2>2, <2>3, SentTraced
<1>4. ASSUME NEW e \in Events, Publish(e) PROVE AllTraced'
  <2>1. /\ receiver' = Append(receiver, Message("PushEvent", e, Nobody))
        /\ UNCHANGED <<event_queues, recycle, reply, id, handles, call>>
    BY <1>4 DEF Publish, Send, busVars, clientVars
  <2> QED BY <2>1, SentTraced DEF Message
<1>5. CASE RequestCleanup
  <2>1. /\ receiver' = Append(receiver, CleanUpBgTask)
        /\ UNCHANGED <<event_queues, recycle, reply, id, handles, call>>
    BY <1>5 DEF RequestCleanup, Send, busVars, clientVars
  <2> QED BY <2>1, SentTraced DEF CleanUpBgTask, Message
<1>6. ASSUME NEW s \in Subs, Resume(s) \/ Client(s) PROVE AllTraced'
  <2>1. matcher[s] \in {"none"} \cup Polls
    BY DEF TypeInv, TypeOK
  <2>2. MatchPoll(s) \/ FreePoll(s) => AllTraced'
    BY <1>1, <2>1 DEF MatchPoll, FreePoll
  <2> QED BY <1>2, <1>3, <1>6, <1>8, <2>2, LocalTraced, AbandonTraced DEF Resume, Client
<1>7. CASE UNCHANGED vars
  <2>1. UNCHANGED <<receiver, event_queues, recycle, call, reply, id, handles>>
    BY <1>7 DEF vars, busVars, clientVars
  <2> QED BY <2>1 DEF AllTraced, Claimed, Stray, Left
<1> QED BY <1>4, <1>5, <1>6, <1>7, BusTraced DEF Next

\* No queue is forgotten (EventBus::unsubscribe, cleanup and the drop of a handle): the
\* bus keeps no more queues that nothing will take away than subscribe calls were given
\* up, in both builds, for clients that tell the bus twice too.
THEOREM QueuesClaimed == Spec => []NoneForgotten
<1>1. Init => AllTraced
  <2>1. \E leak \in [Subs -> SubIds \cup {NULL_SUBID}] : TRUE
    <3>1. [s \in Subs |-> NULL_SUBID] \in [Subs -> SubIds \cup {NULL_SUBID}]
      OBVIOUS
    <3> QED BY <3>1
  <2>2. \E mess \in [Subs -> Int] : TRUE
    <3>1. [s \in Subs |-> 0] \in [Subs -> Int]
      OBVIOUS
    <3> QED BY <3>1
  <2>3. Init => DOMAIN event_queues = {} /\ DOMAIN receiver = {}
    BY DEF Init
  <2> QED BY <2>1, <2>2, <2>3 DEF AllTraced
<1>2. AllTraced => NoneForgotten
  BY DEF AllTraced, NoneForgotten, Left
<1> QED BY <1>1, <1>2, NextTraced, Types, PTL DEF Spec
=============================================================================
