------------------------ MODULE EventBusDeliveryProofs ------------------------
(***************************************************************************)
(* The proof of EventBus!Delivered, for any number of subscribers, ids and *)
(* events, in both builds, and whoever gives up a call: with delay-delete  *)
(* for clients that pass any id to unsubscribe, without it for clients     *)
(* that tell the bus of their own subscription, once.                      *)
(*                                                                         *)
(* The bus knows subscribers by their ids alone, so what has to be shown   *)
(* is that no message on its way means another subscriber than the one it  *)
(* was sent for: no poll or Unsubscribe waits in the mailbox when its id   *)
(* may yet go to somebody undisturbed, and where ids are given out again   *)
(* an Unsubscribe is the last message of its id.  With delay-delete no id  *)
(* is ever given out twice.                                                *)
(***************************************************************************)
EXTENDS EventBusProofs

Owns     == \A s \in Subs : Undisturbed(s) => IdOf(s) \in DOMAIN event_queues
Apart    == \A s, o \in Subs : Undisturbed(s) /\ Undisturbed(o) /\ IdOf(o) = IdOf(s) => o = s
Complete == \A s \in Subs : Undisturbed(s) /\ s \notin gaveUp =>
  got[s] \o InFlight(s) \o event_queues[IdOf(s)] = SubSeq(log, start[s] + 1, Len(log))
Begun    == \A s \in Subs : start[s] <= Len(log)

\* Without delay-delete, a subscriber has one handle until it tells the bus, and
\* nobody names an id that is not its own.
ToldOnce == ~delayDelete =>
  /\ guessed = {}
  /\ \A s \in Subs : handles[s] # 0 => handles[s] = 1 /\ s \notin told

\* Nobody undisturbed will get i.
OutOfPlay(i) == i \notin ids \/ i \in guessed

\* A message that names an id harms nobody who has that id now, or gets it.
Harmless(m) ==
  /\ m.op \in {"Unsubscribe"} \cup Polls => OutOfPlay(m.arg)
  /\ m.op = "Unsubscribe" => \A s \in Subs : Undisturbed(s) => IdOf(s) # m.arg
  /\ m.op \in Polls => \A s \in Subs : Undisturbed(s) /\ IdOf(s) = m.arg =>
       m.reply = s \/ (m.reply = Nobody /\ s \in gaveUp)
AllHarmless == \A k \in DOMAIN receiver : Harmless(receiver[k])
LastWord == ~delayDelete => \A k, j \in DOMAIN receiver :
  /\ receiver[k].op = "Unsubscribe"
  /\ receiver[j].op \in {"Unsubscribe"} \cup Polls
  /\ receiver[j].arg = receiver[k].arg
  => j <= k

\* What waits for cleanup is nobody's and will not be.
Recycled == \A i \in recycle : OutOfPlay(i) /\ \A s \in Subs : Undisturbed(s) => IdOf(s) # i

\* With delay-delete, an id belongs to one subscriber for ever.
NeverAgain == delayDelete => \A s \in Subs : IdOf(s) # NULL_SUBID =>
  /\ IdOf(s) \notin ids
  /\ \A o \in Subs : IdOf(o) = IdOf(s) => o = s

\* The bus is told nothing of a subscriber before it has an id.
Newcomers == \A s \in Subs : call[s] \in {"none", "Subscribe"} /\ s \in told =>
  delayDelete /\ IdOf(s) # NULL_SUBID

Streams == Owns /\ Apart /\ Complete /\ Begun
Mailbox == ToldOnce /\ AllHarmless /\ LastWord
Ids     == Recycled /\ NeverAgain
DeliverInv == TypeInv /\ IdsInv /\ Newcomers /\ Streams /\ Mailbox /\ Ids

\* A subscriber keeps its id or loses it.
SameId(s) == IdOf(s)' # NULL_SUBID => IdOf(s)' = IdOf(s)

\* Who has a handle, or polls, has the id of that handle.
LEMMA HolderId ==
  ASSUME TypeInv, NEW s \in Subs, handles[s] # 0 \/ call[s] \in Polls
  PROVE  IdOf(s) = id[s] /\ id[s] \in SubIds
<1>1. call[s] \notin {"none", "Subscribe", "left"} /\ id[s] \in SubIds
  BY DEF TypeInv, TypeOK, Holders, Polls
<1>2. reply[s] # <<>> => Head(reply[s]).id = id[s]
  BY <1>1 DEF TypeInv, OneAnswer
<1> QED BY <1>1, <1>2 DEF IdOf

\* Who waits for a subscription, or has none, has no id but that of its answer.
LEMMA NoHolderId ==
  ASSUME TypeInv, NEW s \in Subs, call[s] \in {"none", "Subscribe", "left"}
  PROVE  /\ id[s] = NULL_SUBID /\ got[s] = <<>>
         /\ InFlight(s) = <<>>
         /\ call[s] # "Subscribe" => reply[s] = <<>>
<1>1. id[s] = NULL_SUBID /\ got[s] = <<>>
  BY DEF TypeInv, Holders
<1>2. reply[s] # <<>> => call[s] = "Subscribe" /\ Head(reply[s]).events = <<>>
  BY DEF TypeInv, OneAnswer, Polls
<1> QED BY <1>1, <1>2 DEF InFlight

LEMMA IdOfTypes == ASSUME TypeInv, NEW s \in Subs
                   PROVE  IdOf(s) \in SubIds \cup {NULL_SUBID} /\ InFlight(s) \in Seq(Events)
<1>1. id[s] \in SubIds \cup {NULL_SUBID} /\ <<>> \in Seq(Events)
  BY DEF TypeInv, TypeOK
<1> QED BY <1>1, HeadAnswer DEF IdOf, InFlight

-----------------------------------------------------------------------------
(* The steps of the clients.                                               *)

\* A step that leaves the bus alone keeps the streams of all whose events it
\* leaves in the same order.
LEMMA ClientsKeep ==
  ASSUME DeliverInv, UNCHANGED <<delayDelete, busVars, history>>,
         told \subseteq told', guessed \subseteq guessed', gaveUp \subseteq gaveUp',
         \A s \in Subs : SameId(s),
         \A s \in Subs : Undisturbed(s)' /\ s \notin gaveUp' =>
           got'[s] \o InFlight(s)' = got[s] \o InFlight(s)
  PROVE  /\ Streams' /\ Ids'
         /\ \A s \in Subs : Undisturbed(s)' => Undisturbed(s) /\ IdOf(s)' = IdOf(s)
<1>1. \A s \in Subs : Undisturbed(s)' => Undisturbed(s) /\ IdOf(s)' = IdOf(s)
  BY DEF Undisturbed, SameId
<1>2. UNCHANGED <<event_queues, ids, recycle, log, start, delayDelete>>
  BY DEF busVars, history
<1>3. Owns' /\ Apart' /\ Begun'
  BY <1>1, <1>2 DEF DeliverInv, Streams, Owns, Apart, Begun
<1>4. Complete'
  <2> SUFFICES ASSUME NEW s \in Subs, Undisturbed(s)', s \notin gaveUp'
               PROVE  got'[s] \o InFlight(s)' \o event_queues[IdOf(s)'] = SubSeq(log, start[s] + 1, Len(log))
    BY <1>2 DEF Complete
  <2>1. Undisturbed(s) /\ IdOf(s)' = IdOf(s) /\ s \notin gaveUp
    BY <1>1
  <2>2. got[s] \o InFlight(s) \o event_queues[IdOf(s)] = SubSeq(log, start[s] + 1, Len(log))
    BY <2>1 DEF DeliverInv, Streams, Complete
  <2>3. got'[s] \o InFlight(s)' = got[s] \o InFlight(s)
    OBVIOUS
  <2> QED BY <2>1, <2>2, <2>3
<1>5. Recycled'
  BY <1>1, <1>2 DEF DeliverInv, Ids, Recycled, OutOfPlay
<1>6. NeverAgain'
  BY <1>2 DEF DeliverInv, Ids, NeverAgain, SameId
<1> QED BY <1>1, <1>3, <1>4, <1>5, <1>6 DEF Streams, Ids

\* A harmless message that comes last of its id.
LEMMA SentHarmless ==
  ASSUME DeliverInv, NEW m \in Messages, receiver' = Append(receiver, m),
         UNCHANGED <<delayDelete, ids, gaveUp>>, guessed \subseteq guessed',
         \A s \in Subs : Undisturbed(s)' => Undisturbed(s) /\ IdOf(s)' = IdOf(s),
         Harmless(m)',
         ~delayDelete /\ m.op \in {"Unsubscribe"} \cup Polls =>
           \A k \in DOMAIN receiver : receiver[k].op = "Unsubscribe" => receiver[k].arg # m.arg
  PROVE  AllHarmless' /\ LastWord'
<1>1. receiver \in Seq(Messages)
  BY DEF DeliverInv, TypeInv, TypeOK
<1>2. /\ DOMAIN receiver' = DOMAIN receiver \cup {Len(receiver) + 1}
      /\ \A i \in DOMAIN receiver : receiver'[i] = receiver[i]
      /\ receiver'[Len(receiver) + 1] = m
  BY <1>1, AppendElements
<1>3. AllHarmless'
  <2>1. ASSUME NEW k \in DOMAIN receiver PROVE Harmless(receiver[k])'
    <3>1. Harmless(receiver[k]) /\ receiver'[k] = receiver[k]
      BY <1>2 DEF DeliverInv, Mailbox, AllHarmless
    <3> QED BY <3>1 DEF Harmless, OutOfPlay
  <2>2. ASSUME NEW k, k = Len(receiver) + 1 PROVE Harmless(receiver[k])'
    <3>1. receiver'[k] = m
      BY <1>2, <2>2
    <3> QED BY <3>1 DEF Harmless, OutOfPlay
  <2> QED BY <1>2, <2>1, <2>2 DEF AllHarmless
<1>4. LastWord'
  <2> SUFFICES ASSUME ~delayDelete, NEW k \in DOMAIN receiver', NEW j \in DOMAIN receiver',
                      receiver'[k].op = "Unsubscribe",
                      receiver'[j].op \in {"Unsubscribe"} \cup Polls,
                      receiver'[j].arg = receiver'[k].arg
               PROVE  j <= k
    BY DEF LastWord
  <2>1. DOMAIN receiver = 1 .. Len(receiver) /\ Len(receiver) \in Nat
    BY <1>1
  <2>2. CASE k = Len(receiver) + 1
    BY <1>2, <2>1, <2>2
  <2>3. CASE k # Len(receiver) + 1
    <3>1. k \in DOMAIN receiver /\ receiver'[k] = receiver[k]
      BY <1>2, <2>3
    <3>2. j # Len(receiver) + 1
      BY <1>2, <3>1
    <3>3. j \in DOMAIN receiver /\ receiver'[j] = receiver[j]
      BY <1>2, <3>2
    <3> QED BY <3>1, <3>3 DEF DeliverInv, Mailbox, LastWord
  <2> QED BY <2>2, <2>3
<1> QED BY <1>3, <1>4

\* The steps of a subscriber that sends nothing.
LEMMA LocalDelivers ==
  ASSUME DeliverInv, delayDelete \/ Reckless = FALSE, NEW s \in Subs,
         Subscribed(s) \/ Polled(s) \/ (\E op \in Polls : BeginMatch(s, op)) \/ Clone(s)
  PROVE  Streams' /\ Ids' /\ Mailbox'
<1>1. TypeInv
  BY DEF DeliverInv
<1>2. UNCHANGED <<delayDelete, receiver, busVars, told, guessed, gaveUp, history>>
  BY DEF Subscribed, Polled, BeginMatch, Clone
<1>3. ASSUME NEW o \in Subs
      PROVE  /\ IdOf(o)' = IdOf(o)
             /\ got'[o] \o InFlight(o)' = got[o] \o InFlight(o)
  <2>1. CASE Subscribed(s)
    <3>1. /\ call[s] = "Subscribe" /\ reply[s] # <<>>
          /\ reply' = [reply EXCEPT ![s] = <<>>] /\ UNCHANGED got
          /\ \/ id' = [id EXCEPT ![s] = Head(reply[s]).id]
             \/ Head(reply[s]).id = NULL_SUBID /\ UNCHANGED id
      BY <2>1 DEF Subscribed
    <3>2. /\ reply'[s] = <<>>
          /\ o # s => reply'[o] = reply[o] /\ id'[o] = id[o]
      BY <1>1, <3>1, EmptiedReply DEF TypeInv, TypeOK
    <3>3. CASE o = s
      <4>1. id[s] = NULL_SUBID /\ InFlight(s) = <<>>
        BY <1>1, <3>1, NoHolderId
      <4>2. id'[s] = Head(reply[s]).id
        BY <1>1, <3>1, <4>1 DEF TypeInv, TypeOK
      <4> QED BY <3>1, <3>2, <3>3, <4>1, <4>2 DEF IdOf, InFlight
    <3>4. CASE o # s
      <4>1. reply'[o] = reply[o] /\ id'[o] = id[o] /\ got'[o] = got[o]
        BY <1>1, <3>1, <3>2, <3>4 DEF TypeInv, TypeOK
      <4> QED BY <4>1 DEF IdOf, InFlight
    <3> QED BY <3>3, <3>4
  <2>2. CASE Polled(s)
    <3>1. /\ call[s] \in Polls /\ reply[s] # <<>>
          /\ reply' = [reply EXCEPT ![s] = <<>>] /\ UNCHANGED id
          /\ got' = [got EXCEPT ![s] = got[s] \o Head(reply[s]).events]
      BY <2>2 DEF Polled
    <3>2. /\ reply'[s] = <<>>
          /\ o # s => reply'[o] = reply[o] /\ got'[o] = got[o]
      BY <1>1, <3>1, EmptiedReply DEF TypeInv, TypeOK
    <3>3. CASE o = s
      <4>1. IdOf(s) = id[s] /\ Head(reply[s]).events \in Seq(Events) /\ got[s] \in Seq(Events)
        BY <1>1, <3>1, HolderId, HeadAnswer DEF TypeInv, TypeOK
      <4>2. got'[s] = got[s] \o Head(reply[s]).events
        BY <1>1, <3>1 DEF TypeInv, TypeOK
      <4>3. got[s] \o Head(reply[s]).events \in Seq(Events)
        BY <4>1, ConcatProperties
      <4>4. got'[s] \o <<>> = got[s] \o Head(reply[s]).events
        BY <4>2, <4>3, ConcatEmptySeq
      <4> QED BY <3>1, <3>2, <3>3, <4>1, <4>4 DEF IdOf, InFlight
    <3>4. CASE o # s
      <4>1. reply'[o] = reply[o] /\ id'[o] = id[o] /\ got'[o] = got[o]
        BY <1>1, <3>1, <3>2, <3>4 DEF TypeInv, TypeOK
      <4> QED BY <4>1 DEF IdOf, InFlight
    <3> QED BY <3>3, <3>4
  <2>3. CASE (\E op \in Polls : BeginMatch(s, op)) \/ Clone(s)
    <3>1. UNCHANGED <<id, reply, got>>
      BY <2>3 DEF BeginMatch, Clone
    <3> QED BY <3>1 DEF IdOf, InFlight
  <2> QED BY <2>1, <2>2, <2>3
<1>4. /\ Streams' /\ Ids'
      /\ \A o \in Subs : Undisturbed(o)' => Undisturbed(o) /\ IdOf(o)' = IdOf(o)
  BY <1>2, <1>3, ClientsKeep DEF SameId
<1>5. AllHarmless' /\ LastWord'
  BY <1>2, <1>4 DEF DeliverInv, Mailbox, AllHarmless, Harmless, OutOfPlay, LastWord, busVars
<1>6. ToldOnce'
  <2> SUFFICES ASSUME ~delayDelete
               PROVE  guessed = {} /\ \A o \in Subs : handles'[o] # 0 => handles'[o] = 1 /\ o \notin told
    BY <1>2 DEF ToldOnce
  <2>1. guessed = {} /\ \A o \in Subs : handles[o] # 0 => handles[o] = 1 /\ o \notin told
    BY DEF DeliverInv, Mailbox, ToldOnce
  <2>2. ~Clone(s)
    BY DEF Clone, TellsTwice
  <2>3. CASE Subscribed(s)
    <3>1. s \notin told
      BY <2>3 DEF Subscribed, DeliverInv, Newcomers
    <3>2. UNCHANGED handles \/ handles' = [handles EXCEPT ![s] = 1]
      BY <2>3 DEF Subscribed
    <3> QED BY <1>1, <2>1, <3>1, <3>2 DEF TypeInv, TypeOK
  <2>4. CASE Polled(s) \/ \E op \in Polls : BeginMatch(s, op)
    BY <2>1, <2>4 DEF Polled, BeginMatch
  <2> QED BY <2>2, <2>3, <2>4
<1> QED BY <1>4, <1>5, <1>6 DEF Mailbox

\* A call that is given up: its message, if it is a poll, may still take events,
\* which Complete speaks of no more.
LEMMA AbandonDelivers ==
  ASSUME DeliverInv, NEW s \in Subs, Abandon(s)
  PROVE  Streams' /\ Ids' /\ Mailbox'
<1>1. TypeInv
  BY DEF DeliverInv
<1>2. /\ UNCHANGED <<delayDelete, busVars, handles, id, got, told, guessed, history>>
      /\ gaveUp' = gaveUp \cup {s} /\ call[s] \in {"Subscribe"} \cup Polls
      /\ reply' = [reply EXCEPT ![s] = <<>>]
  BY DEF Abandon
<1>3. reply'[s] = <<>> /\ \A o \in Subs : o # s => reply'[o] = reply[o]
  BY <1>1, <1>2, EmptiedReply
<1>4. ASSUME NEW o \in Subs PROVE SameId(o)
  <2>1. CASE o = s
    <3>1. call[s] \in Polls => IdOf(s) = id[s]
      BY <1>1, HolderId
    <3>2. call[s] = "Subscribe" => id[s] = NULL_SUBID
      BY <1>1, NoHolderId
    <3>3. IdOf(s)' = id[s]
      BY <1>2, <1>3 DEF IdOf
    <3> QED BY <1>2, <2>1, <3>1, <3>2, <3>3 DEF SameId
  <2>2. CASE o # s
    <3>1. reply'[o] = reply[o] /\ id' = id
      BY <1>2, <1>3, <2>2
    <3> QED BY <3>1 DEF SameId, IdOf
  <2> QED BY <2>1, <2>2
<1>5. ASSUME NEW o \in Subs, o \notin gaveUp'
      PROVE  got'[o] \o InFlight(o)' = got[o] \o InFlight(o)
  <2>1. reply'[o] = reply[o] /\ got' = got
    BY <1>2, <1>3, <1>5
  <2> QED BY <2>1 DEF InFlight
<1>6. /\ Streams' /\ Ids'
      /\ \A o \in Subs : Undisturbed(o)' => Undisturbed(o) /\ IdOf(o)' = IdOf(o)
  BY <1>2, <1>4, <1>5, ClientsKeep
<1>7. /\ DOMAIN receiver' = DOMAIN receiver
      /\ \A k \in DOMAIN receiver :
           /\ receiver'[k].op = receiver[k].op /\ receiver'[k].arg = receiver[k].arg
           /\ receiver'[k].reply = IF receiver[k].reply = s THEN Nobody ELSE receiver[k].reply
  BY <1>1, AbandonedMail
<1>8. AllHarmless'
  <2>1. ASSUME NEW k \in DOMAIN receiver PROVE Harmless(receiver[k])'
    <3>1. Harmless(receiver[k])
      BY DEF DeliverInv, Mailbox, AllHarmless
    <3>2. /\ receiver'[k].op = receiver[k].op /\ receiver'[k].arg = receiver[k].arg
          /\ receiver'[k].reply = IF receiver[k].reply = s THEN Nobody ELSE receiver[k].reply
          /\ UNCHANGED <<ids, guessed>>
      BY <1>2, <1>7 DEF busVars
    <3>3. ASSUME NEW o \in Subs, Undisturbed(o)', IdOf(o)' = receiver[k].arg, receiver[k].op \in Polls
          PROVE  receiver'[k].reply = o \/ (receiver'[k].reply = Nobody /\ o \in gaveUp')
      <4>1. receiver[k].reply = o \/ (receiver[k].reply = Nobody /\ o \in gaveUp)
        BY <1>6, <3>1, <3>3 DEF Harmless
      <4> QED BY <1>2, <3>2, <4>1
    <3> QED BY <1>6, <3>1, <3>2, <3>3 DEF Harmless, OutOfPlay
  <2> QED BY <1>7, <2>1 DEF AllHarmless
<1>9. LastWord'
  BY <1>2, <1>7 DEF DeliverInv, Mailbox, LastWord
<1>10. ToldOnce'
  BY <1>2 DEF DeliverInv, Mailbox, ToldOnce
<1> QED BY <1>6, <1>8, <1>9, <1>10 DEF Mailbox

\* The id in a handle is nobody else's, is not free, and no Unsubscribe of it is on
\* its way where that would give it back.
LEMMA HolderApart ==
  ASSUME DeliverInv, NEW s \in Subs, handles[s] # 0
  PROVE  /\ IdOf(s) = id[s] /\ id[s] \in SubIds /\ id[s] \notin ids
         /\ \A o \in Subs : Undisturbed(o) /\ IdOf(o) = id[s] => o = s
         /\ ~delayDelete => \A k \in DOMAIN receiver :
              receiver[k].op = "Unsubscribe" => receiver[k].arg # id[s]
<1>1. IdOf(s) = id[s] /\ id[s] \in SubIds /\ id[s] # NULL_SUBID
  BY HolderId DEF DeliverInv, SubIds, NULL_SUBID
<1>2. CASE delayDelete
  BY <1>1, <1>2 DEF DeliverInv, Ids, NeverAgain
<1>3. CASE ~delayDelete
  <2>1. Undisturbed(s)
    BY <1>1, <1>3 DEF DeliverInv, Mailbox, ToldOnce, Undisturbed
  <2>2. id[s] \notin ids
    BY <1>1, <2>1 DEF DeliverInv, Streams, Owns, IdsInv, IdsApart
  <2>3. \A o \in Subs : Undisturbed(o) /\ IdOf(o) = id[s] => o = s
    BY <1>1, <2>1 DEF DeliverInv, Streams, Apart
  <2>4. \A k \in DOMAIN receiver : receiver[k].op = "Unsubscribe" => receiver[k].arg # id[s]
    BY <1>1, <2>1 DEF DeliverInv, Mailbox, AllHarmless, Harmless
  <2> QED BY <1>1, <2>2, <2>3, <2>4
<1> QED BY <1>2, <1>3

\* The steps that send a message.
LEMMA SendDelivers ==
  ASSUME DeliverInv, delayDelete \/ Reckless = FALSE,
         \/ \E s \in Subs : \/ Subscribe(s) \/ Drop(s)
                            \/ \E i \in Named : Unsubscribe(s, i)
                            \/ \E op \in Polls : CallPoll(s, op)
         \/ \E e \in Events : Publish(e)
         \/ RequestCleanup
  PROVE  Streams' /\ Ids' /\ Mailbox'
<1>1. TypeInv
  BY DEF DeliverInv
<1>2. /\ UNCHANGED <<delayDelete, busVars, history, gaveUp, id, got, reply>>
      /\ told \subseteq told' /\ guessed \subseteq guessed'
  BY DEF Subscribe, Unsubscribe, Drop, CallPoll, Publish, RequestCleanup, clientVars
<1>3. \A o \in Subs : IdOf(o)' = IdOf(o) /\ InFlight(o)' = InFlight(o)
  BY <1>2 DEF IdOf, InFlight
<1>4. /\ Streams' /\ Ids'
      /\ \A o \in Subs : Undisturbed(o)' => Undisturbed(o) /\ IdOf(o)' = IdOf(o)
  BY <1>2, <1>3, ClientsKeep DEF SameId
<1>5. ASSUME NEW m \in Messages, receiver' = Append(receiver, m), UNCHANGED <<handles, told, guessed>>,
             m.op \notin {"Unsubscribe"} \cup Polls
      PROVE  Mailbox'
  <2>1. Harmless(m)'
    BY <1>5 DEF Harmless
  <2>2. AllHarmless' /\ LastWord'
    BY <1>2, <1>4, <1>5, <2>1, SentHarmless DEF busVars
  <2> QED BY <1>2, <1>5, <2>2 DEF DeliverInv, Mailbox, ToldOnce
<1>6. ASSUME NEW s \in Subs, Subscribe(s) PROVE Mailbox'
  <2> DEFINE m == Message("Subscribe", Nobody, s)
  <2>1. m \in Messages /\ m.op \notin {"Unsubscribe"} \cup Polls
    BY MessageTypes DEF Message, Polls
  <2>2. receiver' = Append(receiver, m) /\ UNCHANGED <<handles, told, guessed>>
    BY <1>6 DEF Subscribe, Send
  <2> HIDE DEF m
  <2> QED BY <1>5, <2>1, <2>2
<1>7. ASSUME NEW e \in Events, Publish(e) PROVE Mailbox'
  <2> DEFINE m == Message("PushEvent", e, Nobody)
  <2>1. m \in Messages /\ m.op \notin {"Unsubscribe"} \cup Polls
    BY MessageTypes DEF Message, Polls
  <2>2. receiver' = Append(receiver, m) /\ UNCHANGED <<handles, told, guessed>>
    BY <1>7 DEF Publish, Send, clientVars
  <2> HIDE DEF m
  <2> QED BY <1>5, <2>1, <2>2
<1>8. CASE RequestCleanup
  <2>1. CleanUpBgTask \in Messages /\ CleanUpBgTask.op \notin {"Unsubscribe"} \cup Polls
    BY MessageTypes DEF Message, CleanUpBgTask, Polls
  <2>2. receiver' = Append(receiver, CleanUpBgTask) /\ UNCHANGED <<handles, told, guessed>>
    BY <1>8 DEF RequestCleanup, Send, clientVars
  <2> QED BY <1>4, <1>5, <2>1, <2>2
<1>9. ASSUME NEW s \in Subs, NEW op \in Polls, CallPoll(s, op) PROVE Mailbox'
  <2>1. receiver' = Append(receiver, Message(op, id[s], s)) /\ handles[s] # 0 /\ UNCHANGED <<handles, told, guessed>>
    BY <1>1, <1>9 DEF CallPoll, Send, TypeInv, TypeOK
  <2>2. /\ IdOf(s) = id[s] /\ id[s] \in SubIds /\ id[s] \notin ids
        /\ \A o \in Subs : Undisturbed(o) /\ IdOf(o) = id[s] => o = s
        /\ ~delayDelete => \A k \in DOMAIN receiver :
             receiver[k].op = "Unsubscribe" => receiver[k].arg # id[s]
    BY <2>1, HolderApart
  <2>3. PICK m \in Messages : /\ m = Message(op, id[s], s)
                              /\ m.op = op /\ m.arg = id[s] /\ m.reply = s /\ op # "Unsubscribe"
    BY <2>2, MessageTypes DEF Message, Polls
  <2>4. Harmless(m)'
    BY <1>2, <1>4, <2>2, <2>3 DEF Harmless, OutOfPlay, busVars
  <2>5. AllHarmless' /\ LastWord'
    BY <1>2, <1>4, <2>1, <2>2, <2>3, <2>4, SentHarmless DEF busVars
  <2> QED BY <1>2, <2>1, <2>5 DEF DeliverInv, Mailbox, ToldOnce
<1>10. ASSUME NEW s \in Subs, Drop(s) PROVE Mailbox'
  <2>1. receiver' = Append(receiver, Message("Unsubscribe", id[s], Nobody)) /\ handles[s] # 0
        /\ told' = told \cup {s} /\ UNCHANGED guessed
    BY <1>1, <1>10 DEF Drop, Borrowed, Send, TypeInv, TypeOK
  <2>2. /\ IdOf(s) = id[s] /\ id[s] \in SubIds /\ id[s] \notin ids
        /\ \A o \in Subs : Undisturbed(o) /\ IdOf(o) = id[s] => o = s
        /\ ~delayDelete => \A k \in DOMAIN receiver :
             receiver[k].op = "Unsubscribe" => receiver[k].arg # id[s]
    BY <2>1, HolderApart
  <2>3. PICK m \in Messages : /\ m = Message("Unsubscribe", id[s], Nobody)
                              /\ m.op = "Unsubscribe" /\ m.arg = id[s] /\ "Unsubscribe" \notin Polls
    BY <2>2, MessageTypes DEF Message, Polls
  <2>4. ~Undisturbed(s)'
    BY <2>1 DEF Undisturbed
  <2>5. Harmless(m)'
    BY <1>2, <1>4, <2>2, <2>3, <2>4 DEF Harmless, OutOfPlay, busVars
  <2>6. AllHarmless' /\ LastWord'
    BY <1>2, <1>4, <2>1, <2>2, <2>3, <2>5, SentHarmless DEF busVars
  <2>7. ToldOnce'
    <3> SUFFICES ASSUME ~delayDelete
                 PROVE  guessed' = {} /\ \A o \in Subs : handles'[o] # 0 => handles'[o] = 1 /\ o \notin told'
      BY <1>2 DEF ToldOnce
    <3>1. guessed = {} /\ \A o \in Subs : handles[o] # 0 => handles[o] = 1 /\ o \notin told
      BY DEF DeliverInv, Mailbox, ToldOnce
    <3>2. handles' = [handles EXCEPT ![s] = handles[s] - 1]
      BY <1>10 DEF Drop
    <3>3. handles \in [Subs -> 0 .. 2] /\ handles[s] = 1
      BY <1>1, <2>1, <3>1 DEF TypeInv, TypeOK
    <3> QED BY <2>1, <3>1, <3>2, <3>3
  <2> QED BY <2>6, <2>7 DEF Mailbox
\* Whoever has the id that is named is disturbed, and nobody else will get it.
<1>12. ASSUME NEW s \in Subs, NEW i \in Named, Unsubscribe(s, i) PROVE Mailbox'
  <2>1. /\ delayDelete /\ told' = told \cup Owners(i)
        /\ Owners(i) = {} => i \in guessed'
        /\ receiver' = Append(receiver, Message("Unsubscribe", i, Nobody))
    BY <1>12 DEF Unsubscribe, TellsTwice, Send
  <2>2. i \in SubIds /\ i # NULL_SUBID
    BY LimitsAssumption DEF SubIds, NULL_SUBID
  <2>3. PICK m \in Messages : /\ m = Message("Unsubscribe", i, Nobody)
                              /\ m.op = "Unsubscribe" /\ m.arg = i /\ "Unsubscribe" \notin Polls
    BY <2>2, MessageTypes DEF Message, Polls
  <2>4. OutOfPlay(i)' /\ \A o \in Subs : Undisturbed(o)' => IdOf(o)' # i
    <3>1. CASE Owners(i) = {}
      BY <1>3, <2>1, <3>1 DEF Owners, OutOfPlay
    <3>2. CASE Owners(i) # {}
      <4>1. i \notin ids
        BY <2>1, <2>2, <3>2 DEF Owners, DeliverInv, Ids, NeverAgain
      <4> QED BY <1>2, <1>3, <2>1, <4>1 DEF Owners, OutOfPlay, Undisturbed, busVars
    <3> QED BY <3>1, <3>2
  <2>5. Harmless(m)'
    BY <2>3, <2>4 DEF Harmless
  <2>6. AllHarmless' /\ LastWord'
    BY <1>2, <1>4, <2>1, <2>3, <2>5, SentHarmless DEF busVars
  <2> QED BY <1>2, <2>1, <2>6 DEF Mailbox, ToldOnce
<1>11. Mailbox'
  BY <1>6, <1>7, <1>8, <1>9, <1>10, <1>12
<1> QED BY <1>4, <1>11

-----------------------------------------------------------------------------
(* The steps of the bus.                                                   *)

LEMMA GrownLog ==
  ASSUME NEW S, NEW l \in Seq(S), NEW e \in S, NEW a \in Nat, a <= Len(l)
  PROVE  SubSeq(Append(l, e), a + 1, Len(Append(l, e))) = Append(SubSeq(l, a + 1, Len(l)), e)
<1> DEFINE g == Append(l, e)
           n == Len(l)
<1>1. /\ g \in Seq(S) /\ Len(g) = n + 1 /\ n \in Nat /\ g[n + 1] = e
      /\ \A i \in 1 .. n : g[i] = l[i] /\ l[i] \in S
  BY AppendProperties, ElementOfSeq
<1> HIDE DEF g, n
<1>2. ASSUME NEW r \in Seq(S), NEW m \in Nat, m = Len(r), a <= m
      PROVE  /\ SubSeq(r, a + 1, m) \in Seq(S)
             /\ Len(SubSeq(r, a + 1, m)) = m - a
             /\ \A i \in 1 .. m - a : SubSeq(r, a + 1, m)[i] = r[a + i]
  <2>1. a + 1 \in Int /\ m \in Int /\ \A i \in a + 1 .. m : r[i] \in S
    BY <1>2, ElementOfSeq
  <2>2. /\ SubSeq(r, a + 1, m) \in Seq(S)
        /\ Len(SubSeq(r, a + 1, m)) = IF a + 1 <= m THEN m - (a + 1) + 1 ELSE 0
        /\ \A i \in 1 .. m - (a + 1) + 1 : SubSeq(r, a + 1, m)[i] = r[a + 1 + i - 1]
    BY <2>1, SubSeqProperties
  <2>3. Len(SubSeq(r, a + 1, m)) = m - a
    BY <1>2, <2>2
  <2>4. ASSUME NEW i \in 1 .. m - a PROVE SubSeq(r, a + 1, m)[i] = r[a + i]
    <3>1. i \in 1 .. m - (a + 1) + 1 /\ a + 1 + i - 1 = a + i
      BY <1>2
    <3> QED BY <2>2, <3>1
  <2> QED BY <2>2, <2>3, <2>4
<1>3. /\ SubSeq(l, a + 1, n) \in Seq(S) /\ Len(SubSeq(l, a + 1, n)) = n - a
      /\ \A i \in 1 .. n - a : SubSeq(l, a + 1, n)[i] = l[a + i]
      /\ SubSeq(g, a + 1, n + 1) \in Seq(S) /\ Len(SubSeq(g, a + 1, n + 1)) = n + 1 - a
      /\ \A i \in 1 .. n + 1 - a : SubSeq(g, a + 1, n + 1)[i] = g[a + i]
  <2>1. a <= n /\ a <= n + 1 /\ n + 1 \in Nat /\ n = Len(l) /\ n + 1 = Len(g)
    BY <1>1 DEF n
  <2> QED BY <1>1, <1>2, <2>1
<1>4. /\ Append(SubSeq(l, a + 1, n), e) \in Seq(S)
      /\ Len(Append(SubSeq(l, a + 1, n), e)) = n + 1 - a
      /\ \A i \in 1 .. n - a : Append(SubSeq(l, a + 1, n), e)[i] = l[a + i]
      /\ Append(SubSeq(l, a + 1, n), e)[n + 1 - a] = e
  <2> DEFINE r == SubSeq(l, a + 1, n)
  <2>1. n - a + 1 = n + 1 - a
    BY <1>1
  <2>2. r \in Seq(S) /\ Len(r) = n - a /\ \A i \in 1 .. n - a : r[i] = l[a + i]
    BY <1>3
  <2> HIDE DEF r
  <2>3. /\ Append(r, e) \in Seq(S) /\ Len(Append(r, e)) = Len(r) + 1
        /\ \A i \in 1 .. Len(r) : Append(r, e)[i] = r[i]
        /\ Append(r, e)[Len(r) + 1] = e
    BY <2>2, AppendProperties
  <2>4. /\ Append(r, e) \in Seq(S) /\ Len(Append(r, e)) = n + 1 - a
        /\ \A i \in 1 .. n - a : Append(r, e)[i] = l[a + i]
        /\ Append(r, e)[n + 1 - a] = e
    BY <2>1, <2>2, <2>3
  <2> QED BY <2>4 DEF r
<1>5. ASSUME NEW i \in 1 .. n + 1 - a
      PROVE  SubSeq(g, a + 1, n + 1)[i] = Append(SubSeq(l, a + 1, n), e)[i]
  <2>1. CASE i = n + 1 - a
    <3>1. a + i = n + 1
      BY <1>1, <2>1
    <3> QED BY <1>1, <1>3, <1>4, <2>1, <3>1
  <2>2. CASE i # n + 1 - a
    <3>1. i \in 1 .. n - a /\ a + i \in 1 .. n
      BY <1>1, <2>2
    <3> QED BY <1>1, <1>3, <1>4, <3>1
  <2> QED BY <2>1, <2>2
<1>6. SubSeq(g, a + 1, n + 1) = Append(SubSeq(l, a + 1, n), e)
  BY <1>3, <1>4, <1>5, SeqEqual
<1> QED BY <1>1, <1>6 DEF g, n

LEMMA GrownStream ==
  ASSUME NEW S, NEW x \in Seq(S), NEW q \in Seq(S), NEW e \in S
  PROVE  x \o Append(q, e) = Append(x \o q, e)
<1>1. Append(q, e) = q \o <<e>> /\ <<e>> \in Seq(S)
  BY AppendIsConcat
<1>2. x \o q \in Seq(S)
  BY ConcatProperties
<1>3. Append(x \o q, e) = (x \o q) \o <<e>>
  BY <1>2, AppendIsConcat
<1> QED BY <1>1, <1>3, ConcatAssociative

\* What the answer of a poll takes out of the queue, it adds to what is on its way.
LEMMA SplitStream ==
  ASSUME NEW x \in Seq(Events), NEW q \in Seq(Events), NEW n \in 0 .. Len(q)
  PROVE  x \o SubSeq(q, 1, n) \o SubSeq(q, n + 1, Len(q)) = x \o <<>> \o q
<1> DEFINE y == SubSeq(q, 1, n)
           z == SubSeq(q, n + 1, Len(q))
<1>1. y \in Seq(Events) /\ z \in Seq(Events)
  BY SplitTypes
<1>2. y \o z = q
  BY SplitTypes
<1> HIDE DEF y, z
<1>3. (x \o y) \o z = x \o (y \o z)
  BY <1>1, ConcatAssociative
<1>4. x \o <<>> = x
  BY ConcatEmptySeq
<1>5. x \o y \o z = x \o <<>> \o q
  BY <1>2, <1>3, <1>4
<1> QED BY <1>5 DEF y, z

\* The answer goes to the one who waits for it.
LEMMA Responded ==
  ASSUME TypeInv, receiver # <<>>, NEW a, Respond(a), NEW s \in Subs
  PROVE  /\ Head(receiver).reply # s => reply'[s] = reply[s]
         /\ Head(receiver).reply = s => reply[s] = <<>> /\ reply'[s] # <<>> /\ Head(reply'[s]) = a
<1>1. reply \in [Subs -> Seq(Answers)]
  BY DEF TypeInv
<1>2. CASE Head(receiver).reply = s
  <2>1. reply[s] = <<>>
    BY <1>2, HeadTypes
  <2>2. reply'[s] = Append(reply[s], a)
    BY <1>1, <1>2 DEF Respond
  <2>3. Append(<<>>, a) # <<>> /\ Head(Append(<<>>, a)) = a
    OBVIOUS
  <2> QED BY <1>2, <2>1, <2>2, <2>3
<1>3. CASE Head(receiver).reply # s
  BY <1>1, <1>3 DEF Respond
<1> QED BY <1>2, <1>3

\* The messages behind the one that is taken stay harmless, if the ids they name do
\* not become free, and new subscribers get free ones.
LEMMA TakenHarmless ==
  ASSUME DeliverInv, receiver # <<>>, receiver' = Tail(receiver), UNCHANGED <<delayDelete, clientVars>>,
         \A s \in Subs : Undisturbed(s)' =>
           (Undisturbed(s) /\ IdOf(s)' = IdOf(s)) \/ ~OutOfPlay(IdOf(s)'),
         \A k \in DOMAIN receiver \ {1} :
           receiver[k].op \in {"Unsubscribe"} \cup Polls =>
             receiver[k].arg \notin ids' \/ receiver[k].arg \in guessed
  PROVE  Mailbox'
<1>1. receiver \in Seq(Messages)
  BY DEF DeliverInv, TypeInv, TypeOK
<1>2. \A i \in DOMAIN receiver' : /\ i \in Nat /\ i + 1 \in DOMAIN receiver \ {1}
                                  /\ receiver'[i] = receiver[i + 1]
  BY <1>1, TailElements
<1>3. AllHarmless'
  <2>1. ASSUME NEW k \in DOMAIN receiver' PROVE Harmless(receiver[k])'
    <3>1. Harmless(receiver[k + 1]) /\ receiver'[k] = receiver[k + 1]
      BY <1>2 DEF DeliverInv, Mailbox, AllHarmless
    <3>2. receiver'[k].op \in {"Unsubscribe"} \cup Polls =>
            /\ OutOfPlay(receiver'[k].arg)
            /\ receiver'[k].arg \notin ids' \/ receiver'[k].arg \in guessed
      BY <1>2, <3>1 DEF Harmless
    <3>3. UNCHANGED <<gaveUp, guessed>>
      BY DEF clientVars
    <3> QED BY <3>1, <3>2, <3>3 DEF Harmless, OutOfPlay
  <2> QED BY <2>1 DEF AllHarmless
<1>4. LastWord'
  <2> SUFFICES ASSUME ~delayDelete, NEW k \in DOMAIN receiver', NEW j \in DOMAIN receiver',
                      receiver'[k].op = "Unsubscribe",
                      receiver'[j].op \in {"Unsubscribe"} \cup Polls,
                      receiver'[j].arg = receiver'[k].arg
               PROVE  j <= k
    BY DEF LastWord
  <2>1. /\ k \in Nat /\ k + 1 \in DOMAIN receiver /\ receiver'[k] = receiver[k + 1]
        /\ j \in Nat /\ j + 1 \in DOMAIN receiver /\ receiver'[j] = receiver[j + 1]
    BY <1>2
  <2>2. j + 1 <= k + 1
    BY <2>1 DEF DeliverInv, Mailbox, LastWord
  <2> QED BY <2>1, <2>2
<1>5. ToldOnce'
  BY DEF DeliverInv, Mailbox, ToldOnce, clientVars
<1> QED BY <1>3, <1>4, <1>5 DEF Mailbox

\* The head of the mailbox is harmless, and without delay-delete an Unsubscribe at
\* the head is the last message of its id.
LEMMA HeadHarmless ==
  ASSUME DeliverInv, receiver # <<>>
  PROVE  /\ Harmless(Head(receiver))
         /\ \A k \in DOMAIN receiver \ {1} :
              receiver[k].op \in {"Unsubscribe"} \cup Polls => OutOfPlay(receiver[k].arg)
         /\ ~delayDelete /\ Head(receiver).op = "Unsubscribe" =>
              \A k \in DOMAIN receiver \ {1} :
                receiver[k].op \in {"Unsubscribe"} \cup Polls => receiver[k].arg # Head(receiver).arg
<1>1. 1 \in DOMAIN receiver /\ Head(receiver) = receiver[1] /\ \A k \in DOMAIN receiver : k \in Nat \ {0}
  BY TailElements DEF DeliverInv, TypeInv, TypeOK
<1>2. Harmless(Head(receiver)) /\ \A k \in DOMAIN receiver : Harmless(receiver[k])
  BY <1>1 DEF DeliverInv, Mailbox, AllHarmless
<1>3. ASSUME ~delayDelete, Head(receiver).op = "Unsubscribe", NEW k \in DOMAIN receiver \ {1},
             receiver[k].op \in {"Unsubscribe"} \cup Polls, receiver[k].arg = Head(receiver).arg
      PROVE  FALSE
  <2>1. k <= 1
    BY <1>1, <1>3 DEF DeliverInv, Mailbox, LastWord
  <2> QED BY <1>1, <2>1
<1> QED BY <1>2, <1>3 DEF Harmless

\* A step of the bus that gives nobody an id keeps the streams whose queues and
\* answers it leaves alone.
LEMMA BusKeeps ==
  ASSUME DeliverInv, UNCHANGED <<delayDelete, clientVars, history>>, delayDelete => ids' = ids,
         \A s \in Subs : SameId(s),
         \A s \in Subs : Undisturbed(s) /\ IdOf(s) \in DOMAIN event_queues =>
           /\ IdOf(s) \in DOMAIN event_queues'
           /\ s \notin gaveUp => InFlight(s)' \o event_queues'[IdOf(s)] = InFlight(s) \o event_queues[IdOf(s)]
           /\ InFlight(s)' \in Seq(Events) /\ event_queues'[IdOf(s)] \in Seq(Events)
  PROVE  /\ Streams' /\ NeverAgain'
         /\ \A s \in Subs : Undisturbed(s)' => Undisturbed(s) /\ IdOf(s)' = IdOf(s)
<1>1. UNCHANGED <<delayDelete, got, told, guessed, gaveUp, log, start>>
  BY DEF clientVars, history
<1>2. \A s \in Subs : Undisturbed(s)' => Undisturbed(s) /\ IdOf(s)' = IdOf(s)
  BY <1>1 DEF Undisturbed, SameId
<1>3. Owns' /\ Apart' /\ Begun'
  BY <1>1, <1>2 DEF DeliverInv, Streams, Owns, Apart, Begun
<1>4. Complete'
  <2> SUFFICES ASSUME NEW s \in Subs, Undisturbed(s)', s \notin gaveUp
               PROVE  got[s] \o InFlight(s)' \o event_queues'[IdOf(s)'] = SubSeq(log, start[s] + 1, Len(log))
    BY <1>1 DEF Complete
  <2> DEFINE i == IdOf(s)
             g == got[s]
             a == InFlight(s)
             q == event_queues[i]
             b == InFlight(s)'
             r == event_queues'[i]
  <2>1. Undisturbed(s) /\ IdOf(s)' = i /\ i \in DOMAIN event_queues
    BY <1>2 DEF DeliverInv, Streams, Owns
  <2>2. g \o a \o q = SubSeq(log, start[s] + 1, Len(log))
    BY <2>1 DEF DeliverInv, Streams, Complete
  <2>3. g \in Seq(Events) /\ a \in Seq(Events) /\ q \in Seq(Events)
    BY <2>1, IdOfTypes DEF DeliverInv, TypeInv, TypeOK
  <2>4. b \o r = a \o q
    BY <2>1
  <2>5. b \in Seq(Events) /\ r \in Seq(Events)
    BY <2>1
  <2> HIDE DEF i, g, a, q, b, r
  <2>6. g \o b \o r = g \o (b \o r)
    BY <2>3, <2>5, ConcatAssociative
  <2>7. g \o a \o q = g \o (a \o q)
    BY <2>3, ConcatAssociative
  <2>8. g \o b \o r = SubSeq(log, start[s] + 1, Len(log))
    BY <2>2, <2>4, <2>6, <2>7
  <2> QED BY <2>1, <2>8 DEF g, b, r
<1>5. NeverAgain'
  BY <1>1 DEF DeliverInv, Ids, NeverAgain, SameId
<1> QED BY <1>2, <1>3, <1>4, <1>5 DEF Streams

\* An answer to a poll, with what it takes out of the queue: both builds, whoever
\* waits for it.
LEMMA HandDelivers ==
  ASSUME DeliverInv, NEW op \in Polls, Receive(op), Head(receiver).arg \in DOMAIN event_queues,
         NEW n \in 0 .. Len(event_queues[Head(receiver).arg]), Hand(Head(receiver).arg, n)
  PROVE  Streams' /\ Ids' /\ Mailbox'
<1> DEFINE i == Head(receiver).arg
           q == event_queues[i]
           taken == SubSeq(q, 1, n)
           rest == SubSeq(q, n + 1, Len(q))
           a == Answer(i, taken)
<1>1. TypeInv /\ receiver # <<>> /\ receiver' = Tail(receiver) /\ Head(receiver).op = op
  BY DEF DeliverInv, Receive
<1>2. i \in SubIds /\ q \in Seq(Events)
  BY <1>1 DEF TypeInv, TypeOK
<1>3. taken \in Seq(Events) /\ rest \in Seq(Events)
  BY <1>2, SplitTypes
<1>4. taken \o rest = q
  BY <1>2, SplitTypes
<1>5. a.id = i /\ a.events = taken
  BY <1>2, <1>3, AnswerTypes
<1>6. event_queues' = WithQueue(i, rest) /\ Respond(a)
      /\ UNCHANGED <<delayDelete, ids, recycle, clientVars, history>>
  BY DEF Hand
<1>7. Harmless(Head(receiver))
  BY <1>1, HeadHarmless
<1>8. i \in DOMAIN event_queues
  OBVIOUS
<1> HIDE DEF q, taken, rest, a
<1>9. /\ DOMAIN event_queues' = DOMAIN event_queues
      /\ event_queues'[i] = rest
      /\ \A j \in DOMAIN event_queues : j # i => event_queues'[j] = event_queues[j]
  BY <1>1, <1>2, <1>3, <1>6, <1>8, QueueTypes
  \* Who gets the answer polls the queue of its own id.
<1>10. ASSUME NEW s \in Subs, Head(receiver).reply = s
       PROVE  /\ reply[s] = <<>> /\ IdOf(s) = i /\ IdOf(s)' = i
              /\ InFlight(s) = <<>> /\ InFlight(s)' = taken
  <2>1. reply[s] = <<>> /\ reply'[s] # <<>> /\ Head(reply'[s]) = a
    BY <1>1, <1>6, <1>10, Responded
  <2>2. id[s] = i
    BY <1>1, <1>10, HeadTypes
  <2> QED BY <1>5, <2>1, <2>2 DEF IdOf, InFlight
<1>11. ASSUME NEW s \in Subs, Head(receiver).reply # s
       PROVE  IdOf(s)' = IdOf(s) /\ InFlight(s)' = InFlight(s)
  <2>1. reply'[s] = reply[s] /\ id' = id
    BY <1>1, <1>6, <1>11, Responded DEF clientVars
  <2> QED BY <2>1 DEF IdOf, InFlight
<1>12. \A s \in Subs : SameId(s)
  BY <1>10, <1>11 DEF SameId
<1>13. ASSUME NEW s \in Subs, Undisturbed(s), IdOf(s) \in DOMAIN event_queues
       PROVE  /\ IdOf(s) \in DOMAIN event_queues'
              /\ s \notin gaveUp => InFlight(s)' \o event_queues'[IdOf(s)] = InFlight(s) \o event_queues[IdOf(s)]
              /\ InFlight(s)' \in Seq(Events) /\ event_queues'[IdOf(s)] \in Seq(Events)
  <2>1. InFlight(s) \in Seq(Events) /\ event_queues[IdOf(s)] \in Seq(Events)
    BY <1>1, <1>13, IdOfTypes DEF TypeInv, TypeOK
  <2>2. CASE Head(receiver).reply = s
    <3>1. InFlight(s) \o q = q
      BY <1>2, <1>10, <2>2, ConcatEmptySeq
    <3>2. InFlight(s)' \o event_queues'[i] = InFlight(s) \o event_queues[i]
      BY <1>4, <1>9, <1>10, <2>2, <3>1 DEF q
    <3> QED BY <1>3, <1>8, <1>9, <1>10, <2>2, <3>2
  <2>3. CASE Head(receiver).reply # s /\ IdOf(s) # i
    BY <1>9, <1>11, <1>13, <2>1, <2>3
  <2>4. CASE Head(receiver).reply # s /\ IdOf(s) = i
    <3>1. s \in gaveUp
      BY <1>1, <1>7, <1>13, <2>4 DEF Harmless
    <3> QED BY <1>3, <1>8, <1>9, <1>11, <2>1, <2>4, <3>1
  <2> QED BY <2>2, <2>3, <2>4
<1>14. /\ Streams' /\ NeverAgain'
       /\ \A s \in Subs : Undisturbed(s)' => Undisturbed(s) /\ IdOf(s)' = IdOf(s)
  BY <1>6, <1>12, <1>13, BusKeeps
<1>15. Recycled'
  BY <1>6, <1>14 DEF DeliverInv, Ids, Recycled, OutOfPlay, clientVars
<1>16. Mailbox'
  <2> QED BY <1>1, <1>6, <1>14, HeadHarmless, TakenHarmless DEF OutOfPlay
<1> QED BY <1>14, <1>15, <1>16 DEF Ids

\* The answers that come with no event and no id.
LEMMA EmptyAnswerDelivers ==
  ASSUME DeliverInv, HandleSubscribeExhausted \/ HandleStrayPoll
  PROVE  Streams' /\ Ids' /\ Mailbox'
<1>1. TypeInv /\ receiver # <<>> /\ receiver' = Tail(receiver)
  BY DEF DeliverInv, HandleSubscribeExhausted, HandleStrayPoll, Receive
<1>2. UNCHANGED <<delayDelete, busVars, clientVars, history>>
  BY DEF HandleSubscribeExhausted, HandleStrayPoll
<1>3. PICK i \in SubIds \cup {NULL_SUBID} :
        /\ Respond(Answer(i, <<>>))
        /\ i = NULL_SUBID \/ (Head(receiver).op \in Polls /\ i = Head(receiver).arg)
  <2>1. CASE HandleSubscribeExhausted
    BY <2>1 DEF HandleSubscribeExhausted
  <2>2. CASE HandleStrayPoll
    <3>1. Head(receiver).op \in Polls /\ Respond(Answer(Head(receiver).arg, <<>>))
      BY <2>2 DEF HandleStrayPoll, Receive
    <3>2. Head(receiver).arg \in SubIds
      BY <1>1, <3>1, HeadTypes, MessageKinds
    <3> QED BY <3>1, <3>2
  <2> QED BY <2>1, <2>2
<1>4. Answer(i, <<>>).id = i /\ Answer(i, <<>>).events = <<>>
  BY DEF Answer
<1>5. ASSUME NEW s \in Subs PROVE SameId(s) /\ InFlight(s)' = InFlight(s)
  <2>1. CASE Head(receiver).reply = s
    <3>1. reply[s] = <<>> /\ reply'[s] # <<>> /\ Head(reply'[s]) = Answer(i, <<>>)
      BY <1>1, <1>3, <2>1, Responded
    <3>2. i = NULL_SUBID \/ id[s] = i
      BY <1>1, <1>3, <2>1, HeadTypes
    <3>3. InFlight(s)' = <<>> /\ InFlight(s) = <<>> /\ IdOf(s)' = i /\ IdOf(s) = id[s]
      BY <1>4, <3>1 DEF IdOf, InFlight
    <3> QED BY <3>2, <3>3 DEF SameId
  <2>2. CASE Head(receiver).reply # s
    <3>1. reply'[s] = reply[s] /\ id' = id
      BY <1>1, <1>2, <1>3, <2>2, Responded DEF clientVars
    <3> QED BY <3>1 DEF SameId, IdOf, InFlight
  <2> QED BY <2>1, <2>2
<1>6. /\ Streams' /\ Ids'
      /\ \A s \in Subs : Undisturbed(s)' => Undisturbed(s) /\ IdOf(s)' = IdOf(s)
  BY <1>2, <1>5, ClientsKeep DEF clientVars
<1>7. Mailbox'
  <2>1. ids' = ids
    BY <1>2 DEF busVars
  <2> QED BY <1>1, <1>2, <1>6, <2>1, HeadHarmless, TakenHarmless DEF OutOfPlay
<1> QED BY <1>6, <1>7

\* The end of a subscription: now, later, and when the bus cleans up.
LEMMA UnsubscribeDelivers ==
  ASSUME DeliverInv, HandleUnsubscribe \/ HandleUnsubscribeLater \/ HandleCleanup
  PROVE  Streams' /\ Ids' /\ Mailbox'
<1> DEFINE i == Head(receiver).arg
<1>1. TypeInv /\ receiver # <<>> /\ receiver' = Tail(receiver)
      /\ UNCHANGED <<delayDelete, clientVars, history, reply>>
  BY DEF DeliverInv, HandleUnsubscribe, HandleUnsubscribeLater, HandleCleanup, Receive
<1>2. \A s \in Subs : IdOf(s)' = IdOf(s) /\ InFlight(s)' = InFlight(s)
  BY <1>1 DEF IdOf, InFlight, clientVars
<1>3. \A s \in Subs : SameId(s)
  BY <1>2 DEF SameId
<1>4. ASSUME NEW S, DOMAIN event_queues' = DOMAIN event_queues \ S,
             \A j \in DOMAIN event_queues' : event_queues'[j] = event_queues[j],
             \A s \in Subs : Undisturbed(s) => IdOf(s) \notin S,
             delayDelete => ids' = ids
      PROVE  /\ Streams' /\ NeverAgain'
             /\ \A s \in Subs : Undisturbed(s)' => Undisturbed(s) /\ IdOf(s)' = IdOf(s)
  <2>1. ASSUME NEW s \in Subs, Undisturbed(s), IdOf(s) \in DOMAIN event_queues
        PROVE  /\ IdOf(s) \in DOMAIN event_queues'
               /\ s \notin gaveUp => InFlight(s)' \o event_queues'[IdOf(s)] = InFlight(s) \o event_queues[IdOf(s)]
               /\ InFlight(s)' \in Seq(Events) /\ event_queues'[IdOf(s)] \in Seq(Events)
    <3>1. InFlight(s) \in Seq(Events) /\ event_queues[IdOf(s)] \in Seq(Events)
      BY <1>1, <2>1, IdOfTypes DEF TypeInv, TypeOK
    <3>2. IdOf(s) \in DOMAIN event_queues' /\ event_queues'[IdOf(s)] = event_queues[IdOf(s)]
      BY <1>4, <2>1
    <3> QED BY <1>2, <3>1, <3>2
  <2> QED BY <1>1, <1>3, <1>4, <2>1, BusKeeps
<1>5. Harmless(Head(receiver))
  BY <1>1, HeadHarmless
<1>6. CASE HandleUnsubscribe
  <2>1. /\ ~delayDelete /\ Head(receiver).op = "Unsubscribe"
        /\ event_queues' = Without({i})
        /\ ids' = ids \cup ({i} \cap DOMAIN event_queues)
        /\ UNCHANGED recycle
    BY <1>6 DEF HandleUnsubscribe, Receive
  <2>2. \A s \in Subs : Undisturbed(s) => IdOf(s) \notin {i}
    BY <1>5, <2>1 DEF Harmless
  <2>3. /\ Streams' /\ NeverAgain'
        /\ \A s \in Subs : Undisturbed(s)' => Undisturbed(s) /\ IdOf(s)' = IdOf(s)
    BY <1>4, <2>1, <2>2 DEF Without
  <2>4. Recycled'
    BY <2>1 DEF DeliverInv, IdsInv, Recycled
  <2>5. ASSUME NEW k \in DOMAIN receiver \ {1}, receiver[k].op \in {"Unsubscribe"} \cup Polls
        PROVE  receiver[k].arg \notin ids' \/ receiver[k].arg \in guessed
    <3>1. OutOfPlay(receiver[k].arg) /\ receiver[k].arg # i
      BY <1>1, <2>1, <2>5, HeadHarmless
    <3> QED BY <2>1, <3>1 DEF OutOfPlay
  <2>6. Mailbox'
    BY <1>1, <2>3, <2>5, TakenHarmless
  <2> QED BY <2>3, <2>4, <2>6 DEF Ids
<1>7. CASE HandleUnsubscribeLater
  <2>1. /\ Head(receiver).op = "Unsubscribe" /\ recycle' = recycle \cup {i}
        /\ UNCHANGED <<event_queues, ids>>
    BY <1>7 DEF HandleUnsubscribeLater, Receive
  <2>2. /\ Streams' /\ NeverAgain'
        /\ \A s \in Subs : Undisturbed(s)' => Undisturbed(s) /\ IdOf(s)' = IdOf(s)
    <3>1. PICK S : S = {}
      OBVIOUS
    <3>2. /\ DOMAIN event_queues' = DOMAIN event_queues \ S
          /\ \A j \in DOMAIN event_queues' : event_queues'[j] = event_queues[j]
          /\ \A s \in Subs : Undisturbed(s) => IdOf(s) \notin S
          /\ delayDelete => ids' = ids
      BY <2>1, <3>1
    <3> QED BY <1>4, <3>2
  <2>3. OutOfPlay(i) /\ \A s \in Subs : Undisturbed(s) => IdOf(s) # i
    BY <1>5, <2>1 DEF Harmless
  <2>4. Recycled'
    BY <1>1, <2>1, <2>2, <2>3 DEF DeliverInv, Ids, Recycled, OutOfPlay, clientVars
  <2>5. Mailbox'
    BY <1>1, <2>1, <2>2, HeadHarmless, TakenHarmless DEF OutOfPlay
  <2> QED BY <2>2, <2>4, <2>5 DEF Ids
<1>8. CASE HandleCleanup
  <2>1. event_queues' = Without(recycle) /\ recycle' = {} /\ UNCHANGED ids
    BY <1>8 DEF HandleCleanup
  <2>2. \A s \in Subs : Undisturbed(s) => IdOf(s) \notin recycle
    BY DEF DeliverInv, Ids, Recycled
  <2>3. /\ Streams' /\ NeverAgain'
        /\ \A s \in Subs : Undisturbed(s)' => Undisturbed(s) /\ IdOf(s)' = IdOf(s)
    BY <1>4, <2>1, <2>2 DEF Without
  <2>4. Recycled'
    BY <2>1 DEF Recycled
  <2>5. Mailbox'
    BY <1>1, <2>1, <2>3, HeadHarmless, TakenHarmless DEF OutOfPlay
  <2> QED BY <2>3, <2>4, <2>5 DEF Ids
<1> QED BY <1>6, <1>7, <1>8

\* An event is appended to every queue, and to the log.
LEMMA PushDelivers ==
  ASSUME DeliverInv, HandlePush
  PROVE  Streams' /\ Ids' /\ Mailbox'
<1> DEFINE e == Head(receiver).arg
<1>1. TypeInv /\ receiver # <<>> /\ receiver' = Tail(receiver) /\ Head(receiver).op = "PushEvent"
      /\ UNCHANGED <<delayDelete, clientVars, ids, recycle, reply, start>>
      /\ event_queues' = [i \in DOMAIN event_queues |-> Append(event_queues[i], e)]
      /\ log' = Append(log, e)
  BY DEF DeliverInv, HandlePush, Receive
<1>2. e \in Events
  BY <1>1, HeadTypes, MessageKinds
<1> HIDE DEF e
<1>3. \A s \in Subs : IdOf(s)' = IdOf(s) /\ InFlight(s)' = InFlight(s)
  BY <1>1 DEF IdOf, InFlight, clientVars
<1>4. \A s \in Subs : Undisturbed(s)' => Undisturbed(s) /\ IdOf(s)' = IdOf(s)
  BY <1>1, <1>3 DEF Undisturbed, clientVars
<1>5. log \in Seq(Events) /\ Len(log') = Len(log) + 1 /\ start \in [Subs -> Nat] /\ Len(log) \in Nat
  <2>1. log \in Seq(Events) /\ start \in [Subs -> Nat]
    BY <1>1 DEF TypeInv, TypeOK
  <2> QED BY <1>1, <1>2, <2>1, AppendProperties, LenProperties
<1>6. Owns' /\ Apart'
  BY <1>1, <1>4 DEF DeliverInv, Streams, Owns, Apart
<1>7. Begun'
  BY <1>1, <1>5 DEF DeliverInv, Streams, Begun
<1>8. Complete'
  <2> SUFFICES ASSUME NEW s \in Subs, Undisturbed(s)', s \notin gaveUp
               PROVE  got[s] \o InFlight(s)' \o event_queues'[IdOf(s)'] = SubSeq(log', start[s] + 1, Len(log'))
    BY <1>1 DEF Complete, clientVars
  <2> DEFINE q == event_queues[IdOf(s)]
             x == got[s] \o InFlight(s)
  <2>1. Undisturbed(s) /\ IdOf(s) \in DOMAIN event_queues
    BY <1>4 DEF DeliverInv, Streams, Owns
  <2>2. x \o q = SubSeq(log, start[s] + 1, Len(log))
    BY <2>1 DEF DeliverInv, Streams, Complete
  <2>3. q \in Seq(Events)
    BY <1>1, <2>1 DEF TypeInv, TypeOK
  <2>4. x \in Seq(Events)
    <3>1. got[s] \in Seq(Events) /\ InFlight(s) \in Seq(Events)
      BY <1>1, IdOfTypes DEF TypeInv, TypeOK
    <3> QED BY <3>1, ConcatProperties
  <2>5. event_queues'[IdOf(s)] = Append(q, e)
    BY <1>1, <2>1
  <2>6. SubSeq(log', start[s] + 1, Len(log')) = Append(SubSeq(log, start[s] + 1, Len(log)), e)
    <3>1. start[s] \in Nat /\ start[s] <= Len(log)
      BY <1>5 DEF DeliverInv, Streams, Begun
    <3> QED BY <1>1, <1>2, <1>5, <3>1, GrownLog
  <2>7. got[s] \o InFlight(s)' = x
    BY <1>3
  <2> HIDE DEF q, x
  <2>8. x \o Append(q, e) = Append(x \o q, e)
    BY <1>2, <2>3, <2>4, GrownStream
  <2> QED BY <1>3, <2>2, <2>5, <2>6, <2>7, <2>8
<1>9. Recycled' /\ NeverAgain'
  BY <1>1, <1>3, <1>4 DEF DeliverInv, Ids, Recycled, OutOfPlay, NeverAgain, clientVars
<1>10. Mailbox'
  BY <1>1, <1>4, HeadHarmless, TakenHarmless DEF OutOfPlay
<1> QED BY <1>6, <1>7, <1>8, <1>9, <1>10 DEF Streams, Ids

\* A free id goes to whoever waits for it, with an empty queue, and no message on its
\* way names it, unless somebody guessed it.  If the subscriber gave up its call, nobody has that id.
LEMMA SubscribeDelivers ==
  ASSUME DeliverInv, HandleSubscribe
  PROVE  Streams' /\ Ids' /\ Mailbox'
<1>1. PICK i \in ids : /\ event_queues' = WithQueue(i, <<>>)
                       /\ ids' = ids \ {i}
                       /\ Respond(Answer(i, <<>>))
  BY DEF HandleSubscribe
<1>2. TypeInv /\ receiver # <<>> /\ receiver' = Tail(receiver) /\ Head(receiver).op = "Subscribe"
      /\ UNCHANGED <<delayDelete, clientVars, recycle, log>>
      /\ start' = [s \in Subs |-> IF s = Head(receiver).reply THEN Len(log) ELSE start[s]]
  BY DEF DeliverInv, HandleSubscribe, Receive
<1>3. i \in SubIds /\ i # NULL_SUBID /\ i \notin DOMAIN event_queues
  BY DEF DeliverInv, IdsInv, IdsApart, SubIds, NULL_SUBID
<1>4. /\ DOMAIN event_queues' = DOMAIN event_queues \cup {i}
      /\ event_queues'[i] = <<>>
      /\ \A j \in DOMAIN event_queues : event_queues'[j] = event_queues[j]
  <2>1. <<>> \in Seq(Events)
    OBVIOUS
  <2> QED BY <1>1, <1>2, <1>3, <2>1, QueueTypes
<1>5. Answer(i, <<>>).id = i /\ Answer(i, <<>>).events = <<>>
  BY DEF Answer
<1>6. ASSUME NEW s \in Subs, Head(receiver).reply = s
      PROVE  /\ IdOf(s)' = i /\ InFlight(s)' = <<>> /\ got[s] = <<>> /\ start'[s] = Len(log)
  <2>1. reply'[s] # <<>> /\ Head(reply'[s]) = Answer(i, <<>>)
    BY <1>1, <1>2, <1>6, Responded
  <2>2. call[s] = "Subscribe"
    BY <1>2, <1>6, HeadTypes
  <2> QED BY <1>2, <1>5, <1>6, <2>1, <2>2, NoHolderId DEF IdOf, InFlight
<1>7. ASSUME NEW s \in Subs, Head(receiver).reply # s
      PROVE  /\ IdOf(s)' = IdOf(s) /\ InFlight(s)' = InFlight(s) /\ start'[s] = start[s]
             /\ Undisturbed(s)' = Undisturbed(s)
  <2>1. reply'[s] = reply[s] /\ UNCHANGED <<id, told, guessed>>
    BY <1>1, <1>2, <1>7, Responded DEF clientVars
  <2> QED BY <1>2, <1>7, <2>1 DEF IdOf, InFlight, Undisturbed
<1>8. \A s \in Subs : Undisturbed(s) => IdOf(s) # i
  BY <1>3 DEF DeliverInv, Streams, Owns
<1>9. Owns'
  BY <1>4, <1>6, <1>7 DEF DeliverInv, Streams, Owns
<1>10. Apart'
  BY <1>6, <1>7, <1>8 DEF DeliverInv, Streams, Apart
<1>11. Begun'
  <2>1. Len(log) \in Nat
    BY <1>2 DEF TypeInv, TypeOK
  <2> QED BY <1>2, <1>6, <1>7, <2>1 DEF DeliverInv, Streams, Begun
<1>12. Complete'
  <2> SUFFICES ASSUME NEW s \in Subs, Undisturbed(s)', s \notin gaveUp
               PROVE  got[s] \o InFlight(s)' \o event_queues'[IdOf(s)'] = SubSeq(log, start'[s] + 1, Len(log))
    BY <1>2 DEF Complete, clientVars
  <2>1. CASE Head(receiver).reply = s
    <3>1. Len(log) \in Nat
      BY <1>2 DEF TypeInv, TypeOK
    <3>2. SubSeq(log, Len(log) + 1, Len(log)) = <<>>
      BY <3>1, SubSeqEmpty
    <3>3. <<>> \o <<>> \o <<>> = <<>>
      BY ConcatEmptySeq
    <3> QED BY <1>4, <1>6, <2>1, <3>2, <3>3
  <2>2. CASE Head(receiver).reply # s
    <3>1. Undisturbed(s) /\ IdOf(s) \in DOMAIN event_queues
      BY <1>7, <2>2 DEF DeliverInv, Streams, Owns
    <3>2. got[s] \o InFlight(s) \o event_queues[IdOf(s)] = SubSeq(log, start[s] + 1, Len(log))
      BY <3>1 DEF DeliverInv, Streams, Complete
    <3> QED BY <1>4, <1>7, <2>2, <3>1, <3>2
  <2> QED BY <2>1, <2>2
<1>13. \A s \in Subs : Undisturbed(s)' =>
         (Undisturbed(s) /\ IdOf(s)' = IdOf(s)) \/ (IdOf(s)' = i /\ ~OutOfPlay(i))
  BY <1>2, <1>6, <1>7 DEF Undisturbed, OutOfPlay, clientVars
<1>14. Recycled'
  BY <1>1, <1>2, <1>13 DEF DeliverInv, Ids, Recycled, OutOfPlay, clientVars
<1>15. NeverAgain'
  <2> SUFFICES ASSUME delayDelete
               PROVE  \A s \in Subs : IdOf(s)' # NULL_SUBID =>
                        /\ IdOf(s)' \notin ids'
                        /\ \A o \in Subs : IdOf(o)' = IdOf(s)' => o = s
    BY <1>2 DEF NeverAgain
  <2>1. \A s \in Subs : IdOf(s) # NULL_SUBID =>
          /\ IdOf(s) \notin ids
          /\ \A o \in Subs : IdOf(o) = IdOf(s) => o = s
    BY DEF DeliverInv, Ids, NeverAgain
  <2>2. \A s \in Subs : IdOf(s) # i
    BY <1>3, <2>1
  <2> QED BY <1>1, <1>6, <1>7, <2>1, <2>2
<1>16. Mailbox'
  <2>1. \A k \in DOMAIN receiver \ {1} :
          receiver[k].op \in {"Unsubscribe"} \cup Polls =>
            receiver[k].arg \notin ids' \/ receiver[k].arg \in guessed
    BY <1>1, <1>2, HeadHarmless DEF OutOfPlay
  <2> QED BY <1>2, <1>13, <2>1, TakenHarmless
<1> QED BY <1>9, <1>10, <1>11, <1>12, <1>14, <1>15, <1>16 DEF Streams, Ids

-----------------------------------------------------------------------------

LEMMA InitDelivers == Init => DeliverInv
<1> SUFFICES ASSUME Init PROVE DeliverInv
  OBVIOUS
<1>1. TypeInv /\ IdsInv
  BY InitTypes, InitIds
<1>2. receiver = <<>> /\ recycle = {} /\ told = {} /\ guessed = {} /\ handles = [s \in Subs |-> 0] /\ DOMAIN <<>> = {}
  BY DEF Init
<1>3. \A s \in Subs : IdOf(s) = NULL_SUBID
  BY DEF Init, IdOf
<1>4. Owns /\ Apart /\ Complete
  BY <1>3 DEF Owns, Apart, Complete, Undisturbed
<1>5. Begun
  <2>1. start = [s \in Subs |-> 0] /\ log = <<>> /\ 0 <= Len(<<>>)
    BY DEF Init
  <2> QED BY <2>1 DEF Begun
<1>6. Mailbox
  BY <1>2 DEF Mailbox, ToldOnce, AllHarmless, LastWord
<1>7. Recycled /\ NeverAgain
  BY <1>2, <1>3 DEF Recycled, NeverAgain
<1> QED BY <1>1, <1>2, <1>4, <1>5, <1>6, <1>7 DEF DeliverInv, Newcomers, Streams, Ids

LEMMA BuildKept == [Next]_vars => delayDelete' = delayDelete
<1> SUFFICES ASSUME [Next]_vars PROVE delayDelete' = delayDelete
  OBVIOUS
<1>1. CASE Bus
  BY <1>1 DEF Bus, HandleSubscribe, HandleSubscribeExhausted, HandleUnsubscribe, HandlePush,
              HandleUnsubscribeLater, HandleCleanup, HandlePoll, HandleBatchPoll, Hand,
              HandleStrayPoll
<1>2. ASSUME NEW s \in Subs, Resume(s) PROVE delayDelete' = delayDelete
  BY <1>2 DEF Resume, Subscribed, Polled, MatchPoll, CallPoll
<1>3. ASSUME NEW s \in Subs, Client(s) PROVE delayDelete' = delayDelete
  BY <1>3 DEF Client, Subscribe, FreePoll, CallPoll, Abandon, BeginMatch, Unsubscribe, Clone, Drop
<1>4. CASE ~Bus /\ ~(\E s \in Subs : Resume(s) \/ Client(s))
  BY <1>4 DEF Next, Publish, RequestCleanup, vars
<1> QED BY <1>1, <1>2, <1>3, <1>4

\* The bus is told nothing of a subscriber whose id the bus has not chosen yet.
LEMMA NewcomersKept ==
  ASSUME TypeInv, Newcomers, delayDelete \/ Reckless = FALSE, [Next]_vars
  PROVE  Newcomers'
<1>t. /\ call \in [Subs -> Calls] /\ reply \in [Subs -> Seq(Answers)]
      /\ id \in [Subs -> SubIds \cup {NULL_SUBID}]
  BY DEF TypeInv, TypeOK
<1>b. delayDelete' = delayDelete
  BY BuildKept
\* An id on its way to a newcomer stays, and the newcomer waits for it.
<1>1. ASSUME UNCHANGED <<id, call, told>>, \A s \in Subs : reply[s] # <<>> => reply'[s] = reply[s]
      PROVE  Newcomers'
  <2> SUFFICES ASSUME NEW s \in Subs, call[s] \in {"none", "Subscribe"}, s \in told
               PROVE  delayDelete /\ IdOf(s)' # NULL_SUBID
    BY <1>1, <1>b DEF Newcomers
  <2>1. delayDelete /\ IdOf(s) # NULL_SUBID
    BY DEF Newcomers
  <2>2. id[s] = NULL_SUBID
    BY NoHolderId
  <2>3. reply[s] # <<>> /\ reply'[s] = reply[s]
    BY <1>1, <2>1, <2>2 DEF IdOf
  <2> QED BY <1>1, <2>1, <2>3 DEF IdOf
<1>2. CASE Bus
  <2>1. UNCHANGED <<id, call, told>>
    BY <1>2 DEF Bus, HandleSubscribe, HandleSubscribeExhausted, HandleUnsubscribe, HandlePush,
                HandleUnsubscribeLater, HandleCleanup, HandlePoll, HandleBatchPoll, Hand,
                HandleStrayPoll, clientVars
  <2>2. receiver # <<>> /\ (UNCHANGED reply \/ \E a : Respond(a))
    BY <1>2 DEF Bus, HandleSubscribe, HandleSubscribeExhausted, HandleUnsubscribe, HandlePush,
                HandleUnsubscribeLater, HandleCleanup, HandlePoll, HandleBatchPoll, Hand,
                HandleStrayPoll, Receive
  <2>3. ASSUME NEW s \in Subs, reply[s] # <<>> PROVE reply'[s] = reply[s]
    <3>1. Head(receiver).reply # s
      BY <2>2, <2>3, HeadTypes
    <3> QED BY <2>2, <3>1, Responded
  <2> QED BY <1>1, <2>1, <2>3
<1>3. ASSUME NEW s \in Subs, UNCHANGED <<id, told>>,
             call'[s] \in {"none", "Subscribe"} => call[s] \in {"none", "Subscribe"},
             call'[s] \in {"none", "Subscribe"} => reply' = reply \/ IdOf(s) = NULL_SUBID,
             \A o \in Subs \ {s} : call'[o] = call[o] /\ reply'[o] = reply[o]
      PROVE  Newcomers'
  <2> SUFFICES ASSUME NEW o \in Subs, call'[o] \in {"none", "Subscribe"}, o \in told
               PROVE  delayDelete /\ IdOf(o)' # NULL_SUBID
    BY <1>3, <1>b DEF Newcomers
  <2>1. CASE o = s
    <3>1. call[s] \in {"none", "Subscribe"} /\ s \in told
      BY <1>3, <2>1
    <3>2. delayDelete /\ IdOf(s) # NULL_SUBID
      BY <3>1 DEF Newcomers
    <3>3. UNCHANGED <<id, reply>>
      BY <1>3, <2>1, <3>2
    <3> QED BY <2>1, <3>2, <3>3 DEF IdOf
  <2>2. CASE o # s
    BY <1>3, <2>2 DEF Newcomers, IdOf
  <2> QED BY <2>1, <2>2
<1>4. ASSUME NEW s \in Subs, NEW op \in Polls, CallPoll(s, op) PROVE Newcomers'
  <2>1. op \notin {"none", "Subscribe"}
    BY DEF Polls
  <2> QED BY <1>3, <1>4, <1>t, <2>1 DEF CallPoll
<1>5. ASSUME NEW s \in Subs, Resume(s) \/ Client(s) PROVE Newcomers'
  <2>1. CASE Subscribed(s)
    <3>1. \A o \in Subs \ {s} : call'[o] = call[o] /\ reply'[o] = reply[o] /\ id'[o] = id[o]
      BY <1>t, <2>1 DEF Subscribed
    <3>2. call'[s] \in {"none", "Subscribe"} => IdOf(s) = NULL_SUBID /\ call[s] = "Subscribe"
      BY <1>t, <2>1 DEF Subscribed, IdOf
    <3>3. told' = told
      BY <2>1 DEF Subscribed
    <3> QED BY <1>b, <3>1, <3>2, <3>3 DEF Newcomers, IdOf
  <2>2. CASE Polled(s) \/ Abandon(s)
    BY <1>3, <1>t, <2>2 DEF Polled, Abandon, Polls
  <2>3. CASE MatchPoll(s) \/ FreePoll(s)
    <3>1. matcher[s] \in {"none"} \cup Polls
      BY DEF TypeInv, TypeOK
    <3> QED BY <1>4, <2>3, <3>1 DEF MatchPoll, FreePoll
  <2>4. CASE Subscribe(s)
    BY <1>3, <1>t, <2>4 DEF Subscribe
  <2>5. CASE Clone(s) \/ \E op \in Polls : BeginMatch(s, op)
    BY <1>1, <2>5 DEF Clone, BeginMatch
  <2>6. CASE Drop(s)
    <3>1. Borrowed(s) \in 0 .. 1 /\ handles[s] \in 0 .. 2
      BY DEF Borrowed, TypeInv, TypeOK
    <3>2. call[s] \notin {"none", "Subscribe"}
      BY <2>6, <3>1 DEF Drop, TypeInv, Holders
    <3> QED BY <1>b, <2>6, <3>2 DEF Drop, Newcomers, IdOf
  <2>7. ASSUME NEW i \in Named, Unsubscribe(s, i) PROVE Newcomers'
    <3>1. delayDelete /\ told' = told \cup Owners(i) /\ UNCHANGED <<id, call, reply>>
      BY <2>7 DEF Unsubscribe, TellsTwice
    <3>2. i # NULL_SUBID
      BY LimitsAssumption DEF SubIds, NULL_SUBID
    <3> QED BY <1>b, <3>1, <3>2 DEF Owners, Newcomers, IdOf
  <2> QED BY <1>5, <2>1, <2>2, <2>3, <2>4, <2>5, <2>6, <2>7 DEF Resume, Client
<1>6. CASE UNCHANGED vars \/ RequestCleanup \/ \E e \in Events : Publish(e)
  BY <1>1, <1>6 DEF RequestCleanup, Publish, vars, clientVars
<1> QED BY <1>2, <1>5, <1>6 DEF Next

LEMMA NextDelivers ==
  ASSUME delayDelete \/ Reckless = FALSE
  PROVE  DeliverInv /\ [Next]_vars => DeliverInv'
<1> SUFFICES ASSUME DeliverInv, [Next]_vars PROVE DeliverInv'
  OBVIOUS
<1>1. TypeInv' /\ IdsInv' /\ Newcomers'
  BY NextTypes, NextIds, NewcomersKept DEF DeliverInv
<1>2. ASSUME NEW i \in DOMAIN event_queues
      PROVE  0 \in 0 .. Len(event_queues[i]) /\ Len(event_queues[i]) \in 0 .. Len(event_queues[i])
             /\ (event_queues[i] # <<>> => 1 \in 0 .. Len(event_queues[i]))
  BY DEF DeliverInv, TypeInv, TypeOK
<1>3. CASE HandlePoll
  <2>1. Receive("Poll") /\ Head(receiver).arg \in DOMAIN event_queues
    BY <1>3 DEF HandlePoll
  <2>2. \E n \in 0 .. Len(event_queues[Head(receiver).arg]) : Hand(Head(receiver).arg, n)
    BY <1>2, <1>3 DEF HandlePoll
  <2>3. Streams' /\ Ids' /\ Mailbox'
    BY <2>1, <2>2, HandDelivers DEF Polls
  <2> QED BY <1>1, <2>3 DEF DeliverInv
<1>4. CASE HandleBatchPoll
  <2>1. Receive("BatchPoll") /\ Head(receiver).arg \in DOMAIN event_queues
    BY <1>4 DEF HandleBatchPoll
  <2>2. \E n \in 0 .. Len(event_queues[Head(receiver).arg]) : Hand(Head(receiver).arg, n)
    BY <1>2, <1>4 DEF HandleBatchPoll
  <2>3. Streams' /\ Ids' /\ Mailbox'
    BY <2>1, <2>2, HandDelivers DEF Polls
  <2> QED BY <1>1, <2>3 DEF DeliverInv
<1>5. CASE Bus
  <2>1. \/ HandlePoll \/ HandleBatchPoll
        \/ Streams' /\ Ids' /\ Mailbox'
    BY <1>5, SubscribeDelivers, EmptyAnswerDelivers, UnsubscribeDelivers, PushDelivers DEF Bus
  <2> QED BY <1>1, <1>3, <1>4, <2>1 DEF DeliverInv
<1>6. ASSUME NEW s \in Subs, Resume(s) \/ Client(s)
      PROVE  DeliverInv'
  <2>1. matcher[s] \in {"none"} \cup Polls
    BY DEF DeliverInv, TypeInv, TypeOK
  <2>2. ASSUME NEW op \in Polls, CallPoll(s, op) PROVE Streams' /\ Ids' /\ Mailbox'
    BY <2>2, SendDelivers
  <2>3. MatchPoll(s) \/ FreePoll(s) => Streams' /\ Ids' /\ Mailbox'
    BY <2>1, <2>2 DEF MatchPoll, FreePoll
  <2>4. Streams' /\ Ids' /\ Mailbox'
    BY <1>6, <2>3, LocalDelivers, AbandonDelivers, SendDelivers DEF Resume, Client
  <2> QED BY <1>1, <2>4 DEF DeliverInv
<1>7. CASE (\E e \in Events : Publish(e)) \/ RequestCleanup
  <2>1. Streams' /\ Ids' /\ Mailbox'
    BY <1>7, SendDelivers
  <2> QED BY <1>1, <2>1 DEF DeliverInv
<1>8. CASE UNCHANGED vars
  <2>1. \A s \in Subs : IdOf(s)' = IdOf(s) /\ InFlight(s)' = InFlight(s)
    BY <1>8 DEF vars, clientVars, IdOf, InFlight
  <2>2. UNCHANGED <<delayDelete, busVars, history, told, guessed, gaveUp, handles, receiver, got>>
    BY <1>8 DEF vars, clientVars
  <2>3. /\ Streams' /\ Ids'
        /\ \A s \in Subs : Undisturbed(s)' => Undisturbed(s) /\ IdOf(s)' = IdOf(s)
    BY <2>1, <2>2, ClientsKeep DEF SameId
  <2>4. Mailbox'
    BY <2>2, <2>3 DEF DeliverInv, Mailbox, ToldOnce, AllHarmless, Harmless, OutOfPlay, LastWord, busVars
  <2> QED BY <1>1, <2>3, <2>4 DEF DeliverInv
<1> QED BY <1>5, <1>6, <1>7, <1>8 DEF Next

\* The build decides whether clients must tell the bus once.
LEMMA Delivers == Spec => [](delayDelete \/ Reckless = FALSE => DeliverInv)
<1> DEFINE Inv == delayDelete \/ Reckless = FALSE => DeliverInv
<1>1. Init => Inv
  BY InitDelivers
<1>2. Inv /\ [Next]_vars => Inv'
  BY NextDelivers, BuildKept
<1> HIDE DEF Inv
<1>3. Spec => []Inv
  BY <1>1, <1>2, PTL DEF Spec
<1> QED BY <1>3 DEF Inv

\* Each subscriber whose subscription the bus was told nothing about gets every
\* event the bus took since it subscribed, once and in order, whatever others
\* subscribe, drop, clone or give up (EventBus::run and its handlers), unless it
\* gave up a poll itself: with delay-delete whatever ids clients pass to
\* unsubscribe, their own or not, and where ids are given out again at once for
\* clients that drop their one handle and call no unsubscribe besides.
THEOREM EveryEventOnce ==
  ASSUME FALSE \in Builds => Reckless = FALSE
  PROVE  Spec => []Delivered
<1> DEFINE Inv == delayDelete \/ Reckless = FALSE => DeliverInv
<1>1. DeliverInv => Delivered
  BY DEF DeliverInv, Streams, Owns, Apart, Complete, Delivered
<1>2. TypeInv => delayDelete \/ Reckless = FALSE
  BY FeatureAssumption DEF TypeInv, TypeOK
<1>3. Spec => []Inv
  BY Delivers
<1>4. TypeInv /\ Inv => Delivered
  BY <1>1, <1>2
<1> HIDE DEF Inv
<1> QED BY <1>3, <1>4, Types, PTL

\* With delay-delete an id is one subscriber's for ever (unsubscribe, cleanup and
\* subscribe of EventBus), whatever clients do: in this build a handle that is
\* dropped, however often, or polled names the queue of nobody else.
THEOREM OneOwnerPerId == Spec => []IdForLife
<1> DEFINE Inv == delayDelete \/ Reckless = FALSE => DeliverInv
<1>1. Inv => IdForLife
  BY DEF DeliverInv, Ids, NeverAgain, IdForLife
<1>2. Spec => []Inv
  BY Delivers
<1> HIDE DEF Inv
<1> QED BY <1>1, <1>2, PTL
===============================================================================
