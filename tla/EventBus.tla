------------------------------- MODULE EventBus -------------------------------
(***************************************************************************)
(* The event bus of imputio-utils (imputio-utils/src/event_bus.rs): an     *)
(* actor that owns a queue of events per subscription and takes messages   *)
(* from one unbounded channel; subscribers, whose handles can be cloned    *)
(* and unsubscribe when they are dropped; publishers; and the matchers,    *)
(* which poll a handle until they see an event they look for.              *)
(*                                                                         *)
(* The feature delay-delete is fixed by the build, so delayDelete never    *)
(* changes: both builds are behaviours of one specification.               *)
(***************************************************************************)
EXTENDS Integers, Sequences

CONSTANTS
  Subs,        (* subscribers: the uses of one get_subscriber or subscribe  *)
  Events,      (* the events, each published by one call                    *)
  Matching,    (* the events a matcher looks for                            *)
  MaxId,       (* the ids are 1 .. MaxId; u16::MAX - 1 in the code          *)
  Nobody,      (* no receiver waits for the reply; no argument              *)
  Builds,      (* the values of the feature delay-delete                    *)
  Reckless,    (* may clients clone handles, and call unsubscribe besides   *)
               (* dropping them, where ids are given out again at once?     *)
  GiveUps,     (* bound: the subscribers that may give up a call, once each *)
  Cloners,     (* bound: the subscribers that may clone their handle, once, *)
               (* before the bus is told of it                              *)
  Named,       (* bound: the ids passed to unsubscribe                      *)
  MaxCleanups, (* bound: undelivered messages of the clean-up task          *)
  MaxMail      (* bound: undelivered messages                               *)

NULL_SUBID == 0
SubIds     == 1 .. MaxId

ASSUME IdAssumption == MaxId \in Nat \ {0}
ASSUME NobodyAssumption == Nobody \notin Subs \cup Events
ASSUME MatchingAssumption == Matching \subseteq Events
ASSUME FeatureAssumption == Builds \subseteq BOOLEAN /\ Reckless \in BOOLEAN
ASSUME LimitsAssumption ==
  GiveUps \subseteq Subs /\ Cloners \subseteq Subs /\ Named \subseteq SubIds
  /\ MaxCleanups \in Nat \ {0} /\ MaxMail \in Nat \ {0}

VARIABLES
  delayDelete,   (* is the feature on in this build?                        *)
  receiver,      (* the channel of the bus: messages sent and not received  *)
  event_queues,  (* a queue for each id in use                              *)
  ids,           (* the ids that can be given out                           *)
  recycle,       (* the ids cleanup will remove                             *)
  handles,       (* handles[s]: SubHandle objects of s that exist           *)
  id,            (* id[s]: the id in these handles                          *)
  call,          (* call[s]: the call s waits for                           *)
  reply,         (* reply[s]: the bounded(1) reply channel of that call     *)
  matcher,       (* matcher[s]: the matcher s runs, or "none"               *)
  published,     (* published[e]: "new", "sent", or "ok" once replied       *)
  got,           (* got[s]: the events s has received, oldest first         *)
  told,          (* history: subscribers an Unsubscribe was sent for        *)
  guessed,       (* history: ids passed to unsubscribe when nobody had them *)
  gaveUp,        (* history: subscribers that gave up a call                *)
  log,           (* history: the events in the order the bus took them      *)
  start          (* history: start[s] is the length of log when s got its id*)

busVars    == <<event_queues, ids, recycle>>
clientVars == <<handles, id, call, matcher, got, told, guessed, gaveUp>>
history    == <<log, start>>
vars == <<delayDelete, receiver, busVars, clientVars, reply, published, history>>

Message(op, arg, to) == [op |-> op, arg |-> arg, reply |-> to]
Answer(i, events)    == [id |-> i, events |-> events]

Polls == {"Poll", "BatchPoll"}

Messages ==
       [op : {"Subscribe"}, arg : {Nobody}, reply : Subs \cup {Nobody}]
  \cup [op : Polls, arg : SubIds, reply : Subs \cup {Nobody}]
  \cup [op : {"Unsubscribe"}, arg : SubIds, reply : {Nobody}]
  \cup [op : {"PushEvent"}, arg : Events, reply : {Nobody}]
  \cup [op : {"CleanUpBgTask"}, arg : {Nobody}, reply : {Nobody}]

\* "left": s gave up its subscribe call, and has no handle.
Calls == {"none", "Subscribe", "idle", "left"} \cup Polls

TypeOK ==
  /\ delayDelete \in Builds
  /\ receiver \in Seq(Messages)
  /\ DOMAIN event_queues \subseteq SubIds
  /\ \A i \in DOMAIN event_queues : event_queues[i] \in Seq(Events)
  /\ ids \subseteq SubIds
  /\ recycle \subseteq SubIds
  /\ handles \in [Subs -> 0 .. 2]
  /\ id \in [Subs -> SubIds \cup {NULL_SUBID}]
  /\ call \in [Subs -> Calls]
  /\ \A s \in Subs : reply[s] \in Seq([id : SubIds \cup {NULL_SUBID}, events : Seq(Events)])
  /\ \A s \in Subs : Len(reply[s]) <= 1
  /\ matcher \in [Subs -> {"none"} \cup Polls]
  /\ published \in [Events -> {"new", "sent", "ok"}]
  /\ got \in [Subs -> Seq(Events)]
  /\ told \subseteq Subs
  /\ guessed \subseteq SubIds
  /\ gaveUp \subseteq Subs
  /\ log \in Seq(Events)
  /\ start \in [Subs -> Nat]

Init ==
  /\ delayDelete \in Builds
  /\ receiver = <<>>
  /\ event_queues = [i \in {} |-> <<>>]
  /\ ids = SubIds
  /\ recycle = {}
  /\ handles = [s \in Subs |-> 0]
  /\ id = [s \in Subs |-> NULL_SUBID]
  /\ call = [s \in Subs |-> "none"]
  /\ reply = [s \in Subs |-> <<>>]
  /\ matcher = [s \in Subs |-> "none"]
  /\ published = [e \in Events |-> "new"]
  /\ got = [s \in Subs |-> <<>>]
  /\ told = {}
  /\ guessed = {}
  /\ gaveUp = {}
  /\ log = <<>>
  /\ start = [s \in Subs |-> 0]

-----------------------------------------------------------------------------
(* The clients.  A call sends a message and awaits the reply; the future    *)
(* may be dropped before.                                                  *)

Send(m) == Len(receiver) < MaxMail /\ receiver' = Append(receiver, m)

\* EventBusHandle::get_subscriber, or SubHandle::subscribe of another handle.
Subscribe(s) ==
  /\ call[s] = "none"
  /\ call' = [call EXCEPT ![s] = "Subscribe"]
  /\ Send(Message("Subscribe", Nobody, s))
  /\ UNCHANGED <<delayDelete, busVars, handles, id, matcher, got, told, guessed, gaveUp, reply, published, history>>

\* The reply of a subscribe: a handle, or ResourceExhaustion.
Subscribed(s) ==
  /\ call[s] = "Subscribe"
  /\ reply[s] # <<>>
  /\ LET new_id == Head(reply[s]).id IN
       \/ /\ new_id # NULL_SUBID
          /\ id' = [id EXCEPT ![s] = new_id]
          /\ handles' = [handles EXCEPT ![s] = 1]
          /\ call' = [call EXCEPT ![s] = "idle"]
       \/ /\ new_id = NULL_SUBID
          /\ call' = [call EXCEPT ![s] = "none"]
          /\ UNCHANGED <<id, handles>>
  /\ reply' = [reply EXCEPT ![s] = <<>>]
  /\ UNCHANGED <<delayDelete, receiver, busVars, matcher, got, told, guessed, gaveUp, published, history>>

\* SubHandle::poll or SubHandle::batch_poll.
CallPoll(s, op) ==
  /\ handles[s] > 0
  /\ call[s] = "idle"
  /\ call' = [call EXCEPT ![s] = op]
  /\ Send(Message(op, id[s], s))
  /\ UNCHANGED <<delayDelete, busVars, handles, id, matcher, got, told, guessed, gaveUp, reply, published, history>>

\* Mutant: the handler of a batch looks at its last event only.
FoundLast(events) == events # <<>> /\ events[Len(events)] \in Matching

Found(events) == \E i \in DOMAIN events : events[i] \in Matching

\* The reply of a poll; a matcher ends when its handler finds its event.
Polled(s) ==
  /\ call[s] \in Polls
  /\ reply[s] # <<>>
  /\ LET events == Head(reply[s]).events IN
       /\ got' = [got EXCEPT ![s] = @ \o events]
       /\ matcher' = [matcher EXCEPT ![s] = IF Found(events) THEN "none" ELSE @]
  /\ call' = [call EXCEPT ![s] = "idle"]
  /\ reply' = [reply EXCEPT ![s] = <<>>]
  /\ UNCHANGED <<delayDelete, receiver, busVars, handles, id, told, guessed, gaveUp, published, history>>

\* event_poll_matcher or event_batch_poll_matcher, which nobody runs to look for
\* nothing, and the next turn of its loop.
BeginMatch(s, op) ==
  /\ Matching # {}
  /\ handles[s] > 0
  /\ call[s] = "idle"
  /\ matcher[s] = "none"
  /\ matcher' = [matcher EXCEPT ![s] = op]
  /\ UNCHANGED <<delayDelete, receiver, busVars, handles, id, call, got, told, guessed, gaveUp, reply, published, history>>

MatchPoll(s) == matcher[s] # "none" /\ CallPoll(s, matcher[s])

FreePoll(s) == matcher[s] = "none" /\ \E op \in Polls : CallPoll(s, op)

\* The future of the call, with a matcher around it, is dropped, and the receiver
\* of its reply with it.
Abandon(s) ==
  /\ s \in GiveUps \ gaveUp
  /\ gaveUp' = gaveUp \cup {s}
  /\ call[s] \in {"Subscribe"} \cup Polls
  /\ call' = [call EXCEPT ![s] = IF @ = "Subscribe" THEN "left" ELSE "idle"]
  /\ matcher' = [matcher EXCEPT ![s] = "none"]
  /\ receiver' = [k \in DOMAIN receiver |->
                    [receiver[k] EXCEPT !.reply = IF @ = s THEN Nobody ELSE @]]
  /\ reply' = [reply EXCEPT ![s] = <<>>]
  /\ UNCHANGED <<delayDelete, busVars, handles, id, got, told, guessed, published, history>>

\* Where ids are given out again at once, only reckless clients tell the bus of
\* one subscription twice.
TellsTwice == delayDelete \/ Reckless

\* The id the bus gave to s, which may still be on its way to s.
IdOf(s)   == IF reply[s] = <<>> THEN id[s] ELSE Head(reply[s]).id
Owners(i) == {s \in Subs : IdOf(s) = i}

\* SubHandle::unsubscribe takes whatever id the caller passes, its own or not: ids
\* are numbers, and SubHandle::id tells them.  One that is no id of this bus does
\* nothing.
Unsubscribe(s, i) ==
  /\ TellsTwice
  /\ handles[s] > 0
  /\ told' = told \cup Owners(i)
  /\ guessed' = IF Owners(i) = {} THEN guessed \cup {i} ELSE guessed
  /\ Send(Message("Unsubscribe", i, Nobody))
  /\ UNCHANGED <<delayDelete, busVars, handles, id, call, matcher, got, gaveUp, reply, published, history>>

Clone(s) ==
  /\ TellsTwice
  /\ s \in Cloners \ told
  /\ handles[s] = 1
  /\ handles' = [handles EXCEPT ![s] = 2]
  /\ UNCHANGED <<delayDelete, receiver, busVars, id, call, matcher, got, told, guessed, gaveUp, reply, published, history>>

\* A handle that a call or a matcher borrows cannot be dropped.
Borrowed(s) == IF call[s] \in Polls \/ matcher[s] # "none" THEN 1 ELSE 0

\* Mutant: the handle of a subscriber that polls nothing more tells no one.
DropSilently(s) ==
  /\ handles[s] > Borrowed(s)
  /\ handles' = [handles EXCEPT ![s] = @ - 1]
  /\ told' = told \cup {s}
  /\ UNCHANGED <<delayDelete, receiver, busVars, id, call, matcher, got, guessed, gaveUp, reply, published, history>>

Drop(s) ==
  /\ handles[s] > Borrowed(s)
  /\ handles' = [handles EXCEPT ![s] = @ - 1]
  /\ told' = told \cup {s}
  /\ Send(Message("Unsubscribe", id[s], Nobody))
  /\ UNCHANGED <<delayDelete, busVars, id, call, matcher, got, guessed, gaveUp, reply, published, history>>

\* PubHandle::publish_event; whether its future lives to see the reply changes
\* nothing.
Publish(e) ==
  /\ published[e] = "new"
  /\ published' = [published EXCEPT ![e] = "sent"]
  /\ Send(Message("PushEvent", e, Nobody))
  /\ UNCHANGED <<delayDelete, busVars, clientVars, reply, history>>

CleanUpBgTask == Message("CleanUpBgTask", Nobody, Nobody)

\* The thread of cleanup_task.
RequestCleanup ==
  /\ delayDelete
  /\ Len(SelectSeq(receiver, LAMBDA m : m = CleanUpBgTask)) < MaxCleanups
  /\ Send(CleanUpBgTask)
  /\ UNCHANGED <<delayDelete, busVars, clientVars, reply, published, history>>

-----------------------------------------------------------------------------
(* EventBus::run: one message at a time, in the order they were sent.       *)

Receive(op) ==
  /\ receiver # <<>>
  /\ Head(receiver).op = op
  /\ receiver' = Tail(receiver)

\* reply.send(..).ok(): a reply nobody waits for is lost.
Respond(answer) ==
  LET to == Head(receiver).reply IN
  reply' = IF to \in Subs THEN [reply EXCEPT ![to] = Append(@, answer)] ELSE reply

\* The queues with that of i emptied, or made.
WithQueue(i, queue) == [j \in DOMAIN event_queues \cup {i} |->
                          IF j = i THEN queue ELSE event_queues[j]]
Without(S) == [j \in DOMAIN event_queues \ S |-> event_queues[j]]

\* Mutant: when the ids are exhausted, NULL_SUBID is given out.
HandleSubscribeAlways ==
  /\ Receive("Subscribe")
  /\ \E new_id \in IF ids = {} THEN {NULL_SUBID} ELSE ids :
       /\ event_queues' = WithQueue(new_id, <<>>)
       /\ ids' = ids \ {new_id}
       /\ Respond(Answer(new_id, <<>>))
  /\ start' = [s \in Subs |-> IF s = Head(receiver).reply THEN Len(log) ELSE start[s]]
  /\ UNCHANGED <<delayDelete, recycle, clientVars, published, log>>

HandleSubscribe ==
  /\ Receive("Subscribe")
  /\ \E new_id \in ids :
       /\ event_queues' = WithQueue(new_id, <<>>)
       /\ ids' = ids \ {new_id}
       /\ Respond(Answer(new_id, <<>>))
  /\ start' = [s \in Subs |-> IF s = Head(receiver).reply THEN Len(log) ELSE start[s]]
  /\ UNCHANGED <<delayDelete, recycle, clientVars, published, log>>

HandleSubscribeExhausted ==
  /\ Receive("Subscribe")
  /\ ids = {}
  /\ Respond(Answer(NULL_SUBID, <<>>))
  /\ UNCHANGED <<delayDelete, busVars, clientVars, published, history>>

\* Mutant: the id is given back, and its queue stays.
HandleUnsubscribeKeep ==
  /\ ~delayDelete
  /\ Receive("Unsubscribe")
  /\ ids' = ids \cup ({Head(receiver).arg} \cap DOMAIN event_queues)
  /\ UNCHANGED <<delayDelete, event_queues, recycle, clientVars, reply, published, history>>

HandleUnsubscribe ==
  /\ ~delayDelete
  /\ Receive("Unsubscribe")
  /\ event_queues' = Without({Head(receiver).arg})
  /\ ids' = ids \cup ({Head(receiver).arg} \cap DOMAIN event_queues)
  /\ UNCHANGED <<delayDelete, recycle, clientVars, reply, published, history>>

HandleUnsubscribeLater ==
  /\ delayDelete
  /\ Receive("Unsubscribe")
  /\ recycle' = recycle \cup {Head(receiver).arg}
  /\ UNCHANGED <<delayDelete, event_queues, ids, clientVars, reply, published, history>>

\* Mutant: cleanup gives the ids it removes out again.
HandleCleanupReuse ==
  /\ Receive("CleanUpBgTask")
  /\ event_queues' = Without(recycle)
  /\ ids' = ids \cup recycle
  /\ recycle' = {}
  /\ UNCHANGED <<delayDelete, clientVars, reply, published, history>>

HandleCleanup ==
  /\ Receive("CleanUpBgTask")
  /\ event_queues' = Without(recycle)
  /\ recycle' = {}
  /\ UNCHANGED <<delayDelete, ids, clientVars, reply, published, history>>

HandlePush ==
  /\ Receive("PushEvent")
  /\ LET event == Head(receiver).arg IN
       /\ event_queues' = [i \in DOMAIN event_queues |-> Append(event_queues[i], event)]
       /\ published' = [published EXCEPT ![event] = "ok"]
       /\ log' = Append(log, event)
  /\ UNCHANGED <<delayDelete, ids, recycle, clientVars, reply, start>>

\* The bus answers the poll of an id with the first n events of its queue.
Hand(i, n) ==
  /\ event_queues' = WithQueue(i, SubSeq(event_queues[i], n + 1, Len(event_queues[i])))
  /\ Respond(Answer(i, SubSeq(event_queues[i], 1, n)))
  /\ UNCHANGED <<delayDelete, ids, recycle, clientVars, published, history>>

\* Mutant: the bus waits for an event before it answers a poll.
HandlePollWaiting ==
  /\ Receive("Poll")
  /\ LET i == Head(receiver).arg IN
       /\ i \in DOMAIN event_queues
       /\ event_queues[i] # <<>>
       /\ Hand(i, 1)

\* Mutant: an event whose reply nobody waits for goes back into the queue, at its end.
HandlePollPutBack ==
  /\ Receive("Poll")
  /\ LET i     == Head(receiver).arg
         queue == event_queues[i] IN
       /\ i \in DOMAIN event_queues
       /\ IF Head(receiver).reply = Nobody /\ queue # <<>>
          THEN /\ event_queues' = WithQueue(i, Append(Tail(queue), Head(queue)))
               /\ UNCHANGED <<delayDelete, ids, recycle, clientVars, reply, published, history>>
          ELSE Hand(i, IF queue = <<>> THEN 0 ELSE 1)

HandlePoll ==
  /\ Receive("Poll")
  /\ LET i == Head(receiver).arg IN
       /\ i \in DOMAIN event_queues
       /\ Hand(i, IF event_queues[i] = <<>> THEN 0 ELSE 1)

HandleBatchPoll ==
  /\ Receive("BatchPoll")
  /\ LET i == Head(receiver).arg IN
       /\ i \in DOMAIN event_queues
       /\ Hand(i, Len(event_queues[i]))

\* Mutant: the poll of an id that is not in use is put aside until the id is.
HandleStrayPollAside ==
  /\ \E op \in Polls : Receive(op)
  /\ Head(receiver).arg \notin DOMAIN event_queues
  /\ UNCHANGED <<delayDelete, busVars, clientVars, reply, published, history>>

\* A poll of an id that is not in use: no event, and no error either.
HandleStrayPoll ==
  /\ \E op \in Polls : Receive(op)
  /\ Head(receiver).arg \notin DOMAIN event_queues
  /\ Respond(Answer(Head(receiver).arg, <<>>))
  /\ UNCHANGED <<delayDelete, busVars, clientVars, published, history>>

Bus ==
  \/ HandleSubscribe \/ HandleSubscribeExhausted
  \/ HandleUnsubscribe \/ HandleUnsubscribeLater \/ HandleCleanup
  \/ HandlePush
  \/ HandlePoll \/ HandleBatchPoll \/ HandleStrayPoll

\* What a subscriber goes on to do by itself once it has begun.
Resume(s) == Subscribed(s) \/ Polled(s) \/ MatchPoll(s)

Client(s) ==
  \/ Subscribe(s) \/ FreePoll(s) \/ Abandon(s)
  \/ \E op \in Polls : BeginMatch(s, op)
  \/ \E i \in Named : Unsubscribe(s, i)
  \/ Clone(s) \/ Drop(s)

Next ==
  \/ Bus
  \/ \E s \in Subs : Resume(s) \/ Client(s)
  \/ \E e \in Events : Publish(e)
  \/ RequestCleanup

\* The bus has a thread of its own, and so has the clean-up task; an executor
\* polls the futures of the subscribers again and again (Scheduler!Served).
Fairness ==
  /\ WF_vars(Bus)
  /\ \A s \in Subs : WF_vars(Resume(s))
  /\ WF_vars(RequestCleanup)

Spec == Init /\ [][Next]_vars
FairSpec == Spec /\ Fairness

-----------------------------------------------------------------------------
(* Correctness.                                                            *)

\* An id is either free or in use, and where ids are given out again at once,
\* none is lost, whatever order handles are made and dropped in and whoever gives
\* up a call.
IdsApart ==
  /\ ids \cap DOMAIN event_queues = {}
  /\ ~delayDelete => ids \cup DOMAIN event_queues = SubIds

InFlight(s) == IF reply[s] = <<>> THEN <<>> ELSE Head(reply[s]).events

\* A subscription the bus was told nothing about, be it before it began.
Undisturbed(s) == IdOf(s) # NULL_SUBID /\ s \notin told /\ IdOf(s) \notin guessed

\* The events s has received, those in its reply and those in its queue are the
\* events the bus took since s subscribed, each once and in order, until a handle
\* of s is dropped or somebody passes its id to unsubscribe: nothing else that any
\* subscriber does, be it to drop, clone, unsubscribe an id that is not s's, poll
\* after it unsubscribed or give up a call, takes an event or the queue of s.  A
\* poll that s itself gave up takes the events of its reply with it.
Delivered ==
  \A s \in Subs : Undisturbed(s) =>
    /\ IdOf(s) \in DOMAIN event_queues
    /\ \A o \in Subs \ {s} : Undisturbed(o) => IdOf(o) # IdOf(s)
    /\ s \notin gaveUp => got[s] \o InFlight(s) \o event_queues[IdOf(s)]
                          = SubSeq(log, start[s] + 1, Len(log))

\* With delay-delete an id is one subscriber's for ever, so that what a subscriber
\* sends about its own id, twice or after it unsubscribed, reaches the queue of no
\* other.  The price is that the ids run out: cleanup gives none back.
IdForLife ==
  delayDelete => \A s \in Subs : IdOf(s) # NULL_SUBID =>
    /\ IdOf(s) \notin ids
    /\ \A o \in Subs \ {s} : IdOf(o) # IdOf(s)

\* A subscriber that waits has its answer or is owed it by the bus, which still
\* has to take the message of just this call: an answer to a call given up before
\* is never taken for another, and no handler leaves without a reply.
AnswerOwed ==
  \A s \in Subs : call[s] \in {"Subscribe"} \cup Polls =>
    \/ /\ reply[s] # <<>>
       /\ call[s] \in Polls => Head(reply[s]).id = id[s]
    \/ \E k \in DOMAIN receiver :
         /\ receiver[k].op = call[s]
         /\ receiver[k].reply = s
         /\ call[s] \in Polls => receiver[k].arg = id[s]

\* What will take the queue of i away in time: a handle, a reply on its way to a
\* subscriber, a message that asks for it, or the next cleanup.
Claimed(i) ==
  \/ \E s \in Subs : handles[s] > 0 /\ id[s] = i
  \/ \E s \in Subs : call[s] = "Subscribe" /\ reply[s] # <<>> /\ Head(reply[s]).id = i
  \/ \E k \in DOMAIN receiver : receiver[k].op = "Unsubscribe" /\ receiver[k].arg = i
  \/ i \in recycle

\* The bus forgets no queue: each is claimed, except one for each subscriber that
\* gave its subscribe call up, whether the bus had taken the message by then or not.
NoneForgotten ==
  \E leak \in [Subs -> SubIds \cup {NULL_SUBID}] : \A i \in DOMAIN event_queues :
    Claimed(i) \/ \E s \in Subs : call[s] = "left" /\ leak[s] = i

\* A subscriber whose events the bus keeps, and was told nothing else about.
Member(s) == Undisturbed(s) /\ IdOf(s) \in DOMAIN event_queues

\* The bus keeps the promise of PubSub: where Delivered compares the whole stream of
\* a subscriber with the log, and is silent of one that gave up a call, here each
\* step is one of those PubSub has.  Nothing that waits for s moves but by a call of
\* s itself, from the front, and a call given up loses what it took and no more; s
\* leaves when a handle of it is dropped or somebody unsubscribes its id.
Topic == INSTANCE PubSub WITH
  members  <- {s \in Subs : Member(s)},
  gone     <- told \cup {s \in Subs : call[s] = "left"},
  quit     <- gaveUp,
  pending  <- [s \in Subs |-> IF Member(s) THEN event_queues[IdOf(s)] ELSE <<>>],
  hand     <- [s \in Subs |-> IF Member(s) THEN InFlight(s) ELSE <<>>],
  received <- [s \in Subs |-> IF Member(s) THEN got[s] ELSE <<>>]
ImplementsPubSub == Topic!Spec

\* Every call is answered: the bus never waits for a subscriber, nor for an event,
\* and a poll whose queue is gone is answered too.
Answered ==
  \A s \in Subs : call[s] \in {"Subscribe"} \cup Polls ~> call[s] \in {"none", "idle", "left"}

\* A matcher ends once an event it looks for is in the queue it polls or in the
\* reply on its way, unless the bus is told to remove that queue, or a poll that s
\* gave up before takes the event with it.
Sees(s) ==
  /\ Undisturbed(s)
  /\ \/ Found(InFlight(s))
     \/ IdOf(s) \in DOMAIN event_queues /\ Found(event_queues[IdOf(s)])
Matches ==
  \A s \in Subs : matcher[s] # "none" /\ Sees(s) ~> matcher[s] = "none" \/ s \in told \cup gaveUp

\* The queue of a subscriber whose handles are all dropped goes, so that events
\* do not pile up in it, and its id too unless another has it by then.  A
\* subscriber that gave up its subscribe call holds an id nobody gives back.
Reclaimed ==
  \A s \in Subs : call[s] # "none" /\ id[s] # NULL_SUBID /\ handles[s] = 0 ~>
    \/ id[s] \notin DOMAIN event_queues
    \/ \E o \in Subs \ {s} : IdOf(o) = id[s] \/ call[o] = "left"
=============================================================================
