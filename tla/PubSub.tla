-------------------------------- MODULE PubSub --------------------------------
(***************************************************************************)
(* What the event bus promises its subscribers, without ids, messages,     *)
(* handles or clean-up: whatever is published goes to the end of what is   *)
(* pending for each member, a poll takes from the front of it, and what    *)
(* was taken is received before the next poll.  Only a member itself moves *)
(* in its own stream; only one who gave up a call may lose what that call  *)
(* took.  A member leaves at any time, for the bus lets anyone unsubscribe *)
(* anyone's id; who has left never comes back, and nothing is said of what *)
(* is on its way to it.                                                    *)
(***************************************************************************)
EXTENDS Naturals, Sequences

CONSTANTS Subs, Events

VARIABLES
  members,   (* the subscribers there are                                  *)
  gone,      (* those who left, or gave up to join                         *)
  quit,      (* those who gave up a call                                   *)
  pending,   (* pending[s]: published, and not taken by s                  *)
  hand,      (* hand[s]: taken, and not received by s                      *)
  received   (* received[s]: what s received, oldest first                 *)

vars == <<members, gone, quit, pending, hand, received>>

Init ==
  /\ members = {}
  /\ gone = {}
  /\ quit = {}
  /\ pending = [s \in Subs |-> <<>>]
  /\ hand = [s \in Subs |-> <<>>]
  /\ received = [s \in Subs |-> <<>>]

Join(s) ==
  /\ s \notin members \cup gone
  /\ members' = members \cup {s}
  /\ UNCHANGED <<gone, quit, pending, hand, received>>

Publish(e) ==
  /\ pending' = [s \in Subs |-> IF s \in members THEN Append(pending[s], e) ELSE pending[s]]
  /\ UNCHANGED <<members, gone, quit, hand, received>>

Rest(s, n) == pending' = [pending EXCEPT ![s] = SubSeq(@, n + 1, Len(@))]

\* The answer of a poll: the first n of what is pending, none if there is none.
Take(s, n) ==
  /\ hand[s] = <<>>
  /\ Rest(s, n)
  /\ hand' = [hand EXCEPT ![s] = SubSeq(pending[s], 1, n)]
  /\ UNCHANGED <<members, gone, quit, received>>

Receive(s) ==
  /\ received' = [received EXCEPT ![s] = @ \o hand[s]]
  /\ hand' = [hand EXCEPT ![s] = <<>>]
  /\ UNCHANGED <<members, gone, quit, pending>>

\* A call is given up, and what it took is lost.
GiveUp(s) ==
  /\ quit' = quit \cup {s}
  /\ hand' = [hand EXCEPT ![s] = <<>>]
  /\ UNCHANGED <<members, gone, pending, received>>

\* The call that was given up takes something all the same.
Lose(s, n) ==
  /\ s \in quit
  /\ Rest(s, n)
  /\ UNCHANGED <<members, gone, quit, hand, received>>

Leave(s) ==
  /\ s \notin gone
  /\ gone' = gone \cup {s}
  /\ members' = members \ {s}
  /\ quit' \in {quit, quit \cup {s}}
  /\ pending' = [pending EXCEPT ![s] = <<>>]
  /\ hand' = [hand EXCEPT ![s] = <<>>]
  /\ received' = [received EXCEPT ![s] = <<>>]

Next ==
  \/ \E s \in Subs : Receive(s) \/ GiveUp(s) \/ Join(s) \/ Leave(s)
  \/ \E s \in Subs : \E n \in 0 .. Len(pending[s]) : Take(s, n) \/ Lose(s, n)
  \/ \E e \in Events : Publish(e)

Spec == Init /\ [][Next]_vars
===============================================================================
