------------------------------ MODULE Mailbox ------------------------------
(***************************************************************************)
(* What a Channel promises its users, with the mutex, the condition        *)
(* variables and the sequence numbers left out: a first-in first-out       *)
(* mailbox of bounded size in which every send call ends accepted or       *)
(* refused.  An accepted value is in the mailbox or has been delivered, a  *)
(* refused one never is.  With no capacity of its own the mailbox is a     *)
(* handoff: a blocking send offers its value, and is accepted only after   *)
(* the delivery.                                                           *)
(***************************************************************************)
EXTENDS Integers, Sequences

CONSTANTS Capacity, MaxItems

VARIABLES
  mailbox,    \* values accepted or offered and not delivered, oldest first
  closed,
  fate,       \* of each send call
  delivered   \* values delivered, in order

mvars == <<mailbox, closed, fate, delivered>>

Calls == 1..MaxItems
Size == IF Capacity = 0 THEN 1 ELSE Capacity

Init ==
  /\ mailbox = << >>
  /\ closed = FALSE
  /\ fate = [i \in Calls |-> "fresh"]
  /\ delivered = << >>

Delivered(i) == \E n \in 1..Len(delivered) : delivered[n] = i

\* A value enters an open mailbox that has room.
Enter(i, outcome) ==
  /\ ~closed /\ Len(mailbox) < Size /\ fate[i] = "fresh"
  /\ mailbox' = Append(mailbox, i)
  /\ fate' = [fate EXCEPT ![i] = outcome]
  /\ UNCHANGED <<closed, delivered>>

Accept(i) == Enter(i, "accepted")

Offer(i) == Capacity = 0 /\ Enter(i, "offered")

\* The sender of an offer learns that its value was delivered ...
Confirm(i) ==
  /\ fate[i] = "offered" /\ Delivered(i)
  /\ fate' = [fate EXCEPT ![i] = "accepted"]
  /\ UNCHANGED <<mailbox, closed, delivered>>

\* ... or takes the undelivered value back.
Withdraw(i) ==
  /\ fate[i] = "offered" /\ mailbox = <<i>>
  /\ mailbox' = << >>
  /\ fate' = [fate EXCEPT ![i] = "refused"]
  /\ UNCHANGED <<closed, delivered>>

Refuse(i) ==
  /\ fate[i] = "fresh"
  /\ fate' = [fate EXCEPT ![i] = "refused"]
  /\ UNCHANGED <<mailbox, closed, delivered>>

Deliver ==
  /\ mailbox # << >>
  /\ delivered' = Append(delivered, Head(mailbox))
  /\ mailbox' = Tail(mailbox)
  /\ UNCHANGED <<closed, fate>>

Shut ==
  /\ closed' = TRUE
  /\ UNCHANGED <<mailbox, fate, delivered>>

Next ==
  \/ \E i \in Calls : Accept(i) \/ Offer(i) \/ Confirm(i) \/ Withdraw(i) \/ Refuse(i)
  \/ Deliver
  \/ Shut

Spec == Init /\ [][Next]_mvars

=============================================================================
