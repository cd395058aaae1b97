------------------------------- MODULE EventFeed -------------------------------
(***************************************************************************)
(* What the callbacks of src/callback.rs promise for one topic: the        *)
(* application hears what was reported in the order in which it was        *)
(* reported, nothing twice and nothing that was not; some of it may be     *)
(* lost, because every queue on the way is bounded and drops.              *)
(***************************************************************************)
EXTENDS Naturals, Sequences

VARIABLES
  pending,  \* reported and not heard yet, oldest first
  heard     \* the last value heard

feed == <<pending, heard>>

Init == pending = <<>> /\ heard = "nothing"

Without(s, i) == SubSeq(s, 1, i - 1) \o SubSeq(s, i + 1, Len(s))

\* A value is reported; what was reported before stays before it.
Say ==
  /\ Len(pending') = Len(pending) + 1
  /\ SubSeq(pending', 1, Len(pending)) = pending
  /\ UNCHANGED heard

Lose ==
  /\ \E i \in DOMAIN pending : pending' = Without(pending, i)
  /\ UNCHANGED heard

Hear ==
  /\ pending # <<>>
  /\ heard' = Head(pending)
  /\ pending' = Tail(pending)

Next == Say \/ Lose \/ Hear

Spec == Init /\ [][Next]_feed
=============================================================================
