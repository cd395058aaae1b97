------------------------------- MODULE BallotBox -------------------------------
(***************************************************************************)
(* What the election of src/leader.rs promises, without messages, roles    *)
(* and tasks: nodes give votes in terms that only go up, one vote in each; *)
(* no vote is taken back; and who wins a term counts its own vote and as   *)
(* many more as it needs, all of them given to it in that term.            *)
(***************************************************************************)
EXTENDS Naturals, FiniteSets

CONSTANT Node

VARIABLES
  votes,  \* <<voter, term, candidate>> of every vote given
  wins    \* every election won: its term, winner, voters, and the nodes counted

box == <<votes, wins>>

Vote == Node \X Nat \X Node
Victory == [term : Nat, leader : Node, voters : SUBSET Node, total : Nat]

Init == votes = {} /\ wins = {}

\* The voter has given no vote in this term or a later one.
Unspent(b) == \A c \in votes : c[1] = b[1] => c[2] < b[2]

Give(b) == b \in Vote /\ Unspent(b) /\ votes' = votes \cup {b}

\* A majority of the nodes counted; of two or fewer the winner itself is enough.
Enough(w) ==
  w.leader \in w.voters /\ (w.total > 2 => 2 * Cardinality(w.voters) > w.total)

\* The votes are in the box by now; the winner's own may be the last.
Win(w) ==
  /\ w \in Victory /\ Enough(w)
  /\ \A v \in w.voters : <<v, w.term, w.leader>> \in votes'
  /\ wins' = wins \cup {w}

Next ==
  \/ \E b \in votes' : Give(b) /\ UNCHANGED wins
  \/ \E w \in wins' : /\ Win(w)
                      /\ UNCHANGED votes \/ Give(<<w.leader, w.term, w.leader>>)

Spec == Init /\ [][Next]_box
=============================================================================
