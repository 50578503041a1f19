--------------------------- MODULE MCNotification ---------------------------
(* Instances of Notification for TLC. *)
EXTENDS Notification, TLC

CONSTANTS ann, bob, eve

Comment(from, ats) == [kind |-> "comment", to |-> ann, from |-> from, ats |-> ats]
Like(from) == [kind |-> "like", to |-> ann, from |-> from, ats |-> {}]

\* News for ann and bob, with ann among the mentioned; for ann; and for nobody.
Mixed == {Comment(eve, {ann, bob}), Like(bob), Comment(ann, {bob})}
Symmetry == Permutations(Requests)
============================================================================
