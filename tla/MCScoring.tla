------------------------------ MODULE MCScoring ------------------------------
(* Instances of Scoring for TLC. *)
EXTENDS Scoring, TLC

CONSTANTS btc, card   \* a market entity and a payments entity

W(z, count) == [z |-> z, count |-> count]

(* 1.5 sigma up, 2.5 sigma down, and far out; the other entity is quiet or ten
   sigma out. *)
Windows   == btc :> {W(3, 1), W(-5, 2), W(Far, 1)} @@ card :> {W(0, 1), W(20, 4)}
Trainings == [market |-> 0, payments |-> 1]
Lengths   == btc :> 5 @@ card :> 1
=============================================================================
