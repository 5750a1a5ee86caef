------------------------------ MODULE LogSink ------------------------------
(***************************************************************************)
(* What the request log promises: the entries it takes are stored in the   *)
(* order it took them, each at most once. An entry may be lost, and only   *)
(* from the front: a later entry never overtakes one that is still kept.   *)
(***************************************************************************)
EXTENDS Sequences

CONSTANT Entry

VARIABLES
    pending,    \* taken, and not yet stored or lost
    stored      \* what a reader of the log finds, in order

Init == pending = <<>> /\ stored = <<>>

Take(e) == pending' = Append(pending, e) /\ UNCHANGED stored

Store ==
    /\ pending # <<>>
    /\ stored' = Append(stored, Head(pending))
    /\ pending' = Tail(pending)

Lose == pending # <<>> /\ pending' = Tail(pending) /\ UNCHANGED stored

Next == (\E e \in Entry : Take(e)) \/ Store \/ Lose

Spec == Init /\ [][Next]_<<pending, stored>>
=============================================================================
