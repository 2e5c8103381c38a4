--------------------------- MODULE FrameDelivery ---------------------------
(***************************************************************************)
(* What sending video promises: the receiver has frames that were sent, as *)
(* they were sent, whatever is lost, repeated or reordered on the way.     *)
(***************************************************************************)
EXTENDS Naturals, Sequences

CONSTANT Frames

VARIABLES sent,       \* the frames sent, in order
          delivered   \* the frames the receiver has, by their place in sent

Init == sent = <<>> /\ delivered = {}

Send(frame) == sent' = Append(sent, frame) /\ UNCHANGED delivered

Deliver(places) ==
    /\ delivered' = delivered \cup {<<n, sent[n]>> : n \in places}
    /\ UNCHANGED sent

Next == \/ \E frame \in Frames : Send(frame)
        \/ \E places \in SUBSET DOMAIN sent : Deliver(places)

Spec == Init /\ [][Next]_<<sent, delivered>>
=============================================================================
