--------------------------- MODULE MCPushSession ---------------------------
(* PushSession with one camera, one microphone, two pushers and few clicks. *)
EXTENDS PushSession

CONSTANT Second   \* the pusher that is created second

\* The requests a sink makes while it pushes, and what each may come back as:
\* ParseReply fails, the remote description is refused, or it is taken.
AllRequests == Pushers \X {"offer", "answer"}

AllOutcomes ==
    [offer |-> {"error", "refused", "accepted"}, answer |-> {"done"}]

\* Bound: a second push only where there was no preview, frame or ICE signal, so
\* that what two pushes do beside each other is the signalling.
SecondAlone ==
    life[Second] # "none" =>
        /\ \A p \in Pushers : life[p] # "none"
        /\ \A v \in Previews : life[v] = "none"
        /\ frames = 0 /\ iceSignals = 0

\* The bound only holds back the user, the capture threads and ICE.
MCNext == Next /\ SecondAlone'

MCSpec == Init /\ [][MCNext]_vars /\ Fairness
=============================================================================
