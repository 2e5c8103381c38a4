---------------------- MODULE TransportFeedbackAdapter ----------------------
(***************************************************************************)
(* TransportFeedbackAdapter (transport_feedback_adapter.cpp) as a record    *)
(* and the operators that change it: the history of packets that were      *)
(* created, when each was sent, and the translation of a transport-wide    *)
(* feedback message into results for the congestion controller.  Times are *)
(* in milliseconds, finer resolution and its rounding are left out.        *)
(* last_ack_seq_num_ and last_send_time_ are left out: nothing that reads  *)
(* them influences anything else.                                          *)
(***************************************************************************)
EXTENDS Integers, Sequences, SequencesExt

CONSTANTS SeqModulus,     \* 2^16, transport sequence numbers
          WrapPeriod,     \* kTimeWrapPeriodUs, of the base time of a message
          HistoryWindow   \* kSendTimeHistoryWindow, 60 s

ASSUME AdapterAssumption ==
  /\ SeqModulus \in Nat /\ SeqModulus % 2 = 0 /\ SeqModulus > 0
  /\ WrapPeriod \in Nat /\ WrapPeriod > 0
  /\ HistoryWindow \in Nat

Never == -1   \* an infinite Timestamp; no number unwrapped yet

Abs(n) == IF n < 0 THEN -n ELSE n

InitialAdapter == [history |-> << >>, lastSeq |-> Never, offset |-> Never, timestamp |-> Never]

\* [mutant: a sequence number is taken as it is on the wire]
UnwrapNot(last, seq) == seq

\* webrtc::SequenceNumberUnwrapper: the number closest to the last one.
Unwrap(last, seq) ==
  LET ahead == (seq - last) % SeqModulus
  IN  CASE last = Never -> seq
        [] last # Never /\ 2 * ahead <= SeqModulus -> last + ahead
        [] OTHER -> last + ahead - SeqModulus

\* history_ without the packets before the first one still in the window
Recent(history, time) ==
  [s \in {s \in DOMAIN history :
            \E r \in DOMAIN history : r <= s /\ time - history[r].creation <= HistoryWindow}
     |-> history[s]]

\* [mutant: old packets are never cleaned up]
AddPacketKeepAll(a, seq, time) ==
  LET s == Unwrap(a.lastSeq, seq)
      packet == [creation |-> time, send |-> Never]
  IN  [a EXCEPT !.lastSeq = s,
                !.history = [r \in DOMAIN a.history \cup {s} |->
                               IF r \in DOMAIN a.history THEN a.history[r] ELSE packet]]

AddPacket(a, seq, time) ==
  LET s == Unwrap(a.lastSeq, seq)
      packet == [creation |-> time, send |-> Never]
      kept == Recent(a.history, time)
  IN  [a EXCEPT !.lastSeq = s,
                !.history = [r \in DOMAIN kept \cup {s} |->
                               IF r \in DOMAIN kept THEN kept[r] ELSE packet]]

ProcessSentPacket(a, seq, time) ==
  LET s == Unwrap(a.lastSeq, seq)
  IN  [a EXCEPT !.lastSeq = s,
                !.history = [r \in DOMAIN a.history |->
                               IF r = s THEN [a.history[r] EXCEPT !.send = time]
                               ELSE a.history[r]]]

\* [mutant: the base time is taken never to wrap]
BaseDeltaUnwrapped(base, previous) == base - previous

\* GetBaseDelta: of the three readings of a base time that wraps, the nearest.
BaseDelta(base, previous) ==
  LET delta == base - previous
  IN  CASE Abs(delta - WrapPeriod) < Abs(delta) -> delta - WrapPeriod
        [] Abs(delta - WrapPeriod) >= Abs(delta) /\ Abs(delta + WrapPeriod) < Abs(delta)
             -> delta + WrapPeriod
        [] OTHER -> delta

\* current_offset_: the base time of the message, on the clock of the sender
Offset(a, base, time) ==
  IF a.timestamp = Never \/ BaseDelta(base, a.timestamp) < -a.offset THEN time
  ELSE a.offset + BaseDelta(base, a.timestamp)

\* [mutant: a packet that was received stays in the history]
ReportKeep(acc, s, status) ==
  LET packet == acc.history[s]
      offset == acc.offset + (IF status.received THEN status.delta ELSE 0)
      result == [seq |-> s, send |-> packet.send, exact |-> acc.exact,
                 receive |-> IF status.received THEN offset ELSE Never]
  IN  [acc EXCEPT !.lastSeq = s, !.offset = offset, !.results = Append(@, result)]

\* A packet found in the history becomes a result.  The field exact is not in
\* the code: no received packet before it in the message was passed over.
Report(acc, s, status) ==
  LET packet == acc.history[s]
      offset == acc.offset + (IF status.received THEN status.delta ELSE 0)
      result == [seq |-> s, send |-> packet.send, exact |-> acc.exact,
                 receive |-> IF status.received THEN offset ELSE Never]
  IN  [acc EXCEPT !.lastSeq = s, !.offset = offset, !.results = Append(@, result),
                  !.history = [r \in DOMAIN @ \ (IF status.received THEN {s} ELSE {}) |-> @[r]]]

\* [mutant: a packet not yet marked as sent is reported all the same]
ProcessStatusUnsent(acc, status) ==
  LET s == Unwrap(acc.lastSeq, status.seq)
  IN  IF s \in DOMAIN acc.history
      THEN Report(acc, s, status)
      ELSE [acc EXCEPT !.lastSeq = s, !.exact = @ /\ ~status.received]

\* One status: a packet that is not in the history, or not yet marked as sent,
\* is passed over, and so is its delta.
ProcessStatus(acc, status) ==
  LET s == Unwrap(acc.lastSeq, status.seq)
  IN  IF s \in DOMAIN acc.history /\ acc.history[s].send # Never
      THEN Report(acc, s, status)
      ELSE [acc EXCEPT !.lastSeq = s, !.exact = @ /\ ~status.received]

\* ProcessTransportFeedback of a message with at least one status: the adapter
\* after it and the results.
ProcessTransportFeedback(a, message, time) ==
  LET offset == Offset(a, message.base, time)
      start == [lastSeq |-> a.lastSeq, history |-> a.history, offset |-> offset,
                results |-> << >>, exact |-> TRUE]
      end == FoldLeft(ProcessStatus, start, message.statuses)
  IN  [adapter |-> [history |-> end.history, lastSeq |-> end.lastSeq,
                    offset |-> offset, timestamp |-> message.base],
       results |-> end.results]
=============================================================================
