----------------------------- MODULE VideoPath -----------------------------
(***************************************************************************)
(* Video through PeerConnection (pc/peer_connection.cpp): the description  *)
(* and the answer, a frame made into packets, the cache for retransmission,*)
(* the pacer (a FIFO here), negative acknowledgements and the rtx packets  *)
(* that answer them.  The network thread runs every action but SendPacket, *)
(* which the thread of the pacer runs.  The network keeps what it was      *)
(* given: a packet is lost by never being received, and overtakes others.  *)
(* The receiver is a reference: RFC 6184 depacketization, RFC 4588 rtx and *)
(* RFC 4585 NACKs.                                                         *)
(***************************************************************************)
EXTENDS Negotiation, RtpPacket, H264Packetizer, RtcpReceiver

CONSTANTS Frames,      \* frames of the encoder: sequences of NALUs
          Offers,      \* remote descriptions: sequences of lines
          Options,     \* of CreateAnswer, as the media sink gives them
          Ssrc,        \* local_audio_ssrc_, local_video_ssrc_, local_video_rtx_ssrc_
          FirstSeq,    \* of every sequence number, 1000
          CacheSize,   \* RTC_PACKET_CACHE_SIZE
          Padding,     \* words of padding receivers add to a NACK
          MaxFrames, MaxAudio, MaxIce, MaxNacks   \* bounds

\* A payload and the headers fit into a buffer: those of a packet with its
\* number, and of one that is sent again.
ASSUME VideoPathAssumption ==
    /\ {FirstSeq, MaxFrames, MaxAudio, MaxIce, MaxNacks} \subseteq Nat
    /\ CacheSize \in Nat \ {0} /\ SeqSpace % CacheSize = 0
    /\ MaxPayloadLen + 20 <= Capacity

\* The sink always sends audio and video.
ASSUME OptionsAssumption ==
    \A options \in Options : options.send.audio /\ options.send.video

\* What H.264 has of a NALU: bytes, the last of them not 0, no start code in
\* between, and a type that is not one of the packetizer's own.
LegalNalu(nalu) ==
    /\ nalu \in Seq(Byte) /\ nalu # <<>>
    /\ TypeOf(nalu[1]) \notin {StapA, FuA}
    /\ nalu[Len(nalu)] # 0
    /\ \A i \in 1..(Len(nalu) - 2) : <<nalu[i], nalu[i + 1], nalu[i + 2]>> # <<0, 0, 1>>

ASSUME FramesAssumption ==
    \A frame \in Frames :
        frame \in Seq(Seq(Byte)) /\ frame # <<>> /\ \A i \in DOMAIN frame : LegalNalu(frame[i])

\* Ssrcs are random; none of two is the other's.
ASSUME SsrcAssumption ==
    Ssrc.audio # Ssrc.video /\ Ssrc.audio # Ssrc.rtx /\ Ssrc.video # Ssrc.rtx

\* Words of padding are read as items of a NACK.
ASSUME PaddingAssumption == Padding \in Seq([pid : Nat, mask : SUBSET Nat])

VARIABLES
    desc,        \* remote_desc_
    transports,  \* those of the ICE agent
    answer,      \* local_desc_ once CreateAnswer has run
    connected,   \* pc_state_ = kConnected
    iceChanges,  \* how often it changed
    frames,      \* history: the frames that were sent
    created,     \* video packets so far: video_seq_ and transport_seq_
    audioSent,   \* audio packets so far: audio_seq_
    rtxSent,     \* rtx packets so far: rtx_seq_
    cache,       \* video_cache_
    pacer,       \* packets in the pacer
    added,       \* what OnAddPacket was told
    announced,   \* the numbers OnSentPacket was told
    wire,        \* the packets given to the ICE agent that it sent
    received,    \* receiver: the video packets it has, by number
    asked,       \* receiver: the numbers it put into NACKs
    rtcp,        \* NACKs in the network
    nacks,       \* how many so far
    requested    \* history: the numbers OnNackReceived was told

session == <<desc, transports, answer>>
link == <<connected, iceChanges>>
sender == <<frames, created, cache, added>>
receiver == <<received, asked, rtcp, nacks>>
vars == <<session, link, sender, audioSent, rtxSent, pacer, announced, wire, receiver, requested>>

NoAnswer == [contents |-> <<>>]
NoPacket == [seq |-> -1]

\* A number of the receiver, and the sequence number on the wire.
Wire(n) == (FirstSeq + n) % SeqSpace
Number(seq) == (seq - FirstSeq) % SeqSpace

Init ==
    /\ desc = EmptyDescription /\ transports = [mid \in {} |-> 0] /\ answer = NoAnswer
    /\ connected = FALSE /\ iceChanges = 0
    /\ frames = <<>> /\ created = 0 /\ audioSent = 0 /\ rtxSent = 0
    /\ cache = [i \in 0..(CacheSize - 1) |-> NoPacket]
    /\ pacer = <<>> /\ added = {} /\ announced = {} /\ wire = {}
    /\ received = [n \in {} |-> 0] /\ asked = {} /\ rtcp = {} /\ nacks = 0
    /\ requested = {}

-----------------------------------------------------------------------------
(* The session.                                                            *)

SetRemoteSDP(offer) ==
    /\ desc = EmptyDescription
    /\ desc' = ParseSdp(offer)
    /\ transports' = IF desc'.refused THEN transports ELSE RemoteTransports(desc')
    /\ UNCHANGED <<answer, link, sender, audioSent, rtxSent, pacer, announced, wire,
                   receiver, requested>>

\* The media sink asks for an answer when the description was not refused.
CreateAnswer(options) ==
    /\ desc # EmptyDescription /\ ~desc.refused /\ answer = NoAnswer
    /\ answer' = Answer(options, Ssrc)
    /\ transports' = LocalTransports(transports, answer')
    /\ UNCHANGED <<desc, link, sender, audioSent, rtxSent, pacer, announced, wire,
                   receiver, requested>>

Complete(transport) == transport.remote.ufrag # "" /\ transport.local.ufrag # ""

\* OnIceState: the agent connects a transport that has both parameters.
OnIceState(up) ==
    /\ iceChanges < MaxIce /\ up # connected
    /\ \E mid \in DOMAIN transports : Complete(transports[mid])
    /\ connected' = up
    /\ iceChanges' = iceChanges + 1
    /\ UNCHANGED <<session, sender, audioSent, rtxSent, pacer, announced, wire,
                   receiver, requested>>

\* TransportController::SendPacket, always to the transport "audio".
Transmitted(packets) == IF "audio" \in DOMAIN transports THEN packets ELSE {}

-----------------------------------------------------------------------------
(* Sending.                                                                *)

Extensions == Register(NoExtensions, TransportSeqId, "transport_seq")

\* [mutant: VideoPacket] No room is reserved for the extension.
VideoPacketUnreserved(ts, seq, payload, last) ==
    LET packet == [WithPayload(NewPacket(Extensions), payload)
                   EXCEPT !.pt = PayloadTypes.video, !.ssrc = Ssrc.video, !.ts = ts,
                          !.marker = last, !.seq = seq]
    IN  SetExtension(packet, "transport_seq", TransportSeqSize, seq)

\* A packet of SendEncodedImage; both its numbers started at FirstSeq.
VideoPacket(ts, seq, payload, last) ==
    LET reserved == SetExtension(NewPacket(Extensions), "transport_seq", TransportSeqSize, 0)
        packet == [WithPayload(reserved, payload)
                   EXCEPT !.pt = PayloadTypes.video, !.ssrc = Ssrc.video, !.ts = ts,
                          !.marker = last, !.seq = seq]
    IN  SetExtension(packet, "transport_seq", TransportSeqSize, seq)

\* AddPacketToTransportFeedback
SendInfo(packet, id) ==
    [id |-> id, seq |-> packet.seq, ssrc |-> packet.ssrc, size |-> Size(packet)]

AddVideoCache(slots, packet) ==
    LET i == packet.seq % CacheSize
    IN  IF slots[i].seq = packet.seq THEN slots ELSE [slots EXCEPT ![i] = packet]

\* [mutant: FindVideoCache] Whatever is in the slot is taken.
FindVideoCacheAny(seq) == {cache[seq % CacheSize]} \ {NoPacket}

FindVideoCache(seq) == {packet \in {cache[seq % CacheSize]} : packet.seq = seq}

\* A frame of the encoder, as the bytes x264 writes: a start code of four bytes
\* before the first NALU and before parameter sets, of three before the others.
AnnexB(frame) ==
    LET Long(i) == i = 1 \/ TypeOf(frame[i][1]) \in {7, 8}
    IN  FlattenSeq([i \in DOMAIN frame |->
            (IF Long(i) THEN <<0>> ELSE <<>>) \o <<0, 0, 1>> \o frame[i]])

SendEncodedImage(frame) ==
    LET payloads == Packetize(AnnexB(frame))
        packets == [k \in DOMAIN payloads |->
                       VideoPacket(Len(frames) + 1, Wire(created + k - 1), payloads[k],
                                   k = Len(payloads))]
    IN  /\ connected /\ Len(frames) < MaxFrames /\ created + Len(payloads) < SeqSpace
        /\ frames' = Append(frames, frame)
        /\ created' = created + Len(packets)
        /\ added' = added \cup {SendInfo(packets[k], Wire(created + k - 1)) :
                                k \in DOMAIN packets}
        /\ cache' = FoldLeft(AddVideoCache, cache, packets)
        /\ pacer' = pacer \o packets
        /\ UNCHANGED <<session, link, audioSent, rtxSent, announced, wire, receiver, requested>>

\* Audio is not paced, and has no extensions.
SendEncodedAudio(payload) ==
    /\ connected /\ audioSent < MaxAudio
    /\ audioSent' = audioSent + 1
    /\ wire' = wire \cup Transmitted({
           [WithPayload(NewPacket(NoExtensions), payload)
            EXCEPT !.pt = PayloadTypes.audio, !.ssrc = Ssrc.audio, !.seq = Wire(audioSent)]})
    /\ UNCHANGED <<session, link, sender, rtxSent, pacer, announced, receiver, requested>>

\* The number GetExtension finds, in a set.
PacketIds(packet) == {entry.value : entry \in FindExtension(packet, "transport_seq")}

\* PeerConnection::SendPacket, called by the pacer.
SendPacket ==
    /\ pacer # <<>>
    /\ pacer' = Tail(pacer)
    /\ IF connected
       THEN /\ wire' = wire \cup Transmitted({Head(pacer)})
            /\ announced' = announced \cup
                 (IF PacketIds(Head(pacer)) = {} THEN {-1} ELSE PacketIds(Head(pacer)))
       ELSE UNCHANGED <<wire, announced>>
    /\ UNCHANGED <<session, link, sender, audioSent, rtxSent, receiver, requested>>

-----------------------------------------------------------------------------
(* Retransmission.                                                         *)

\* BuildRtxPacket: the original number, and the original payload.
BuildRtxPacket(packet, n) ==
    LET config == VideoConfig(answer)
    IN  [WithPayload(NewPacket(NoExtensions),
                     <<packet.seq \div 256, packet.seq % 256>> \o packet.payload)
         EXCEPT !.pt = config.rtxPt, !.ssrc = config.rtxSsrc, !.seq = Wire(n),
                !.marker = packet.marker, !.ts = packet.ts]

\* The packets OnNackReceived finds for a list, in its order.
Found(list) ==
    FlattenSeq([i \in DOMAIN list |-> SetToSeq(FindVideoCache(list[i]))])

\* OnRtcpPacketReceived, down to OnNackReceived, which looks at no state.
OnRtcpPacketReceived(message) ==
    LET heard == ParseCompoundPacket(Ssrc.video, 0, message)
        list == FlattenSeq([i \in DOMAIN heard.calls |->
                    IF heard.calls[i].to = "OnNackReceived" THEN heard.calls[i].list ELSE <<>>])
        packets == Found(list)
    IN  /\ message \in rtcp
        /\ rtcp' = rtcp \ {message}
        /\ requested' = requested \cup ToSet(list)
        /\ wire' = wire \cup Transmitted({BuildRtxPacket(packets[i], rtxSent + i - 1) :
                                          i \in DOMAIN packets})
        /\ rtxSent' = rtxSent + Len(packets)
        /\ UNCHANGED <<session, link, sender, audioSent, pacer, announced, received, asked, nacks>>

-----------------------------------------------------------------------------
(* The receiver.                                                           *)

\* What a video or rtx packet says of which packet.
Unwrapped(packet) ==
    IF packet.ssrc = Ssrc.video
    THEN [n |-> Number(packet.seq), payload |-> packet.payload]
    ELSE [n |-> Number(packet.payload[1] * 256 + packet.payload[2]),
          payload |-> SubSeq(packet.payload, 3, Len(packet.payload))]

Receive(packet) ==
    LET n == Unwrapped(packet).n IN
    /\ packet.ssrc # Ssrc.audio
    /\ n \notin DOMAIN received
    /\ received' = [m \in DOMAIN received \cup {n} |->
                       IF m # n THEN received[m]
                       ELSE [ts |-> packet.ts, marker |-> packet.marker,
                             payload |-> Unwrapped(packet).payload]]
    /\ UNCHANGED <<session, link, sender, audioSent, rtxSent, pacer, announced, wire,
                   asked, rtcp, nacks, requested>>

Missing == {n \in 0..(Max(DOMAIN received \cup {0})) : n \notin DOMAIN received}

\* A NACK for what one item can say of all that is missing, alone, after a
\* receiver report that has heard no sender report, or before a block that was
\* cut off.
SendNack(shape) ==
    LET first == Min(Missing)
        after == {n \in Missing : n - first \in 1..MaskBits}
        item == [pid |-> Wire(first), mask |-> {n - first - 1 : n \in after}]
        nack == [whole |-> TRUE, type |-> Rtpfb, count |-> NackFmt, media |-> Ssrc.video,
                 words |-> <<item>>, padding |-> Padding]
        report == [whole |-> TRUE, type |-> ReceiverReport, count |-> 1, media |-> 0,
                   words |-> <<[source |-> Ssrc.video, lastSr |-> 0, delay |-> 0]>>,
                   padding |-> <<>>]
        message == CASE shape = "alone" -> <<nack>>
                     [] shape = "compound" -> <<report, nack>>
                     [] shape = "cut" -> <<nack, [report EXCEPT !.whole = FALSE]>>
    IN  /\ Missing # {} /\ nacks < MaxNacks
        /\ asked' = asked \cup {Wire(n) : n \in after \cup {first}}
        /\ rtcp' = rtcp \cup {message}
        /\ nacks' = nacks + 1
        /\ UNCHANGED <<session, link, sender, audioSent, rtxSent, pacer, announced, wire,
                       received, requested>>

Next ==
    \/ \E offer \in Offers : SetRemoteSDP(offer)
    \/ \E options \in Options : CreateAnswer(options)
    \/ \E up \in BOOLEAN : OnIceState(up)
    \/ \E frame \in Frames : SendEncodedImage(frame)
    \/ SendEncodedAudio(<<1>>)
    \/ SendPacket
    \/ \E message \in rtcp : OnRtcpPacketReceived(message)
    \/ \E packet \in wire : Receive(packet)
    \/ \E shape \in {"alone", "compound", "cut"} : SendNack(shape)

Spec == Init /\ [][Next]_vars

-----------------------------------------------------------------------------
(* The reference depacketizer.                                             *)

\* The NALUs so far and one more payload.
Depacketize(nalus, payload) ==
    LET End(at) == at + 1 + payload[at] * 256 + payload[at + 1]
        split[at \in 2..(Len(payload) + 1)] ==
            IF at >= Len(payload) \/ End(at) > Len(payload) THEN <<>>
            ELSE <<SubSeq(payload, at + 2, End(at))>> \o split[End(at) + 1]
        type == TypeOf(payload[1])
        bytes == SubSeq(payload, 3, Len(payload))
    IN  CASE type = StapA -> nalus \o split[2]
          [] type = FuA /\ payload[2] >= StartBit ->
               Append(nalus, <<WithType(payload[1], TypeOf(payload[2]))>> \o bytes)
          [] type = FuA /\ payload[2] < StartBit /\ nalus # <<>> ->
               [nalus EXCEPT ![Len(nalus)] = @ \o bytes]
          [] type \notin {StapA, FuA} -> Append(nalus, payload)
          [] OTHER -> nalus

\* The packets that the receiver knows to be a whole frame: consecutive, from
\* the one after a marker to the next marker.
WholeFrames ==
    {range \in (DOMAIN received) \X (DOMAIN received) :
        /\ range[1] <= range[2] /\ range[1]..range[2] \subseteq DOMAIN received
        /\ range[1] = 0 \/ (range[1] - 1 \in DOMAIN received /\ received[range[1] - 1].marker)
        /\ \A n \in range[1]..range[2] : received[n].marker <=> n = range[2]}

FrameOf(range) ==
    <<received[range[1]].ts,
      FoldLeft(Depacketize, <<>>,
               [i \in 1..(range[2] - range[1] + 1) |-> received[range[1] + i - 1].payload])>>

-----------------------------------------------------------------------------

Media(ssrc) == {packet \in wire : packet.ssrc = ssrc}

\* The state is well typed; no packet is larger than the packetizer may make it.
TypeOK ==
    /\ connected \in BOOLEAN /\ created \in 0..SeqSpace
    /\ \A i \in DOMAIN cache : cache[i] = NoPacket \/ cache[i].seq % CacheSize = i
    /\ \A packet \in ToSet(pacer) \cup Media(Ssrc.video) :
          Len(packet.payload) <= MaxPayloadLen /\ Size(packet) <= Capacity
    /\ \A packet \in Media(Ssrc.rtx) : Size(packet) <= Capacity
    /\ DOMAIN received \subseteq 0..(created - 1)

Abstract == INSTANCE FrameDelivery
    WITH sent <- frames, delivered <- {FrameOf(range) : range \in WholeFrames}

\* A frame the receiver puts together from packets and retransmissions is a
\* frame that was sent, NALU by NALU.
DeliversFrames == Abstract!Spec

\* A retransmission repeats a packet that the receiver asked for: its number,
\* its time, its marker and its payload.
RetransmissionsTrue ==
    \A rtx \in Media(Ssrc.rtx) :
        /\ Wire(Unwrapped(rtx).n) \in asked
        /\ \A packet \in Media(Ssrc.video) :
              Unwrapped(packet).n = Unwrapped(rtx).n =>
                 /\ packet.payload = Unwrapped(rtx).payload
                 /\ packet.ts = rtx.ts /\ packet.marker = rtx.marker

\* The answer told the remote end of the payload type and the ssrc of every
\* packet, and of what the rtx packets repeat.
AnswerDeclaresPackets ==
    \A packet \in wire : \E section \in ToText(answer) : \E codec \in section.codecs :
        /\ packet.ssrc \in section.ssrcs /\ packet.pt = codec.id
        /\ packet.ssrc = Ssrc.rtx =>
              codec.apt = PayloadTypes.video /\ <<Ssrc.video, packet.ssrc>> \in section.fids

\* The number in the header of a packet is the one under which the feedback
\* adapter knows its ssrc, its sequence number and its size, and under which
\* it is told that the packet left.
FeedbackKnowsPackets ==
    /\ announced \subseteq {info.id : info \in added}
    /\ \A packet \in Media(Ssrc.video) :
          /\ PacketIds(packet) # {}
          /\ \A id \in PacketIds(packet) : id \in announced /\ SendInfo(packet, id) \in added

BundledWithAudioFirst == "audio" \in ToSet(desc.contents) /\ GetFirstBundleId(desc) = "audio"

\* Everything is sent to the transport "audio": it exists, and has the
\* parameters of both ends, when the bundle of the offer starts with audio.
MediaTransportReady ==
    answer # NoAnswer /\ BundledWithAudioFirst =>
        "audio" \in DOMAIN transports /\ transports["audio"].local.ufrag # ""

\* "the last byte is the size of the padding", common_header.cpp: padding is
\* no part of what a NACK asks for.
PaddingRemoved == requested \subseteq asked
=============================================================================
