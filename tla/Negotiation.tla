---------------------------- MODULE Negotiation ----------------------------
(***************************************************************************)
(* The offer and the answer: PeerConnection::SetRemoteSDP and CreateAnswer *)
(* (pc/peer_connection.cpp), SessionDescription and the transports that    *)
(* TransportController creates for them.  A line of an offer is a record:  *)
(* its kind, and its parts as rtc::tokenize would give them.  The ICE      *)
(* agent is a library: a transport is what it was told.                    *)
(***************************************************************************)
EXTENDS Naturals, Sequences, SequencesExt

NoInfo == [mid |-> "", ufrag |-> "", pwd |-> ""]

\* A description that has read no line yet.
EmptyDescription ==
    [refused |-> FALSE, mid |-> "", groups |-> <<>>, contents |-> <<>>,
     candidates |-> [audio |-> <<>>, video |-> <<>>],
     infos |-> [audio |-> NoInfo, video |-> NoInfo]]

Refuse(desc) == [desc EXCEPT !.refused = TRUE]

\* The value of a=name:value, in a sequence, or <<>>.  A value that contains
\* colons, such as an IPv6 address, is none.
GetAttribute(line) ==
    IF Len(line.fields) = 2 THEN <<line.fields[2]>> ELSE <<>>

ParseCandidates(desc, line) ==
    LET value == GetAttribute(line) IN
    IF line.kind # "candidate" THEN desc
    ELSE IF value = <<>> \/ Len(value[1]) < 8 THEN Refuse(desc)
    ELSE [desc EXCEPT !.candidates[desc.mid] = Append(@, value[1])]

ParseTransportInfo(desc, line) ==
    LET value == GetAttribute(line) IN
    IF line.kind \notin {"ufrag", "pwd"} THEN desc
    ELSE IF value = <<>> THEN Refuse(desc)
    ELSE [desc EXCEPT !.infos[desc.mid][line.kind] = value[1]]

\* ContentGroup::AddContentName for every name of a=group:BUNDLE.
AddContentName(names, name) ==
    IF Contains(names, name) THEN names ELSE Append(names, name)

ParseGroup(desc, line) ==
    IF line.fields = <<>> THEN desc
    ELSE [desc EXCEPT !.groups = Append(@, FoldLeft(AddContentName, <<>>, line.fields))]

\* An m= line: what follows belongs to audio, to video, or to no one.
ParseMedia(desc, line) ==
    LET media == line.fields[1] IN
    IF Len(line.fields) <= 2 THEN Refuse(desc)
    ELSE IF media \notin {"audio", "video"} THEN [desc EXCEPT !.mid = media]
    ELSE [desc EXCEPT !.mid = media, !.contents = Append(@, media),
                      !.infos[media].mid = media]

ParseLine(desc, line) ==
    LET read == CASE line.kind = "bundle" -> ParseGroup(desc, line)
                  [] line.kind = "media" -> ParseMedia(desc, line)
                  [] OTHER -> desc
    IN  IF desc.refused \/ read.refused \/ read.mid \notin {"audio", "video"}
        THEN IF desc.refused THEN desc ELSE read
        ELSE ParseTransportInfo(ParseCandidates(read, line), line)

\* PeerConnection::SetRemoteSDP up to the transports.
ParseSdp(lines) ==
    IF lines = <<>> THEN Refuse(EmptyDescription)
    ELSE FoldLeft(ParseLine, EmptyDescription, lines)

-----------------------------------------------------------------------------

\* SessionDescription::GetGroupByName finds the first group.
BundleNames(desc) == IF desc.groups = <<>> THEN <<>> ELSE desc.groups[1]

IsBundle(desc, mid) == Contains(BundleNames(desc), mid)

GetFirstBundleId(desc) ==
    IF BundleNames(desc) = <<>> THEN "" ELSE BundleNames(desc)[1]

\* [mutant: WithTransport] Every content of a bundle counts as bundled.
WithTransportUnbundled(desc) ==
    {mid \in ToSet(desc.contents) : ~IsBundle(desc, mid)}

\* The contents TransportController gives a transport of their own.
WithTransport(desc) ==
    {mid \in ToSet(desc.contents) : IsBundle(desc, mid) => mid = GetFirstBundleId(desc)}

\* TransportController::SetRemoteSDP and SetLocalSDP.
RemoteTransports(desc) ==
    [mid \in WithTransport(desc) |->
        [remote |-> desc.infos[mid], local |-> NoInfo,
         candidates |-> desc.candidates[mid]]]

LocalTransports(transports, desc) ==
    [mid \in DOMAIN transports |->
        IF mid \in WithTransport(desc)
        THEN [transports[mid] EXCEPT !.local = desc.infos[mid]]
        ELSE transports[mid]]

-----------------------------------------------------------------------------

\* The codecs of the content descriptions, which an offer does not change.
AudioCodecs == <<[id |-> 111, name |-> "opus", apt |-> 0]>>

VideoCodecs ==
    <<[id |-> 107, name |-> "H264", apt |-> 0], [id |-> 99, name |-> "rtx", apt |-> 107]>>

\* audio_pt_, video_pt_ and video_rtx_pt_.
PayloadTypes ==
    [audio |-> AudioCodecs[1].id, video |-> VideoCodecs[1].id, rtx |-> VideoCodecs[2].id]

\* The streams of a content: their ssrcs, and the groups of ssrcs (FID).
AudioStreams(ssrc) == <<[ssrcs |-> <<ssrc.audio>>, fid |-> <<>>]>>

VideoStreams(ssrc) ==
    << [ssrcs |-> <<ssrc.video, ssrc.rtx>>, fid |-> <<ssrc.video, ssrc.rtx>>],
       [ssrcs |-> <<ssrc.rtx>>, fid |-> <<>>] >>

\* PeerConnection::CreateAnswer: audio before video, in one bundle.
Answer(options, ssrc) ==
    LET Asked(kind) == options.send[kind] \/ options.recv[kind]
        contents == (IF Asked("audio") THEN <<"audio">> ELSE <<>>) \o
                    (IF Asked("video") THEN <<"video">> ELSE <<>>)
        Info(mid) == IF Asked(mid) THEN [mid |-> mid, ufrag |-> "own", pwd |-> "own"]
                                   ELSE NoInfo
    IN  [contents |-> contents,
         groups |-> IF options.use_rtp_mux /\ contents # <<>> THEN <<contents>> ELSE <<>>,
         infos |-> [audio |-> Info("audio"), video |-> Info("video")],
         streams |-> [audio |-> IF options.send.audio THEN AudioStreams(ssrc) ELSE <<>>,
                      video |-> IF options.send.video THEN VideoStreams(ssrc) ELSE <<>>]]

\* [mutant: VideoConfig] rtx packets have the payload type of the video.
VideoConfigPlain(answer) ==
    LET stream == answer.streams.video[1] IN
    [ssrc |-> stream.ssrcs[1],
     rtxSsrc |-> IF Len(stream.ssrcs) > 1 THEN stream.ssrcs[2] ELSE 0,
     rtxPt |-> IF Len(stream.ssrcs) > 1 THEN PayloadTypes.video ELSE 0]

\* CreateVideoSendStream: the first stream, with a second ssrc for rtx.
VideoConfig(answer) ==
    LET stream == answer.streams.video[1] IN
    [ssrc |-> stream.ssrcs[1],
     rtxSsrc |-> IF Len(stream.ssrcs) > 1 THEN stream.ssrcs[2] ELSE 0,
     rtxPt |-> IF Len(stream.ssrcs) > 1 THEN PayloadTypes.rtx ELSE 0]

\* What the text of the answer says of a media section: payload types with
\* what rtx packets of one repeat (apt), ssrcs and their groups.
Section(answer, mid) ==
    LET codecs == IF mid = "audio" THEN AudioCodecs ELSE VideoCodecs IN
    [mid |-> mid,
     codecs |-> ToSet(codecs),
     ssrcs |-> UNION {ToSet(s.ssrcs) : s \in ToSet(answer.streams[mid])},
     fids |-> {s.fid : s \in ToSet(answer.streams[mid])} \ {<<>>}]

ToText(answer) == {Section(answer, mid) : mid \in ToSet(answer.contents)}
=============================================================================
