---------------------------- MODULE MCVideoPath ----------------------------
(* VideoPath on a small instance: offers, frames and options.              *)
EXTENDS VideoPath

CONSTANT PaddedNacks   \* whether receivers pad their NACKs

Line(kind, fields) == [kind |-> kind, fields |-> fields]
MediaLine(mid) == Line("media", <<mid, "9", "UDP/TLS/RTP/SAVPF", "111">>)
Candidate == [i \in 1..8 |-> "token"]
MediaSection(mid, name) ==
    << MediaLine(mid), Line("ufrag", <<"ice-ufrag", name>>), Line("pwd", <<"ice-pwd", name>>),
       Line("candidate", <<"candidate", Candidate>>) >>

\* What servers answer: audio first; no bundle; a bundle with video alone, and
\* with video first; no audio; an IPv6 candidate; and no line at all.
MCOffers ==
    { <<Line("bundle", <<"audio", "video">>)>> \o MediaSection("audio", "a") \o MediaSection("video", "a"),
      MediaSection("audio", "a") \o MediaSection("video", "v"),
      <<Line("bundle", <<"audio">>)>> \o MediaSection("audio", "a") \o MediaSection("video", "v"),
      <<Line("bundle", <<"video", "audio">>)>> \o MediaSection("video", "v") \o MediaSection("audio", "v"),
      <<Line("bundle", <<"audio">>)>> \o MediaSection("audio", "a") \o <<MediaLine("application")>>,
      <<MediaLine("audio"), Line("candidate", <<"candidate", "1", "2">>)>>,
      <<>> }

MCOptions == {[send |-> [audio |-> TRUE, video |-> TRUE],
               recv |-> [audio |-> FALSE, video |-> FALSE], use_rtp_mux |-> TRUE]}

MCSsrc == [audio |-> 1, video |-> 2, rtx |-> 3]

Bytes(header, n) == <<header>> \o [i \in 1..(n - 1) |-> i]

\* With payloads of 9 bytes: parameter sets that just fit into an aggregate
\* and a large NALU; a NALU of the largest size; parameter sets of which the
\* second just does not fit, but goes with the picture.
MCFrames ==
    { <<Bytes(103, 2), Bytes(104, 2), Bytes(101, 12)>>,
      <<Bytes(65, 9)>>,
      <<Bytes(103, 3), Bytes(104, 2), Bytes(101, 2)>> }

MCPadding == IF PaddedNacks THEN <<PaddingWord>> ELSE <<>>
=============================================================================
