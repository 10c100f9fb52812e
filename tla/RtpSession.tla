----------------------------- MODULE RtpSession -----------------------------
(***************************************************************************)
(* What sipB::RtpSession takes from its peer: the offer, which is read     *)
(* line by line and decides track, transport and address, the answer made  *)
(* from it, and the RTCP datagrams on a started UDP session.               *)
(*                                                                         *)
(* An offer is built up as it is read: every line the code looks at is a   *)
(* record.  The session name and the SSRC, of s= and y= lines, are data    *)
(* that goes into the answer as it came; other lines, and lines whose text *)
(* the code cannot use, change nothing.  The port of an m= line is the     *)
(* number of its section, so that it tells sections apart.                 *)
(***************************************************************************)
EXTENDS RtcpReports

CONSTANTS
  Ips,         \* the addresses in c= lines
  LocalPorts,  \* the ports makeAnswerSdp() may be called with
  MaxLines     \* bound: lines of an offer

NoPort == 0
NoIp == "none"

ASSUME SessionAssumption ==
  /\ NoIp \notin Ips
  /\ LocalPorts \subseteq Nat \ {NoPort}
  /\ MaxLines \in Nat

Media == {"video", "audio"}
Modes == {"UDP", "TCP"}
Codecs == {"H264", "H265", "PCMA"}
Directions == {"SENDONLY", "RECVONLY", "SENDRECV"}
AudioType == 8      \* the static payload type of PCMA
DynamicType == 96

\* The encoding names of rtpmap lines; "other" is a name the code does not know.
Names == Codecs \cup {"other"}
PayloadTypes == {AudioType, DynamicType}

Lines(section) ==
  [k : {"m"}, media : Media, mode : Modes, port : {section}]
  \cup [k : {"c"}, ip : Ips]
  \cup [k : {"a"}, dir : {"sendonly", "recvonly", "sendrecv"}]
  \cup [k : {"rtpmap"}, name : Names, pt : PayloadTypes]

VARIABLES
  stage,       \* how far the session is
  version,     \* whether "v=0" has been found in the offer
  lines,       \* the lines of the offer read so far, from "v=0" on
  media,       \* cur_media_type, cur_media_port and cur_mode of the last m= line
  curDir,      \* cur_dir
  remoteIp,    \* _remote_ip
  tracks,      \* _offer_tracks
  mode,        \* _mode
  direction,   \* _direction
  track,       \* _selected_track, in a sequence that is empty before
  answer,      \* _answer_sdp, in a sequence that is empty before
  localPort,   \* _local_port
  blocks,      \* _rr_blocks
  reported     \* the report blocks last received

offerVars == <<version, lines, media, curDir, remoteIp, tracks>>
chosenVars == <<mode, direction, track>>
answerVars == <<answer, localPort>>
reportVars == <<blocks, reported>>
vars == <<stage, offerVars, chosenVars, answerVars, reportVars>>

NoMedia == [media |-> "", port |-> NoPort, mode |-> "UDP"]
MediaRecords == [media : Media, port : 1..MaxLines, mode : Modes]
Tracks ==
  [media : Media, port : 1..MaxLines, ip : Ips \cup {NoIp}, pt : PayloadTypes, codec : Codecs]
Answers ==
  [media : Media, port : LocalPorts, mode : Modes, pt : PayloadTypes, codec : Codecs,
   dir : {"sendonly", "recvonly", "sendrecv"}]

TypeOK ==
  /\ stage \in {"parsing", "refused", "created", "answered", "started"}
  /\ version \in BOOLEAN
  /\ Len(lines) <= MaxLines
  /\ media \in MediaRecords \cup {NoMedia}
  /\ curDir \in Directions /\ direction \in Directions
  /\ remoteIp \in Ips \cup {NoIp}
  /\ tracks \in Seq(Tracks)
  /\ mode \in Modes
  /\ track = <<>> \/ (Len(track) = 1 /\ track[1] \in Tracks)
  /\ answer = <<>> \/ (Len(answer) = 1 /\ answer[1] \in Answers)
  /\ localPort \in LocalPorts \cup {NoPort}
  /\ blocks \in BlockLists /\ reported \in BlockLists
  /\ stage \in {"created", "answered", "started"} => track # <<>>

Init ==
  /\ stage = "parsing"
  /\ version = FALSE
  /\ lines = <<>>
  /\ media = NoMedia
  /\ curDir = "RECVONLY" /\ direction = "RECVONLY"
  /\ remoteIp = NoIp
  /\ tracks = <<>> /\ track = <<>> /\ answer = <<>>
  /\ mode = "UDP"
  /\ localPort = NoPort
  /\ blocks = <<>> /\ reported = <<>>

-----------------------------------------------------------------------------
(* create(): parseOfferSdp() and resolveTrack().                           *)

\* The first "v=0" of the offer. What precedes it is dropped; a later one is a line
\* that changes nothing.
FindVersion ==
  /\ stage = "parsing"
  /\ ~version
  /\ version' = TRUE
  /\ UNCHANGED <<stage, lines, media, curDir, remoteIp, tracks, chosenVars, answerVars, reportVars>>

\* An offer without one is refused before any line is read.
RefuseVersion ==
  /\ stage = "parsing"
  /\ ~version
  /\ stage' = "refused"
  /\ UNCHANGED <<offerVars, chosenVars, answerVars, reportVars>>

Section == Cardinality({i \in 1..Len(lines) : lines[i].k = "m"})

ReadAddress(l) ==
  /\ l.k = "c"
  /\ remoteIp' = l.ip
  /\ UNCHANGED <<media, curDir, tracks>>

\* A section starts; a direction given before is forgotten.
ReadMedia(l) ==
  /\ l.k = "m"
  /\ media' = [media |-> l.media, port |-> l.port, mode |-> l.mode]
  /\ curDir' = "RECVONLY"
  /\ UNCHANGED <<remoteIp, tracks>>

\* The direction is the client's own: it receives what the peer sends.
ReadDirection(l) ==
  /\ l.k = "a"
  /\ curDir' = CASE l.dir = "sendonly" -> "RECVONLY"
                 [] l.dir = "recvonly" -> "SENDONLY"
                 [] l.dir = "sendrecv" -> "SENDRECV"
  /\ UNCHANGED <<media, remoteIp, tracks>>

\* A name the code does not know is PCMA if the payload type is that of PCMA.
CodecOf(l) ==
  IF l.name \in Codecs THEN {l.name} ELSE IF l.pt = AudioType THEN {"PCMA"} ELSE {}

\* An rtpmap in a section adds a track; one before the first section is ignored.
ReadRtpmap(l) ==
  /\ l.k = "rtpmap"
  /\ tracks' = IF media = NoMedia \/ CodecOf(l) = {} THEN tracks
               ELSE Append(tracks, [media |-> media.media, port |-> media.port, ip |-> remoteIp,
                                    pt |-> l.pt, codec |-> CHOOSE c \in CodecOf(l) : TRUE])
  /\ UNCHANGED <<media, curDir, remoteIp>>

ReadLine(l) ==
  /\ stage = "parsing" /\ version
  /\ Len(lines) < MaxLines
  /\ lines' = Append(lines, l)
  /\ ReadAddress(l) \/ ReadMedia(l) \/ ReadDirection(l) \/ ReadRtpmap(l)
  /\ UNCHANGED <<stage, version, chosenVars, answerVars, reportVars>>

\* A defect: a later track of the same codec is taken.
OutranksEqual(t, best) ==
  \/ t.codec = "H264"
  \/ t.codec = "H265" /\ best.codec # "H264"

\* resolveTrack(): when a video track replaces the best one so far.
Outranks(t, best) ==
  \/ t.codec = "H264" /\ best.codec # "H264"
  \/ t.codec = "H265" /\ best.codec \notin {"H264", "H265"}

\* The loop over the video tracks: the one chosen after the last, or 0.
BestVideo ==
  LET best[i \in 0..Len(tracks)] ==
        IF i = 0 THEN 0
        ELSE LET b == best[i - 1]
             IN  IF tracks[i].media = "video" /\ (b = 0 \/ Outranks(tracks[i], tracks[b]))
                 THEN i ELSE b
  IN  best[Len(tracks)]

Audios == {i \in 1..Len(tracks) : tracks[i].media = "audio" /\ tracks[i].codec = "PCMA"}

\* A defect: without a video track there is none.
SelectedVideo == IF BestVideo # 0 THEN <<tracks[BestVideo]>> ELSE <<>>

Selected ==
  IF BestVideo # 0 THEN <<tracks[BestVideo]>>
  ELSE IF Audios # {} THEN <<tracks[Min(Audios)]>> ELSE <<>>

\* A defect: any track will do, whether resolveTrack() selects it or not.
EndOfferAny ==
  /\ stage = "parsing" /\ version
  /\ mode' = media.mode
  /\ direction' = curDir
  /\ track' = Selected
  /\ stage' = IF tracks = <<>> THEN "refused" ELSE "created"
  /\ UNCHANGED <<offerVars, answerVars, reportVars>>

\* The end of the offer: transport and direction are those of its last section,
\* whichever track is selected. Without a track the offer is refused.
EndOffer ==
  /\ stage = "parsing" /\ version
  /\ mode' = media.mode
  /\ direction' = curDir
  /\ track' = Selected
  /\ stage' = IF Selected = <<>> THEN "refused" ELSE "created"
  /\ UNCHANGED <<offerVars, answerVars, reportVars>>

-----------------------------------------------------------------------------
(* The answer, and the started session.                                    *)

\* The direction of the answer is turned round from the client's own.
AnswerDirection ==
  CASE direction = "SENDONLY" -> "recvonly"
    [] direction = "RECVONLY" -> "sendonly"
    [] direction = "SENDRECV" -> "sendrecv"

AnswerTo(p) ==
  [media |-> track[1].media, port |-> p, mode |-> mode, pt |-> track[1].pt,
   codec |-> track[1].codec, dir |-> AnswerDirection]

\* A defect: the port is noted before the answer that exists is returned.
MakeAnswerSdpAgain(p) ==
  /\ stage \in {"created", "answered", "started"}
  /\ localPort' = p
  /\ IF answer = <<>> THEN answer' = <<AnswerTo(p)>> /\ stage' = "answered"
                      ELSE UNCHANGED <<answer, stage>>
  /\ UNCHANGED <<offerVars, chosenVars, reportVars>>

\* makeAnswerSdp(): the answer is made once.
MakeAnswerSdp(p) ==
  /\ stage \in {"created", "answered", "started"}
  /\ IF answer = <<>>
     THEN answer' = <<AnswerTo(p)>> /\ localPort' = p /\ stage' = "answered"
     ELSE UNCHANGED <<answer, localPort, stage>>
  /\ UNCHANGED <<offerVars, chosenVars, reportVars>>

\* onStart(), which throws before the answer and on a second call.
OnStart ==
  /\ stage = "answered"
  /\ stage' = "started"
  /\ UNCHANGED <<offerVars, chosenVars, answerVars, reportVars>>

\* onRecv() of a compound, or of its first words. On TCP what is read begins with
\* a length of two bytes, which is not the start of a packet.
OnRecvRtcp(heard) ==
  /\ stage = "started"
  /\ mode = "UDP"
  /\ blocks' = Latest(heard.stored, blocks)
  /\ reported' = Latest(heard.sent, reported)
  /\ UNCHANGED <<stage, offerVars, chosenVars, answerVars>>

-----------------------------------------------------------------------------

Next ==
  \/ FindVersion
  \/ RefuseVersion
  \/ \E l \in Lines(Section + 1) : ReadLine(l)
  \/ EndOffer
  \/ \E p \in LocalPorts : MakeAnswerSdp(p)
  \/ OnStart
  \/ \E heard \in Heard : OnRecvRtcp(heard)

Spec == Init /\ [][Next]_vars

-----------------------------------------------------------------------------
(* Properties.                                                             *)

\* The m= line in whose section line j of the offer stands.
SectionOf(j) ==
  LET before == {i \in 1..j : lines[i].k = "m"}
      m == lines[Max(before)]
  IN  IF before = {} THEN NoMedia ELSE [media |-> m.media, port |-> m.port, mode |-> m.mode]

Offers(m, c) ==
  {j \in 1..Len(lines) :
     lines[j].k = "rtpmap" /\ c \in CodecOf(lines[j]) /\ SectionOf(j).media = m}

\* "H264 > H265, PCMA" (RtpSession.cpp:95): of all tracks of the offer, in any
\* order and any number of sections, the first of the best codec is selected, video
\* before audio.
TrackPreferred ==
  track # <<>> =>
    LET best == IF Offers("video", "H264") # {} THEN Offers("video", "H264")
                ELSE IF Offers("video", "H265") # {} THEN Offers("video", "H265")
                ELSE IF Offers("video", "PCMA") # {} THEN Offers("video", "PCMA")
                ELSE Offers("audio", "PCMA")
        j == Min(best)
    IN  /\ best # {}
        /\ track[1].media = SectionOf(j).media /\ track[1].port = SectionOf(j).port
        /\ track[1].pt = lines[j].pt /\ track[1].codec \in CodecOf(lines[j])

\* An offer is refused if and only if it has no "v=0" or, from there on, no section
\* with a codec the session knows: PCMA as audio, or any of them as video
\* (RtpSession.cpp:101-109, 274).
RefusedOnlyUnknown ==
  stage # "parsing" =>
    (stage = "refused" <=>
       \/ ~version
       \/ Offers("audio", "PCMA") = {} /\ \A c \in Codecs : Offers("video", c) = {})

\* What the peer was answered is what the session does: it binds the port of its
\* answer and uses the transport and payload type it answered with, however often
\* makeAnswerSdp() is called (RtpSession.cpp:391).
AnswerDescribesSession ==
  stage \in {"answered", "started"} =>
    /\ answer # <<>> /\ answer[1].port = localPort
    /\ answer[1].mode = mode /\ answer[1].pt = track[1].pt

\* The blocks kept are those of the last report received completely, whatever was
\* in the compound before and after it (RtcpContext.cpp:195).
LastReportKept == blocks = reported

=============================================================================
