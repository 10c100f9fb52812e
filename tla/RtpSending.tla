----------------------------- MODULE RtpSending -----------------------------
(***************************************************************************)
(* The sending side of sipB::RtpSession with its packetizer                *)
(* (rtp::RtpContext) and its report counters (rtp::RtcpContext).           *)
(*                                                                         *)
(* Two threads use a session without a lock.  The application's thread     *)
(* inputs frames: it sends a sender report (SR) if one is due, then cuts   *)
(* the frame into packets and sends each.  The poller's thread runs the    *)
(* callback of a TCP connection, which sends the first SR.  Every call of  *)
(* Socket::send() is one step; so is every access to a counter or time     *)
(* the threads share.                                                      *)
(*                                                                         *)
(* What is accepted by a socket is sent to the peer in that order; a       *)
(* socket that is not connected loses what it is given (the least it can   *)
(* do).  Lengths are in bytes, with MAX_PAYLOAD as a constant.             *)
(***************************************************************************)
EXTENDS Integers, Sequences, SequencesExt

CONSTANTS
  MaxPayload,   \* MAX_PAYLOAD, 1400
  SeqSpace,     \* 2^16
  FirstSeq,     \* the sequence number of the session's first packet, 1
  SrInterval,   \* 5000 ms
  Lengths,      \* the lengths of the frames the application inputs
  MaxFrames,    \* bound: frames input
  MaxClock      \* bound: the latest time

Codecs == {"H264", "H265", "PCMA"}
StartCodes == {0, 3, 4}

ASSUME SendingAssumption ==
  /\ MaxPayload \in Nat /\ MaxPayload > 3
  /\ SeqSpace \in Nat \ {0}
  /\ FirstSeq \in 0..(SeqSpace - 1)
  /\ SrInterval \in Nat \ {0}
  /\ Lengths \subseteq Nat
  /\ MaxFrames \in Nat
  /\ MaxClock \in Nat

VARIABLES
  mode,       \* _mode
  codec,      \* the codec of the selected track
  link,       \* the socket: "connecting", "open" or "failed"
  clock,      \* getCurrentMillisecond()
  app,        \* where the application's thread is
  appNow,     \* checkSendSr's now
  poller,     \* where the poller's thread is
  lastSr,     \* _last_sr_time_ms
  frames,     \* the frames input
  nalu,       \* the length of the frame without its start code
  off,        \* how much of its payload has been cut off
  pkts,       \* the packets of the frame given to the socket
  seq,        \* _seq
  count,      \* _packet_count and _octet_count
  sr,         \* per thread, the counts in the SR it built last
  handed,     \* what count counts, at the moment it happens
  began,      \* what was sent for good when the poller began to build its SR
  srAt,       \* the time an SR was last given to the socket
  held,       \* how long the poller has stood between its SR and noting the time
  wire        \* how far the peer can follow the TCP stream

timeVars == <<lastSr, appNow, srAt, held>>
packetVars == <<frames, nalu, off, pkts, seq, count, handed>>
trackVars == <<mode, codec>>
reportVars == <<sr, began>>
vars == <<trackVars, link, clock, app, poller, timeVars, packetVars, reportVars, wire>>

AppStates == {"idle", "test", "prefix", "body", "stamp", "cut", "count"}
PollerStates ==
  {"wait", "connected", "packets", "octets", "prefix", "body", "stamp", "ready"}
Threads == {"app", "poller"}
Counts == [packets : Nat, octets : Nat]
PacketRecords ==
  [seq : 0..(SeqSpace - 1), marker : BOOLEAN, start : BOOLEAN, end : BOOLEAN,
   from : Nat, to : Nat, size : Nat]

TypeOK ==
  /\ mode \in {"UDP", "TCP"} /\ codec \in Codecs
  /\ link \in {"connecting", "open", "failed"}
  /\ clock \in Nat /\ appNow \in Nat /\ lastSr \in Nat /\ srAt \in Nat
  /\ held \in Nat
  /\ app \in AppStates
  /\ poller \in PollerStates
  /\ frames \in 0..MaxFrames
  /\ nalu \in Nat /\ off \in Nat
  /\ pkts \in Seq(PacketRecords)
  /\ seq \in 0..(SeqSpace - 1)
  /\ count \in Counts /\ handed \in Counts /\ began \in Counts
  /\ sr \in [Threads -> Counts]
  /\ wire \in {"clean", "split", "broken", "headless"}

NoCounts == [packets |-> 0, octets |-> 0]

\* onStart() on a session whose answer has been made, at any time since the start of
\* the program, which is when its clock starts. A UDP socket that could not be bound
\* has failed.
Init ==
  /\ \/ mode = "TCP" /\ link = "connecting"
     \/ mode = "UDP" /\ link \in {"open", "failed"}
  /\ codec \in Codecs
  /\ poller = IF mode = "TCP" THEN "wait" ELSE "ready"
  /\ clock \in 0..MaxClock
  /\ appNow = 0 /\ lastSr = 0 /\ srAt = 0 /\ held = 0
  /\ app = "idle"
  /\ frames = 0 /\ nalu = 0 /\ off = 0
  /\ pkts = <<>>
  /\ seq = FirstSeq
  /\ count = NoCounts /\ handed = NoCounts /\ began = NoCounts
  /\ sr = [t \in Threads |-> NoCounts]
  /\ wire = "clean"

-----------------------------------------------------------------------------
(* The environment.                                                        *)

\* Nothing holds up the clock, wherever the threads are.
Tick ==
  /\ clock < MaxClock
  /\ clock' = clock + 1
  /\ held' = IF poller = "stamp" THEN held + 1 ELSE held
  /\ UNCHANGED <<trackVars, link, app, poller, lastSr, appNow, srAt, packetVars, reportVars,
                 wire>>

\* The socket is connected, or fails, before the callback of connect() runs.
Connect ==
  /\ link = "connecting"
  /\ \/ link' = "open" /\ poller' = "connected"
     \/ link' = "failed" /\ UNCHANGED poller
  /\ UNCHANGED <<trackVars, clock, app, timeVars, packetVars, reportVars, wire>>

\* Socket::send() of the three things a session sends. The peer reads a length of
\* two bytes and then as many bytes. "split" is a length without its report so far,
\* "broken" one that something else follows; "headless" is a report whose length the
\* socket lost, before it was connected.
Follow(chunk) ==
  CASE wire = "clean" /\ chunk = "prefix" -> "split"
    [] wire = "clean" /\ chunk = "report" -> "headless"
    [] wire = "split" -> IF chunk = "report" THEN "clean" ELSE "broken"
    [] OTHER -> wire

Send(chunk) ==
  wire' = IF mode = "TCP" /\ link = "open" THEN Follow(chunk) ELSE wire

-----------------------------------------------------------------------------
(* Sender reports: sendRtcpSr() on either thread.                          *)

\* What the next packet of the frame adds to the counters.
Counted == [packets |-> count.packets + 1, octets |-> count.octets + Last(pkts).size]

\* buildSr() on the application's thread, which alone writes the counters.
BuildSr == sr' = [sr EXCEPT !["app"] = count]

\* The report itself, after its prefix.
SendSrBody == Send("report") /\ srAt' = clock

\* checkSendSr(): only TCP sends reports. The difference is unsigned, so that a
\* time noted by the other thread in between looks like a long time ago.
Due == appNow < lastSr \/ appNow - lastSr >= SrInterval

\* A defect: the report is due one interval and a moment later.
CheckSendSrLate ==
  /\ app = "test"
  /\ IF mode = "TCP" /\ appNow - lastSr > SrInterval
     THEN app' = "prefix" /\ BuildSr
     ELSE app' = "cut" /\ UNCHANGED sr
  /\ UNCHANGED <<trackVars, link, clock, poller, timeVars, packetVars, began, wire>>

CheckSendSr ==
  /\ app = "test"
  /\ IF mode = "TCP" /\ Due
     THEN app' = "prefix" /\ BuildSr
     ELSE app' = "cut" /\ UNCHANGED sr
  /\ UNCHANGED <<trackVars, link, clock, poller, timeVars, packetVars, began, wire>>

AppPrefix ==
  /\ app = "prefix"
  /\ Send("prefix")
  /\ app' = "body"
  /\ UNCHANGED <<trackVars, link, clock, poller, timeVars, packetVars, reportVars>>

AppBody ==
  /\ app = "body"
  /\ SendSrBody
  /\ app' = "stamp"
  /\ UNCHANGED <<trackVars, link, clock, poller, lastSr, appNow, held, packetVars, reportVars>>

AppStamp ==
  /\ app = "stamp"
  /\ lastSr' = appNow
  /\ app' = "cut"
  /\ UNCHANGED <<trackVars, link, clock, poller, appNow, srAt, held, packetVars, reportVars, wire>>

\* The callback of connect().
\* It begins to build the report with whichever counter it reads first.
Begin ==
  began' = IF poller # "connected" THEN began
           ELSE IF app = "count"
           THEN [packets |-> handed.packets - 1, octets |-> handed.octets - Last(pkts).size]
           ELSE handed

\* A counter may be read before or after the application's thread, which is inside
\* onSendRtp(), has written it.
Readable == IF app = "count" THEN {count, Counted} ELSE {count}

\* buildSr() on the poller's thread reads the two counters one by one, without a
\* lock, and in either order.
PollerPackets ==
  /\ poller \in {"connected", "octets"}
  /\ \E c \in Readable : sr' = [sr EXCEPT !["poller"].packets = c.packets]
  /\ Begin
  /\ poller' = IF poller = "connected" THEN "packets" ELSE "prefix"
  /\ UNCHANGED <<trackVars, link, clock, app, timeVars, packetVars, wire>>

PollerOctets ==
  /\ poller \in {"connected", "packets"}
  /\ \E c \in Readable : sr' = [sr EXCEPT !["poller"].octets = c.octets]
  /\ Begin
  /\ poller' = IF poller = "connected" THEN "octets" ELSE "prefix"
  /\ UNCHANGED <<trackVars, link, clock, app, timeVars, packetVars, wire>>

PollerPrefix ==
  /\ poller = "prefix"
  /\ Send("prefix")
  /\ poller' = "body"
  /\ UNCHANGED <<trackVars, link, clock, app, timeVars, packetVars, reportVars>>

PollerBody ==
  /\ poller = "body"
  /\ SendSrBody
  /\ poller' = "stamp"
  /\ UNCHANGED <<trackVars, link, clock, app, lastSr, appNow, held, packetVars, reportVars>>

PollerStamp ==
  /\ poller = "stamp"
  /\ lastSr' = clock
  /\ poller' = "ready"
  /\ UNCHANGED <<trackVars, link, clock, app, appNow, srAt, held, packetVars, reportVars, wire>>

-----------------------------------------------------------------------------
(* Frames: inputH264(), inputH265() and inputPCMA().                       *)

\* The start code of a frame is skipped, in a frame of 4 bytes at least.
Input(code, len) ==
  /\ app = "idle"
  /\ frames < MaxFrames
  /\ code # 0 => codec # "PCMA" /\ len >= 4
  /\ frames' = frames + 1
  /\ appNow' = clock
  /\ nalu' = len - code
  /\ off' = 0
  /\ pkts' = <<>>
  /\ app' = "test"
  /\ UNCHANGED <<trackVars, link, clock, poller, lastSr, srAt, held, seq, count, handed,
                 reportVars, wire>>

Smallest == IF codec = "H265" THEN 2 ELSE 1

\* A frame of one packet: audio has no limit.
Fits == codec = "PCMA" \/ nalu <= MaxPayload

WholeFrame ==
  [seq |-> seq, marker |-> TRUE, start |-> TRUE, end |-> TRUE,
   from |-> 0, to |-> nalu, size |-> nalu]

\* The header of a NALU, and what a fragment has instead of it.
NaluHeader == IF codec = "H264" THEN 1 ELSE 2
FragmentHeader == NaluHeader + 1

\* A defect: a fragment is as long as a whole packet may be.
FragmentUncut ==
  LET rest == nalu - NaluHeader - off
      frag == Min({MaxPayload, rest})
  IN  [seq |-> seq, marker |-> frag = rest, start |-> off = 0, end |-> frag = rest,
       from |-> NaluHeader + off, to |-> NaluHeader + off + frag,
       size |-> FragmentHeader + frag]

\* The next fragment; from and to are the bytes of the NALU it carries.
Fragment ==
  LET rest == nalu - NaluHeader - off
      frag == Min({MaxPayload - FragmentHeader, rest})
  IN  [seq |-> seq, marker |-> frag = rest, start |-> off = 0, end |-> frag = rest,
       from |-> NaluHeader + off, to |-> NaluHeader + off + frag,
       size |-> FragmentHeader + frag]

NextPacket == IF Fits THEN WholeFrame ELSE Fragment

\* A defect: the number is wider than 16 bits.
NextSeqWide == seq + 1

NextSeq == (seq + 1) % SeqSpace

TooShort ==
  /\ app = "cut" /\ nalu < Smallest
  /\ app' = "idle"
  /\ UNCHANGED <<trackVars, link, clock, poller, timeVars, packetVars, reportVars, wire>>

\* writeRtpHeader() and the callback, which sends.
Cut ==
  /\ app = "cut" /\ nalu >= Smallest
  /\ pkts' = Append(pkts, NextPacket)
  /\ seq' = NextSeq
  /\ handed' = [packets |-> handed.packets + 1, octets |-> handed.octets + NextPacket.size]
  /\ Send("packet")
  /\ app' = "count"
  /\ UNCHANGED <<trackVars, link, clock, poller, timeVars, frames, nalu, off, count, reportVars>>

\* A defect: a frame is counted once, with its last packet.
CountFrame ==
  /\ app = "count"
  /\ count' = IF Last(pkts).end THEN Counted ELSE count
  /\ off' = off + Last(pkts).to - Last(pkts).from
  /\ app' = IF Last(pkts).end THEN "idle" ELSE "cut"
  /\ UNCHANGED <<trackVars, link, clock, poller, timeVars, frames, nalu, pkts, seq, handed,
                 reportVars, wire>>

\* onSendRtp(), and on to the rest of the frame.
Count ==
  /\ app = "count"
  /\ count' = Counted
  /\ off' = off + Last(pkts).to - Last(pkts).from
  /\ app' = IF Last(pkts).end THEN "idle" ELSE "cut"
  /\ UNCHANGED <<trackVars, link, clock, poller, timeVars, frames, nalu, pkts, seq, handed,
                 reportVars, wire>>

-----------------------------------------------------------------------------

Application ==
  \/ \E code \in StartCodes, len \in Lengths : Input(code, len)
  \/ CheckSendSr \/ AppPrefix \/ AppBody \/ AppStamp
  \/ TooShort \/ Cut \/ Count

Poller == PollerPackets \/ PollerOctets \/ PollerPrefix \/ PollerBody \/ PollerStamp

Next == Tick \/ Connect \/ Application \/ Poller

Spec == Init /\ [][Next]_vars

-----------------------------------------------------------------------------
(* Properties.                                                             *)

\* The receiver can put a frame together again (RtpContext.cpp:49, 116): its
\* packets carry all of it, in order and without a gap, none is empty or larger
\* than MAX_PAYLOAD, and the marker and the start and end flags are on the first
\* and the last only.
FramesReassemble ==
  /\ \A i \in 1..Len(pkts) :
       /\ pkts[i].from < pkts[i].to
       /\ codec # "PCMA" => pkts[i].size <= MaxPayload
       /\ pkts[i].start <=> i = 1
       /\ pkts[i].marker <=> pkts[i].end
       /\ i > 1 => /\ pkts[i].from = pkts[i - 1].to
                   /\ pkts[i].seq = (pkts[i - 1].seq + 1) % SeqSpace
                   /\ ~pkts[i - 1].end
  /\ app = "idle" /\ pkts # <<>> =>
       /\ Last(pkts).end /\ Last(pkts).to = nalu
       /\ pkts[1].from = IF Len(pkts) = 1 THEN 0 ELSE NaluHeader

\* A sender report tells what was given to the socket (RtcpContext.cpp:246): exactly
\* that, if the application built it, which sends no packet before the report. If the
\* connection's callback built it, each counter is one of a moment while it did so, but
\* for the packet being sent, and they may be of two moments: every packet sent for
\* good before is in both, and none is in either that was not sent.
ReportsHonest ==
  /\ app \in {"prefix", "body"} => sr["app"] = handed
  /\ poller \in {"prefix", "body"} =>
       /\ began.packets <= sr["poller"].packets /\ sr["poller"].packets <= handed.packets
       /\ began.octets <= sr["poller"].octets /\ sr["poller"].octets <= handed.octets

\* On TCP no packet is sent by an application whose last report, whichever thread sent
\* it, is older than the interval when its frame is input (RtpSession.cpp:181). Two
\* things may make it older: the start of the program counts as a report, so that a
\* frame input in its first interval needs none; and the report of the connection's
\* callback is as old as the callback takes from sending it to noting the time
\* (RtpSession.cpp:57-58).
ReportRecent ==
  mode = "TCP" /\ app \in {"cut", "count"} => appNow - srAt < SrInterval + held

-----------------------------------------------------------------------------
(* What a comment of the source claims and the code does not do.           *)

\* "TCP: a length prefix of two bytes in front" (RtpSession.cpp:165) of a report: what
\* follows a prefix on the stream is a report.
StreamFramed == wire # "broken"

=============================================================================
