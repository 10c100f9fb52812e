--------------------------- MODULE RtpSendingProofs ---------------------------
(***************************************************************************)
(* Proofs about RtpSending for every value of its constants: the type      *)
(* invariant, that the packets of a frame can be put together again, and   *)
(* that sender reports are honest and recent.                              *)
(***************************************************************************)
EXTENDS RtpSending, TLAPS

\* The first conjunct of FramesReassemble.
PacketsFollow ==
  \A i \in 1..Len(pkts) :
    /\ pkts[i].from < pkts[i].to
    /\ codec # "PCMA" => pkts[i].size <= MaxPayload
    /\ pkts[i].start <=> i = 1
    /\ pkts[i].marker <=> pkts[i].end
    /\ i > 1 => /\ pkts[i].from = pkts[i - 1].to
                /\ pkts[i].seq = (pkts[i - 1].seq + 1) % SeqSpace
                /\ ~pkts[i - 1].end

\* Where the frame stands: before the first packet, between two fragments, after a
\* packet that is not counted yet, and at the end.
FrameInv ==
  /\ app \in {"test", "prefix", "body", "stamp"} => pkts = <<>> /\ off = 0
  /\ app = "cut" /\ pkts = <<>> => off = 0
  /\ app = "cut" /\ pkts # <<>> =>
       /\ ~Fits /\ nalu >= Smallest
       /\ ~pkts[Len(pkts)].end
       /\ pkts[Len(pkts)].to = NaluHeader + off
       /\ off > 0 /\ off < nalu - NaluHeader
  /\ app = "count" =>
       /\ pkts # <<>> /\ nalu >= Smallest
       /\ Fits => /\ Len(pkts) = 1
                  /\ pkts[1].from = 0 /\ pkts[1].to = nalu /\ pkts[1].end
       /\ ~Fits => /\ pkts[Len(pkts)].from = NaluHeader + off
                   /\ pkts[Len(pkts)].to <= nalu
                   /\ pkts[Len(pkts)].end <=> pkts[Len(pkts)].to = nalu
                   /\ pkts[Len(pkts)].end => Len(pkts) > 1
  /\ app \in {"cut", "count"} /\ pkts # <<>> =>
       /\ seq = (pkts[Len(pkts)].seq + 1) % SeqSpace
       /\ ~Fits => pkts[1].from = NaluHeader
  /\ app = "idle" /\ pkts # <<>> =>
       /\ pkts[Len(pkts)].end /\ pkts[Len(pkts)].to = nalu
       /\ pkts[1].from = IF Len(pkts) = 1 THEN 0 ELSE NaluHeader

\* A packet is counted after it is handed to the socket.
CountInv == handed = IF app = "count" THEN Counted ELSE count

\* The counters never fall behind what was sent for good when the poller began; what
\* it has read of them lies between that and what has been sent by now.
ReportInv ==
  /\ app \in {"prefix", "body"} => sr["app"] = handed
  /\ poller \in {"packets", "octets", "prefix", "body"} =>
       began.packets <= count.packets /\ began.octets <= count.octets
  /\ poller \in {"packets", "prefix", "body"} =>
       began.packets <= sr["poller"].packets /\ sr["poller"].packets <= handed.packets
  /\ poller \in {"octets", "prefix", "body"} =>
       began.octets <= sr["poller"].octets /\ sr["poller"].octets <= handed.octets

\* The application notes a time before that of its report, the connection's callback
\* one that is later by what it was held up.
TimeInv ==
  /\ lastSr <= srAt + held /\ srAt <= clock /\ appNow <= clock
  /\ poller = "stamp" => clock <= srAt + held
  /\ app = "stamp" => appNow <= srAt
  /\ ReportRecent

IInv == TypeOK /\ PacketsFollow /\ FrameInv /\ CountInv /\ ReportInv /\ TimeInv

-----------------------------------------------------------------------------
(* Lemmas.                                                                 *)

\* The smaller of two numbers.
LEMMA MinOfTwo ==
  ASSUME NEW a \in Int, NEW b \in Int
  PROVE  Min({a, b}) = IF a <= b THEN a ELSE b
<1>1. PICK m \in {a, b} : \A y \in {a, b} : m <= y
  OBVIOUS
<1>2. Min({a, b}) \in {a, b} /\ \A y \in {a, b} : Min({a, b}) <= y
  BY <1>1 DEF Min
<1>3. QED
  BY <1>2

\* Headers are small, so that a fragment carries at least a byte.
LEMMA Headers ==
  /\ NaluHeader \in 1..2 /\ FragmentHeader \in 2..3 /\ Smallest \in 1..2
  /\ FragmentHeader = NaluHeader + 1
  /\ MaxPayload \in Nat /\ MaxPayload > FragmentHeader
BY SendingAssumption DEF NaluHeader, FragmentHeader, Smallest

\* The packet that follows is a part of the frame that starts where the last ended.
LEMMA NextPacketFollows ==
  ASSUME IInv, app = "cut", nalu >= Smallest
  PROVE  /\ NextPacket \in PacketRecords
         /\ NextPacket.seq = seq
         /\ NextPacket.from < NextPacket.to /\ NextPacket.to <= nalu
         /\ codec # "PCMA" => NextPacket.size <= MaxPayload
         /\ NextPacket.start <=> pkts = <<>>
         /\ NextPacket.marker <=> NextPacket.end
         /\ NextPacket.end <=> NextPacket.to = nalu
         /\ Fits => NextPacket.from = 0 /\ NextPacket.to = nalu
         /\ ~Fits => /\ NextPacket.from = NaluHeader + off
                     /\ NextPacket.end => off # 0
<1>1. /\ nalu \in Nat /\ off \in Nat /\ seq \in 0..(SeqSpace - 1)
  BY DEF IInv, TypeOK
<1>2. pkts = <<>> <=> off = 0
  BY DEF IInv, FrameInv
<1>3. CASE Fits
  <2>1. pkts = <<>>
    BY <1>3 DEF IInv, FrameInv
  <2>2. NextPacket = WholeFrame
    BY <1>3 DEF NextPacket
  <2>3. QED
    BY <1>1, <1>3, <2>1, <2>2, Headers DEF WholeFrame, PacketRecords, Fits
<1>4. CASE ~Fits
  <2> DEFINE rest == nalu - NaluHeader - off
             frag == Min({MaxPayload - FragmentHeader, rest})
  <2>1. nalu > MaxPayload
    BY <1>1, <1>4, Headers DEF Fits
  <2>2. rest \in Nat \ {0}
    <3>1. CASE pkts = <<>>
      BY <1>1, <1>2, <2>1, <3>1, Headers
    <3>2. CASE pkts # <<>>
      BY <1>1, <3>2, Headers DEF IInv, FrameInv
    <3>3. QED
      BY <3>1, <3>2
  <2>3. frag = IF MaxPayload - FragmentHeader <= rest THEN MaxPayload - FragmentHeader ELSE rest
    BY <2>2, Headers, MinOfTwo
  <2>4. /\ frag \in 1..rest /\ FragmentHeader + frag <= MaxPayload
        /\ pkts = <<>> => frag # rest
    BY <1>1, <1>2, <2>1, <2>2, <2>3, Headers
  <2>5. NextPacket = [seq |-> seq, marker |-> frag = rest, start |-> off = 0, end |-> frag = rest,
                      from |-> NaluHeader + off, to |-> NaluHeader + off + frag,
                      size |-> FragmentHeader + frag]
    BY <1>4 DEF NextPacket, Fragment
  <2> HIDE DEF rest, frag
  <2>6. rest = nalu - NaluHeader - off
    BY DEF rest
  <2>7. frag \in Nat /\ rest \in Nat /\ NaluHeader \in Nat /\ FragmentHeader \in Nat
    BY <2>2, <2>4, Headers
  <2>8. NextPacket \in PacketRecords
    BY <1>1, <2>5, <2>7 DEF PacketRecords
  <2>9. /\ NextPacket.seq = seq /\ NextPacket.start = (off = 0)
        /\ NextPacket.marker = (frag = rest) /\ NextPacket.end = (frag = rest)
        /\ NextPacket.from = NaluHeader + off /\ NextPacket.to = NaluHeader + off + frag
        /\ NextPacket.size = FragmentHeader + frag
    BY <2>5
  <2>10. /\ NextPacket.from < NextPacket.to /\ NextPacket.to <= nalu
         /\ NextPacket.size <= MaxPayload
         /\ frag = rest <=> NextPacket.to = nalu
    BY <1>1, <2>2, <2>4, <2>6, <2>7, <2>9
  <2>11. NextPacket.start <=> pkts = <<>>
    BY <1>2, <2>9
  <2>12. /\ NextPacket.marker <=> NextPacket.end
         /\ NextPacket.end <=> NextPacket.to = nalu
    BY <2>9, <2>10
  <2>13. NextPacket.end => off # 0
    BY <1>2, <2>4, <2>9
  <2>14. QED
    BY <1>4, <2>8, <2>9, <2>10, <2>11, <2>12, <2>13
<1>5. QED
  BY <1>3, <1>4

-----------------------------------------------------------------------------
(* The invariant is inductive.                                             *)

LEMMA InitInv == Init => IInv
<1> SUFFICES ASSUME Init PROVE IInv
  OBVIOUS
<1>1. TypeOK
  BY SendingAssumption DEF Init, TypeOK, NoCounts, Counts, Threads, AppStates, PollerStates
<1>2. PacketsFollow /\ FrameInv /\ CountInv /\ ReportInv
  BY DEF Init, PacketsFollow, FrameInv, CountInv, ReportInv
<1>3. TimeInv
  BY SendingAssumption DEF Init, TimeInv, ReportRecent
<1>4. QED
  BY <1>1, <1>2, <1>3 DEF IInv

\* A report on either thread, a connection and the clock: no packet, no count.
Quiet ==
  \/ Tick \/ Connect \/ Poller
  \/ CheckSendSr \/ AppPrefix \/ AppBody \/ AppStamp

\* What was handed over is what is counted, and the packet being sent.
LEMMA HandedCounted ==
  ASSUME IInv
  PROVE  /\ count \in Counts /\ handed \in Counts /\ began \in Counts
         /\ app # "count" => handed = count
         /\ app = "count" =>
              /\ Counted = handed /\ Last(pkts).size \in Nat
              /\ handed.packets = count.packets + 1
              /\ handed.octets = count.octets + Last(pkts).size
<1>1. count \in Counts /\ handed \in Counts /\ began \in Counts
  BY DEF IInv, TypeOK
<1>2. CASE app = "count"
  <2>1. pkts # <<>> /\ pkts \in Seq(PacketRecords)
    BY <1>2 DEF IInv, TypeOK, FrameInv
  <2>2. Last(pkts) \in PacketRecords
    BY <2>1 DEF Last
  <2>3. Last(pkts).size \in Nat
    BY <2>2 DEF PacketRecords
  <2>4. QED
    BY <1>1, <1>2, <2>3 DEF IInv, CountInv, Counted
<1>3. QED
  BY <1>1, <1>2 DEF IInv, CountInv

\* Both counters, whenever the poller reads them, are between what was counted and what
\* was handed over; what it takes for sent when it begins is what was counted.
LEMMA ReadableCounts ==
  ASSUME IInv, NEW c \in Readable
  PROVE  /\ c \in Counts
         /\ count.packets <= c.packets /\ c.packets <= handed.packets
         /\ count.octets <= c.octets /\ c.octets <= handed.octets
<1>1. c = count \/ (app = "count" /\ c = handed)
  BY HandedCounted DEF Readable
<1>2. QED
  BY <1>1, HandedCounted DEF Counts

LEMMA BeginCounts ==
  ASSUME IInv, Begin
  PROVE  /\ began' \in Counts
         /\ poller = "connected" => began' = count
         /\ poller # "connected" => began' = began
<1>1. CASE poller # "connected"
  BY <1>1, HandedCounted DEF Begin
<1>2. CASE poller = "connected"
  <2>1. CASE app = "count"
    <3>1. began' = [packets |-> handed.packets - 1, octets |-> handed.octets - Last(pkts).size]
      BY <1>2, <2>1 DEF Begin
    <3>2. began' = [packets |-> count.packets, octets |-> count.octets]
      BY <2>1, <3>1, HandedCounted DEF Counts
    <3>3. QED
      BY <1>2, <3>2, HandedCounted DEF Counts
  <2>2. CASE app # "count"
    BY <1>2, <2>2, HandedCounted DEF Begin
  <2>3. QED
    BY <2>1, <2>2
<1>3. QED
  BY <1>1, <1>2

LEMMA QuietTypes == IInv /\ Quiet => TypeOK'
<1> SUFFICES ASSUME IInv, Quiet PROVE TypeOK'
  OBVIOUS
<1> USE DEF timeVars, packetVars, trackVars, reportVars
<1>1. TypeOK
  BY DEF IInv
<1>2. BuildSr => sr' \in [Threads -> Counts]
  BY <1>1 DEF BuildSr, TypeOK
<1>3. ASSUME NEW chunk, Send(chunk) PROVE wire' \in {"clean", "split", "broken", "headless"}
  BY <1>1, <1>3 DEF Send, Follow, TypeOK
<1>4. CASE Tick
  BY <1>1, <1>4 DEF Tick, TypeOK
<1>5. CASE Connect
  BY <1>1, <1>5 DEF Connect, TypeOK, PollerStates
<1>6. CASE CheckSendSr
  BY <1>1, <1>2, <1>6 DEF CheckSendSr, TypeOK, AppStates, Threads
<1>7. CASE AppPrefix
  BY <1>1, <1>3, <1>7 DEF AppPrefix, TypeOK, AppStates
<1>8. CASE AppBody
  BY <1>1, <1>3, <1>8 DEF AppBody, SendSrBody, TypeOK, AppStates
<1>9. CASE AppStamp
  BY <1>1, <1>9 DEF AppStamp, TypeOK, AppStates
<1>10. ASSUME PollerPackets \/ PollerOctets PROVE TypeOK'
  <2>1. sr' \in [Threads -> Counts]
    <3>1. PICK c \in Counts : \/ sr' = [sr EXCEPT !["poller"].packets = c.packets]
                              \/ sr' = [sr EXCEPT !["poller"].octets = c.octets]
      BY <1>10, ReadableCounts DEF PollerPackets, PollerOctets
    <3>2. /\ c.packets \in Nat /\ c.octets \in Nat
          /\ sr \in [Threads -> Counts] /\ sr["poller"] \in Counts
      BY <1>1 DEF TypeOK, Threads, Counts
    <3>3. /\ [sr["poller"] EXCEPT !.packets = c.packets] \in Counts
          /\ [sr["poller"] EXCEPT !.octets = c.octets] \in Counts
      BY <3>2 DEF Counts
    <3>4. QED
      BY <3>1, <3>2, <3>3
  <2>2. began' \in Counts
    BY <1>10, BeginCounts DEF PollerPackets, PollerOctets
  <2>3. QED
    BY <1>1, <1>10, <2>1, <2>2 DEF PollerPackets, PollerOctets, TypeOK, PollerStates
<1>11. CASE PollerPrefix
  BY <1>1, <1>3, <1>11 DEF PollerPrefix, TypeOK, PollerStates
<1>12. CASE PollerBody
  BY <1>1, <1>3, <1>12 DEF PollerBody, SendSrBody, TypeOK, PollerStates
<1>13. CASE PollerStamp
  BY <1>1, <1>13 DEF PollerStamp, TypeOK, PollerStates
<1>14. QED
  BY <1>4, <1>5, <1>6, <1>7, <1>8, <1>9, <1>10, <1>11, <1>12, <1>13 DEF Quiet, Poller

LEMMA QuietFrame == IInv /\ Quiet => PacketsFollow' /\ FrameInv' /\ CountInv'
<1> SUFFICES ASSUME IInv, Quiet PROVE PacketsFollow' /\ FrameInv' /\ CountInv'
  OBVIOUS
<1>1. UNCHANGED <<trackVars, packetVars>>
  BY DEF Quiet, Tick, Connect, Poller, PollerPackets, PollerOctets, PollerPrefix, PollerBody, PollerStamp,
         CheckSendSr, AppPrefix, AppBody, AppStamp
<1>2. \/ app' = app
      \/ /\ app \in {"test", "prefix", "body", "stamp"}
         /\ app' \in {"prefix", "body", "stamp", "cut"}
  BY DEF Quiet, Tick, Connect, Poller, PollerPackets, PollerOctets, PollerPrefix, PollerBody, PollerStamp,
         CheckSendSr, AppPrefix, AppBody, AppStamp
<1>3. PacketsFollow'
  BY <1>1 DEF IInv, PacketsFollow, trackVars, packetVars
<1>4. FrameInv'
  BY <1>1, <1>2 DEF IInv, FrameInv, Fits, Smallest, NaluHeader, trackVars, packetVars
<1>5. CountInv'
  BY <1>1, <1>2 DEF IInv, CountInv, Counted, packetVars
<1>6. QED
  BY <1>3, <1>4, <1>5

LEMMA QuietReports == IInv /\ Quiet => ReportInv'
<1> SUFFICES ASSUME IInv, Quiet PROVE ReportInv'
  OBVIOUS
<1>1. UNCHANGED <<count, handed>> /\ ReportInv /\ sr \in [Threads -> Counts]
  BY DEF Quiet, Tick, Connect, Poller, PollerPackets, PollerOctets, PollerPrefix, PollerBody,
         PollerStamp, CheckSendSr, AppPrefix, AppBody, AppStamp, packetVars, IInv, TypeOK
<1>2. CASE CheckSendSr
  <2>1. sr'["poller"] = sr["poller"] /\ (app' = "prefix" => sr'["app"] = handed)
    BY <1>1, <1>2, HandedCounted DEF CheckSendSr, BuildSr, Threads
  <2>2. UNCHANGED <<poller, began>> /\ app' \in {"prefix", "cut"}
    BY <1>2 DEF CheckSendSr
  <2>3. QED
    BY <1>1, <2>1, <2>2 DEF ReportInv
<1>3. CASE PollerPackets
  <2>1. PICK c \in Readable : sr' = [sr EXCEPT !["poller"].packets = c.packets]
    BY <1>3 DEF PollerPackets
  <2>2. /\ sr'["app"] = sr["app"]
        /\ sr'["poller"].packets = c.packets /\ sr'["poller"].octets = sr["poller"].octets
    BY <1>1, <2>1 DEF Threads, Counts
  <2>3. /\ poller' = IF poller = "connected" THEN "packets" ELSE "prefix"
        /\ poller \in {"connected", "octets"} /\ UNCHANGED app
        /\ IF poller = "connected" THEN began' = count ELSE began' = began
    BY <1>3, BeginCounts DEF PollerPackets
  <2>4. QED
    BY <1>1, <2>2, <2>3, ReadableCounts, HandedCounted DEF ReportInv, Counts
<1>4. CASE PollerOctets
  <2>1. PICK c \in Readable : sr' = [sr EXCEPT !["poller"].octets = c.octets]
    BY <1>4 DEF PollerOctets
  <2>2. /\ sr'["app"] = sr["app"]
        /\ sr'["poller"].octets = c.octets /\ sr'["poller"].packets = sr["poller"].packets
    BY <1>1, <2>1 DEF Threads, Counts
  <2>3. /\ poller' = IF poller = "connected" THEN "octets" ELSE "prefix"
        /\ poller \in {"connected", "packets"} /\ UNCHANGED app
        /\ IF poller = "connected" THEN began' = count ELSE began' = began
    BY <1>4, BeginCounts DEF PollerOctets
  <2>4. QED
    BY <1>1, <2>2, <2>3, ReadableCounts, HandedCounted DEF ReportInv, Counts
<1>5. CASE Tick \/ Connect \/ AppPrefix \/ AppBody \/ AppStamp \/ PollerPrefix \/ PollerBody \/ PollerStamp
  <2>1. UNCHANGED reportVars
    BY <1>5 DEF Tick, Connect, AppPrefix, AppBody, AppStamp, PollerPrefix, PollerBody, PollerStamp
  <2>2. /\ app' \in {"prefix", "body"} => app \in {"prefix", "body"}
        /\ poller' \in {"packets", "octets"} => poller' = poller
        /\ poller' \in {"prefix", "body"} => poller \in {"prefix", "body"}
    BY <1>5 DEF Tick, Connect, AppPrefix, AppBody, AppStamp, PollerPrefix, PollerBody, PollerStamp
  <2>3. QED
    BY <1>1, <2>1, <2>2 DEF ReportInv, reportVars
<1>6. QED
  BY <1>2, <1>3, <1>4, <1>5 DEF Quiet, Poller

LEMMA QuietTime == IInv /\ Quiet => TimeInv'
<1> SUFFICES ASSUME IInv, Quiet PROVE TimeInv'
  OBVIOUS
<1> USE DEF timeVars, trackVars
<1>1. /\ clock \in Nat /\ appNow \in Nat /\ lastSr \in Nat /\ srAt \in Nat
      /\ held \in Nat /\ SrInterval \in Nat \ {0}
  BY SendingAssumption DEF IInv, TypeOK
<1>2. TimeInv
  BY DEF IInv
<1>3. CASE Tick
  BY <1>1, <1>2, <1>3 DEF Tick, TimeInv, ReportRecent
<1>4. CASE Connect
  BY <1>1, <1>2, <1>4 DEF Connect, TimeInv, ReportRecent
<1>5. CASE CheckSendSr
  BY <1>1, <1>2, <1>5 DEF CheckSendSr, Due, TimeInv, ReportRecent
<1>6. CASE AppPrefix
  BY <1>1, <1>2, <1>6 DEF AppPrefix, TimeInv, ReportRecent
<1>7. CASE AppBody
  BY <1>1, <1>2, <1>7 DEF AppBody, SendSrBody, TimeInv, ReportRecent
<1>8. CASE AppStamp
  BY <1>1, <1>2, <1>8 DEF AppStamp, TimeInv, ReportRecent
<1>9. CASE PollerPackets \/ PollerOctets
  BY <1>1, <1>2, <1>9 DEF PollerPackets, PollerOctets, TimeInv, ReportRecent
<1>10. CASE PollerPrefix
  BY <1>1, <1>2, <1>10 DEF PollerPrefix, TimeInv, ReportRecent
<1>11. CASE PollerBody
  BY <1>1, <1>2, <1>11 DEF PollerBody, SendSrBody, TimeInv, ReportRecent
<1>12. CASE PollerStamp
  BY <1>1, <1>2, <1>12 DEF PollerStamp, TimeInv, ReportRecent
<1>13. QED
  BY <1>3, <1>4, <1>5, <1>6, <1>7, <1>8, <1>9, <1>10, <1>11, <1>12 DEF Quiet, Poller

LEMMA InputInv ==
  ASSUME IInv, NEW code \in StartCodes, NEW len \in Lengths, Input(code, len)
  PROVE  IInv'
<1> USE DEF trackVars
<1>1. len - code \in Nat
  BY SendingAssumption DEF Input, StartCodes
<1>2. TypeOK'
  BY <1>1, SendingAssumption DEF IInv, TypeOK, Input, AppStates, reportVars
<1>3. PacketsFollow' /\ FrameInv'
  BY DEF Input, PacketsFollow, FrameInv
<1>4. CountInv' /\ ReportInv'
  BY DEF IInv, CountInv, ReportInv, Input, reportVars
<1>5. TimeInv'
  BY DEF IInv, TypeOK, TimeInv, ReportRecent, Input
<1>6. QED
  BY <1>2, <1>3, <1>4, <1>5 DEF IInv

LEMMA TooShortInv == IInv /\ TooShort => IInv'
<1> SUFFICES ASSUME IInv, TooShort PROVE IInv'
  OBVIOUS
<1> USE DEF trackVars, timeVars, packetVars, reportVars
<1>1. TypeOK'
  BY DEF IInv, TypeOK, TooShort, AppStates
<1>2. PacketsFollow'
  BY DEF IInv, PacketsFollow, TooShort
<1>3. FrameInv'
  <2>1. pkts = <<>>
    BY Headers DEF IInv, TypeOK, FrameInv, TooShort
  <2>2. QED
    BY <2>1 DEF FrameInv, TooShort
<1>4. CountInv' /\ ReportInv' /\ TimeInv'
  BY DEF IInv, CountInv, ReportInv, TimeInv, ReportRecent, TooShort, reportVars
<1>5. QED
  BY <1>1, <1>2, <1>3, <1>4 DEF IInv

\* A packet appended to packets that follow each other follows the last of them.
LEMMA CutInv == IInv /\ Cut => IInv'
<1> SUFFICES ASSUME IInv, Cut PROVE IInv'
  OBVIOUS
<1> USE DEF trackVars, timeVars, reportVars
<1> DEFINE p == NextPacket
           n == Len(pkts)
<1>1. /\ p \in PacketRecords /\ p.seq = seq
      /\ p.from < p.to /\ p.to <= nalu
      /\ codec # "PCMA" => p.size <= MaxPayload
      /\ p.start <=> pkts = <<>>
      /\ p.marker <=> p.end
      /\ p.end <=> p.to = nalu
      /\ Fits => p.from = 0 /\ p.to = nalu
      /\ ~Fits => p.from = NaluHeader + off /\ (p.end => off # 0)
  BY NextPacketFollows DEF Cut
<1> HIDE DEF p
<1>2. /\ pkts \in Seq(PacketRecords) /\ n \in Nat
      /\ seq \in 0..(SeqSpace - 1) /\ SeqSpace \in Nat \ {0}
  BY SendingAssumption DEF IInv, TypeOK
<1>3. /\ pkts' = Append(pkts, p) /\ app = "cut" /\ app' = "count"
      /\ UNCHANGED <<codec, nalu, off>> /\ nalu >= Smallest
  BY DEF Cut, p
<1>4. /\ Len(pkts') = n + 1 /\ pkts'[n + 1] = p /\ pkts' # <<>>
      /\ \A i \in 1..n : pkts'[i] = pkts[i]
  BY <1>2, <1>3
<1>5. seq' = (seq + 1) % SeqSpace /\ seq' \in 0..(SeqSpace - 1)
  BY <1>2 DEF Cut, NextSeq
<1>6. p.size \in Nat
  BY <1>1 DEF PacketRecords
<1>7. TypeOK'
  <2>1. pkts' \in Seq(PacketRecords)
    BY <1>1, <1>2, <1>3
  <2>2. handed' \in Counts
    BY <1>6 DEF Cut, p, IInv, TypeOK, Counts
  <2>3. wire' \in {"clean", "split", "broken", "headless"}
    BY DEF Cut, Send, Follow, IInv, TypeOK
  <2>4. QED
    BY <1>5, <2>1, <2>2, <2>3 DEF Cut, IInv, TypeOK, AppStates
<1>8. PacketsFollow'
  <2> SUFFICES ASSUME NEW i \in 1..(n + 1)
               PROVE  /\ pkts'[i].from < pkts'[i].to
                      /\ codec # "PCMA" => pkts'[i].size <= MaxPayload
                      /\ pkts'[i].start <=> i = 1
                      /\ pkts'[i].marker <=> pkts'[i].end
                      /\ i > 1 => /\ pkts'[i].from = pkts'[i - 1].to
                                  /\ pkts'[i].seq = (pkts'[i - 1].seq + 1) % SeqSpace
                                  /\ ~pkts'[i - 1].end
    BY <1>3, <1>4 DEF PacketsFollow
  <2>1. CASE i \in 1..n
    <3>1. i > 1 => i - 1 \in 1..n
      BY <1>2, <2>1
    <3>2. PacketsFollow /\ i \in 1..Len(pkts)
      BY <2>1 DEF IInv
    <3>3. pkts'[i] = pkts[i] /\ (i > 1 => pkts'[i - 1] = pkts[i - 1])
      BY <1>4, <2>1, <3>1
    <3>4. QED
      BY <3>2, <3>3 DEF PacketsFollow
  <2>2. CASE i = n + 1
    <3>1. pkts = <<>> <=> n = 0
      BY <1>2
    <3>2. CASE n = 0
      BY <1>1, <1>4, <2>2, <3>1, <3>2
    <3>3. CASE n # 0
      <4>1. i - 1 = n /\ n \in 1..n /\ pkts # <<>>
        BY <1>2, <2>2, <3>1, <3>3
      <4>2. /\ ~Fits /\ ~pkts[n].end /\ pkts[n].to = NaluHeader + off
            /\ seq = (pkts[n].seq + 1) % SeqSpace
        BY <1>3, <4>1 DEF IInv, FrameInv
      <4>3. QED
        BY <1>1, <1>2, <1>4, <2>2, <3>3, <4>1, <4>2
    <3>4. QED
      BY <3>2, <3>3
  <2>3. QED
    BY <1>2, <2>1, <2>2
<1>9. FrameInv'
  <2>1. /\ (Fits)' = Fits /\ NaluHeader' = NaluHeader /\ Smallest' = Smallest
    BY <1>3 DEF Fits, NaluHeader, Smallest
  <2>2. CASE pkts = <<>>
    <3>1. n = 0 /\ off = 0
      BY <1>3, <2>2 DEF IInv, FrameInv
    <3>2. pkts'[1] = p /\ Len(pkts') = 1
      BY <1>4, <3>1
    <3>3. NaluHeader \in Nat
      BY Headers
    <3>4. QED
      BY <1>1, <1>3, <1>4, <1>5, <2>1, <3>1, <3>2, <3>3 DEF FrameInv
  <2>3. CASE pkts # <<>>
    <3>1. n > 0 /\ 1 \in 1..n /\ pkts'[1] = pkts[1] /\ Len(pkts') > 1
      BY <1>2, <1>4, <2>3
    <3>2. ~Fits /\ pkts[1].from = NaluHeader
      BY <1>3, <2>3 DEF IInv, FrameInv
    <3>3. QED
      BY <1>1, <1>3, <1>4, <1>5, <2>1, <3>1, <3>2 DEF FrameInv
  <2>4. QED
    BY <2>2, <2>3
<1>10. CountInv'
  <2>1. Last(pkts') = p
    BY <1>4 DEF Last
  <2>2. count' = count /\ handed = count
    BY <1>3 DEF Cut, IInv, CountInv
  <2>3. QED
    BY <1>3, <2>1, <2>2 DEF CountInv, Counted, Cut, p
<1>11. ReportInv'
  <2>1. /\ handed'.packets >= handed.packets /\ handed'.octets >= handed.octets
    BY <1>6, HandedCounted DEF Cut, p, Counts
  <2>2. /\ UNCHANGED <<poller, count, reportVars>> /\ app' = "count" /\ handed' \in Counts
    BY <1>3, <1>7 DEF Cut, TypeOK
  <2>3. ReportInv /\ sr["poller"] \in Counts
    BY DEF IInv, TypeOK, Threads
  <2>4. QED
    BY <2>1, <2>2, <2>3, HandedCounted DEF ReportInv, reportVars, Counts
<1>12. TimeInv'
  BY DEF IInv, TimeInv, ReportRecent, Cut
<1>13. QED
  BY <1>7, <1>8, <1>9, <1>10, <1>11, <1>12 DEF IInv

LEMMA CountStep == IInv /\ Count => IInv'
<1> SUFFICES ASSUME IInv, Count PROVE IInv'
  OBVIOUS
<1> USE DEF trackVars, timeVars, reportVars
<1> DEFINE l == pkts[Len(pkts)]
<1>1. /\ app = "count" /\ pkts # <<>> /\ pkts \in Seq(PacketRecords) /\ Last(pkts) = l
      /\ UNCHANGED <<codec, nalu, pkts, seq, handed>>
  BY DEF Count, IInv, TypeOK, FrameInv, Last
<1>2. /\ l \in PacketRecords /\ l.from < l.to /\ Len(pkts) \in 1..Len(pkts)
  BY <1>1 DEF IInv, PacketsFollow
<1>3. /\ l.from \in Nat /\ l.to \in Nat /\ l.size \in Nat
      /\ nalu \in Nat /\ off \in Nat /\ off' = off + l.to - l.from
  BY <1>1, <1>2 DEF PacketRecords, IInv, TypeOK, Count
<1>4. app' = IF l.end THEN "idle" ELSE "cut"
  BY <1>1 DEF Count
<1> HIDE DEF l
<1>5. TypeOK'
  <2>1. off' \in Nat
    BY <1>2, <1>3
  <2>2. count' \in Counts
    <3>1. count' = [packets |-> count.packets + 1, octets |-> count.octets + l.size]
      BY <1>1 DEF Count, Counted
    <3>2. count.packets \in Nat /\ count.octets \in Nat
      BY DEF IInv, TypeOK, Counts
    <3>3. QED
      BY <1>3, <3>1, <3>2 DEF Counts
  <2>3. QED
    BY <1>1, <1>4, <2>1, <2>2 DEF Count, IInv, TypeOK, AppStates
<1>6. PacketsFollow'
  BY <1>1 DEF IInv, PacketsFollow
<1>7. FrameInv'
  <2>1. (Fits)' = Fits /\ NaluHeader' = NaluHeader /\ Smallest' = Smallest
    BY <1>1 DEF Fits, NaluHeader, Smallest
  <2>2. NaluHeader \in Nat
    BY Headers
  <2>3. /\ seq = (l.seq + 1) % SeqSpace /\ nalu >= Smallest
        /\ ~Fits => pkts[1].from = NaluHeader
    BY <1>1 DEF IInv, FrameInv, l
  <2>4. CASE Fits
    <3>1. Len(pkts) = 1 /\ pkts[1] = l /\ l.end /\ l.from = 0 /\ l.to = nalu
      BY <1>1, <2>4 DEF IInv, FrameInv, l
    <3>2. QED
      BY <1>1, <1>4, <3>1 DEF FrameInv
  <2>5. CASE ~Fits
    <3>1. /\ l.from = NaluHeader + off /\ l.to <= nalu
          /\ l.end <=> l.to = nalu
          /\ l.end => Len(pkts) > 1
      BY <1>1, <2>5 DEF IInv, FrameInv, l
    <3>2. l.to = NaluHeader + off' /\ off' > 0
      BY <1>2, <1>3, <2>2, <3>1
    <3>3. CASE l.end
      BY <1>1, <1>4, <2>1, <2>3, <2>5, <3>1, <3>3 DEF FrameInv, l
    <3>4. CASE ~l.end
      <4>1. off' < nalu - NaluHeader
        BY <1>3, <2>2, <3>1, <3>2, <3>4
      <4>2. QED
        BY <1>1, <1>4, <2>1, <2>3, <2>5, <3>2, <3>4, <4>1 DEF FrameInv, l
    <3>5. QED
      BY <3>3, <3>4
  <2>6. QED
    BY <2>4, <2>5
<1>8. CountInv'
  BY <1>1, <1>4 DEF Count, IInv, CountInv
<1>9. ReportInv'
  <2>1. count'.packets >= count.packets /\ count'.octets >= count.octets
    BY <1>1, HandedCounted DEF Count, Counts
  <2>2. UNCHANGED <<poller, handed, reportVars>> /\ app' \in {"idle", "cut"} /\ count' \in Counts
    BY <1>1, <1>4, <1>5 DEF Count, TypeOK
  <2>3. ReportInv
    BY DEF IInv
  <2>4. QED
    BY <2>1, <2>2, <2>3, HandedCounted DEF ReportInv, reportVars, Counts
<1>10. TimeInv'
  BY <1>1, <1>4 DEF Count, IInv, TimeInv, ReportRecent
<1>11. QED
  BY <1>5, <1>6, <1>7, <1>8, <1>9, <1>10 DEF IInv

LEMMA StutterInv == IInv /\ UNCHANGED vars => IInv'
BY DEF vars, trackVars, timeVars, packetVars, reportVars, IInv, TypeOK, PacketsFollow, FrameInv,
       CountInv, ReportInv, TimeInv, ReportRecent, Fits, NaluHeader, Smallest, Counted, Last

LEMMA NextInv == IInv /\ [Next]_vars => IInv'
<1> SUFFICES ASSUME IInv, [Next]_vars PROVE IInv'
  OBVIOUS
<1>1. CASE Quiet
  BY <1>1, QuietTypes, QuietFrame, QuietReports, QuietTime DEF IInv
<1>2. ASSUME NEW code \in StartCodes, NEW len \in Lengths, Input(code, len) PROVE IInv'
  BY <1>2, InputInv
<1>3. CASE TooShort
  BY <1>3, TooShortInv
<1>4. CASE Cut
  BY <1>4, CutInv
<1>5. CASE Count
  BY <1>5, CountStep
<1>6. CASE UNCHANGED vars
  BY <1>6, StutterInv
<1>7. QED
  BY <1>1, <1>2, <1>3, <1>4, <1>5, <1>6 DEF Next, Application, Quiet

-----------------------------------------------------------------------------
(* The theorems.                                                           *)

\* Every reachable state satisfies the inductive invariant (RtpContext.cpp:29-185,
\* RtcpContext.cpp:25-36, RtpSession.cpp:154-215).
THEOREM Invariance == Spec => []IInv
<1>1. QED
  BY InitInv, NextInv, PTL DEF Spec

\* The variables keep their types, so that sequence numbers stay 16 bits wide
\* (RtpContext.cpp:37).
THEOREM TypeCorrect == Spec => []TypeOK
<1>1. IInv => TypeOK
  BY DEF IInv
<1>2. QED
  BY <1>1, Invariance, PTL

\* Whatever the length of a frame and MAX_PAYLOAD, its packets can be put together
\* again (RtpContext.cpp:49-133).
THEOREM FramesCorrect == Spec => []FramesReassemble
<1>1. IInv => FramesReassemble
  BY DEF IInv, PacketsFollow, FrameInv, FramesReassemble, Last
<1>2. QED
  BY <1>1, Invariance, PTL

\* However the threads interleave, and however long the connection's callback is held
\* up, an application on TCP does not send packets without a report of the last
\* interval, as the callback notes it (RtpSession.cpp:53-61, 176-185).
THEOREM ReportsRecent == Spec => []ReportRecent
<1>1. IInv => ReportRecent
  BY DEF IInv, TimeInv
<1>2. QED
  BY <1>1, Invariance, PTL

\* However many packets the application sends between the poller's two reads, each
\* counter of a report is one of a moment while it was built (RtcpContext.cpp:231-249).
THEOREM ReportsCorrect == Spec => []ReportsHonest
<1>1. IInv => ReportsHonest
  BY DEF IInv, ReportInv, ReportsHonest
<1>2. QED
  BY <1>1, Invariance, PTL

=============================================================================
