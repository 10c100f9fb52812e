----------------------------- MODULE RtcpReports -----------------------------
(***************************************************************************)
(* What rtp::RtcpContext reads in an RTCP datagram: the walk over a        *)
(* compound of packets and the report blocks of a receiver report.         *)
(*                                                                         *)
(* A datagram is a sequence of 32-bit words.  The first word of a packet   *)
(* is its header, with the packet type, the number rc of report blocks and *)
(* the length in words without the header; the content of all other words  *)
(* is a value.  The first word of a block stands for its content.          *)
(***************************************************************************)
EXTENDS Integers, Sequences, FiniteSetsExt

CONSTANTS
  Blocks,      \* the report blocks a peer sends
  MaxBlocks,   \* bound: report blocks of one packet, whose number has five bits
  MaxPackets   \* bound: packets of one compound

ASSUME ReportsAssumption ==
  /\ MaxBlocks \in 0..31
  /\ MaxPackets \in Nat

Other == "word"      \* a word nobody reads: an SSRC, the rest of a block

\* SR, which has 5 words of sender information, RR, or another packet of 2 words.
SenderWords == 5
BlockWords == 6
BlockLists == UNION {[1..n -> Blocks] : n \in 0..MaxBlocks}
Packets == [pt : {"SR", "RR"}, blocks : BlockLists] \cup [pt : {"BYE"}, blocks : {<<>>}]

Header(pt, rc, words) == [pt |-> pt, rc |-> rc, words |-> words]

\* The word at which the first report block of a packet begins.
FirstBlock(p) == 3 + (IF p.pt = "SR" THEN SenderWords ELSE 0)

\* The words of a packet, in the layout of writeHeader() and buildSrRaw().
AsWords(p) ==
  LET size == FirstBlock(p) - 1 + Len(p.blocks) * BlockWords
  IN  [i \in 1..size |->
         IF i = 1 THEN Header(p.pt, Len(p.blocks), size - 1)
         ELSE IF i >= FirstBlock(p) /\ (i - FirstBlock(p)) % BlockWords = 0
              THEN p.blocks[(i - FirstBlock(p)) \div BlockWords + 1]
              ELSE Other]

\* The words of the first n packets of a compound, for every n.
Joined(compound) ==
  LET upTo[n \in 0..Len(compound)] ==
        IF n = 0 THEN <<>> ELSE upTo[n - 1] \o AsWords(compound[n])
  IN  upTo

Datagram(compound) == Joined(compound)[Len(compound)]

-----------------------------------------------------------------------------
(* Reading, from the first word on; len words were received.               *)

\* A defect: a packet that ends with the datagram is taken for a truncated one.
InsideShort(d, len, off) == off < len /\ off + d[off + 1].words + 1 < len

\* The packet at off ends inside the datagram.
Inside(d, len, off) == off < len /\ off + d[off + 1].words + 1 <= len

\* parseCompound(): the offsets it calls back with. The loop stops at the first
\* packet that does not end inside the datagram.
Visited(d, len) ==
  LET offset[n \in 0..len] ==
        IF n = 0 THEN 0
        ELSE LET off == offset[n - 1]
             IN  IF Inside(d, len, off) THEN off + d[off + 1].words + 1 ELSE off
  IN  {offset[n] : n \in {m \in 0..len : Inside(d, len, offset[m])}}

\* parseRr() of the packet at off: the blocks must fit the packet's own length.
IsReport(d, off) ==
  /\ d[off + 1].pt = "RR"
  /\ 2 + d[off + 1].rc * BlockWords <= d[off + 1].words + 1

ReportAt(d, off) ==
  [i \in 1..d[off + 1].rc |-> d[off + 3 + (i - 1) * BlockWords]]

\* onRtcp() stores the blocks of one report after the other, so that those of the
\* last one stay; there may be none. onRecv() takes nothing shorter than an RTP
\* header of three words.
Stored(d, len) ==
  LET reports == {off \in Visited(d, len) : IsReport(d, off)}
  IN  IF len < 3 \/ reports = {} THEN <<>> ELSE <<ReportAt(d, Max(reports))>>

-----------------------------------------------------------------------------
(* The same, said of packets instead of words.                             *)

\* The packets of the compound that the first len words hold completely.
Whole(compound, len) == {i \in 1..Len(compound) : Len(Joined(compound)[i]) <= len}

\* The blocks of the last report the peer sent, as far as it arrived.
Sent(compound, len) ==
  LET reports == {i \in Whole(compound, len) : compound[i].pt = "RR"}
  IN  IF len < 3 \/ reports = {} THEN <<>> ELSE <<compound[Max(reports)].blocks>>

\* What any datagram makes of the list kept: by the code and by the packets sent.
Compounds == UNION {[1..n -> Packets] : n \in 1..MaxPackets}

HeardOf(compound, len) ==
  [stored |-> Stored(Datagram(compound), len), sent |-> Sent(compound, len)]

Heard ==
  UNION {{HeardOf(compound, len) : len \in 1..Len(Datagram(compound))} : compound \in Compounds}

Latest(report, kept) == IF report = <<>> THEN kept ELSE report[1]

=============================================================================
