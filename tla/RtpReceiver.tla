----------------------------- MODULE RtpReceiver -----------------------------
(***************************************************************************)
(* rtp::RtpContext::onRecvRtp(): the receive side of a talk session, which *)
(* puts the RTP packets of a UDP socket back in order and hands their      *)
(* payloads to the application.                                            *)
(*                                                                         *)
(* A packet is named by its index in the order of sending: packet k has    *)
(* the sequence number Seq(k).  The network is the environment: it loses,  *)
(* reorders and repeats the last Window packets sent.  A                   *)
(* packet that is never received, is malformed or has no payload is lost:  *)
(* the code returns before it looks at the sequence number.                *)
(*                                                                         *)
(* onRecvRtp() runs on the one poller thread of its socket, so that a      *)
(* packet is handled in one step.                                          *)
(***************************************************************************)
EXTENDS Integers, Sequences, FiniteSets

CONSTANTS
  SeqMod,         \* 2^16, the number of sequence numbers
  MaxRecvBuffer,  \* MAX_RECV_BUFFER, 50
  FirstSeq,       \* the sequence number of packet 0
  Window,         \* the network delivers a packet before Window more are sent
  MaxSent         \* bound: the packets sent

ASSUME RtpAssumption ==
  /\ SeqMod \in Nat /\ SeqMod > 1
  /\ MaxRecvBuffer \in Nat /\ MaxRecvBuffer < SeqMod
  /\ FirstSeq \in 0..(SeqMod - 1)
  /\ Window \in Nat
  /\ MaxSent \in Nat

Packets == 0..(MaxSent - 1)
SeqNumbers == 0..(SeqMod - 1)
Seq16(k) == (FirstSeq + k) % SeqMod

VARIABLES
  sent,             \* packets 0..sent-1 have been sent
  arrived,          \* the packets onRecvRtp() has seen
  recvInitialized,  \* _recv_initialized
  expectedSeq,      \* _expected_seq
  recvBuffer,       \* _recv_buffer: the packets that are its values
  played,           \* the packets whose payload the callback got, in order
  calm              \* the network has only reordered so far, as OnRecvRtp says

vars == <<sent, arrived, recvInitialized, expectedSeq, recvBuffer, played, calm>>

\* recvBuffer stands for a map: no two of its packets have one sequence number.
TypeOK ==
  /\ sent \in 0..MaxSent
  /\ arrived \subseteq Packets
  /\ recvInitialized \in BOOLEAN
  /\ expectedSeq \in SeqNumbers
  /\ recvBuffer \subseteq Packets
  /\ played \in Seq(Packets)
  /\ calm \in BOOLEAN

Init ==
  /\ sent = 0
  /\ arrived = {}
  /\ recvInitialized = FALSE
  /\ expectedSeq = 0
  /\ recvBuffer = {}
  /\ played = <<>>
  /\ calm = TRUE

-----------------------------------------------------------------------------

Send ==
  /\ sent < MaxSent
  /\ sent' = sent + 1
  /\ UNCHANGED <<arrived, recvInitialized, expectedSeq, recvBuffer, played, calm>>

\* _recv_buffer.find(seq) != _recv_buffer.end()
Buffered(seq) == \E k \in recvBuffer : Seq16(k) = seq

\* static_cast<int16_t>(seq - _expected_seq)
Diff(seq) ==
  LET d == (seq - expectedSeq) % SeqMod
  IN  IF d < SeqMod \div 2 THEN d ELSE d - SeqMod

\* The first packet is played whatever its number.
First(k) ==
  /\ ~recvInitialized
  /\ recvInitialized' = TRUE
  /\ expectedSeq' = (Seq16(k) + 1) % SeqMod
  /\ played' = Append(played, k)
  /\ UNCHANGED recvBuffer

\* A defect: the number is looked up before it is incremented.
AfterLate(i) == (expectedSeq + i - 1) % SeqMod

\* A defect: the number is wider than 16 bits.
AfterWide(i) == expectedSeq + i

\* The i-th number after the expected one.
After(i) == (expectedSeq + i) % SeqMod

\* A defect: at most one buffered packet is played.
IsRunOfOne(n) == n = IF Buffered(After(1)) THEN 1 ELSE 0

\* The length of the run of buffered packets that follows the expected one.
IsRun(n) ==
  /\ \A i \in 1..n : Buffered(After(i))
  /\ ~Buffered(After(n + 1))

\* The expected packet, then the run that was waiting for it.
Expected(k) ==
  /\ recvInitialized
  /\ Seq16(k) = expectedSeq
  /\ \E n \in 0..MaxRecvBuffer : \E run \in [1..n -> recvBuffer] :
       /\ IsRun(n)
       /\ \A i \in 1..n : Seq16(run[i]) = After(i)
       /\ played' = Append(played, k) \o run
       /\ recvBuffer' = recvBuffer \ {run[i] : i \in 1..n}
       /\ expectedSeq' = After(n + 1)
  /\ UNCHANGED recvInitialized

\* "Too old": behind the expected packet by more than the buffer holds.
TooOld(seq) == Diff(seq) < 0 /\ -Diff(seq) > MaxRecvBuffer

\* A defect: one entry of the buffer is never used.
StoredInRest(seq) ==
  /\ ~TooOld(seq)
  /\ ~Buffered(seq)
  /\ Cardinality(recvBuffer) + 1 < MaxRecvBuffer

\* A packet is stored unless it is too old, its number is taken or the buffer is
\* full.
Stored(seq) ==
  /\ ~TooOld(seq)
  /\ ~Buffered(seq)
  /\ Cardinality(recvBuffer) < MaxRecvBuffer

\* Any other packet, an early one, a late one or a duplicate.
Unexpected(k) ==
  /\ recvInitialized
  /\ Seq16(k) # expectedSeq
  /\ recvBuffer' = IF Stored(Seq16(k)) THEN recvBuffer \cup {k} ELSE recvBuffer
  /\ UNCHANGED <<recvInitialized, expectedSeq, played>>

\* onRecvRtp() of a packet of the network. calm notes that no packet was repeated
\* or came so late that packets overtaking one another could overfill the buffer.
OnRecvRtp(k) ==
  /\ k < sent /\ sent - k <= Window
  /\ arrived' = arrived \cup {k}
  /\ calm' = (calm /\ k \notin arrived /\ 2 * (sent - k) <= MaxRecvBuffer + 2)
  /\ First(k) \/ Expected(k) \/ Unexpected(k)
  /\ UNCHANGED sent

Next == Send \/ \E k \in Packets : OnRecvRtp(k)

Spec == Init /\ [][Next]_vars

-----------------------------------------------------------------------------
(* Properties.                                                             *)

\* No sequence number is used twice, and the one after the last is not either.
WithinCycle == MaxSent < SeqMod

\* Within one cycle of the sequence numbers the application gets the payloads in
\* the order they were sent and without a gap, whatever the network does
\* (RtpContext.h:35): a loss stops the stream rather than leaving a hole.
PlayedConsecutively ==
  WithinCycle =>
    \A i \in 1..(Len(played) - 1) : played[i + 1] = played[i] + 1

\* The packet that is waited for is never in the buffer: the flush leaves nothing
\* behind that could have been played, and _recv_buffer is a map with at most
\* MAX_RECV_BUFFER entries.
NothingReadyBuffered ==
  /\ recvInitialized => ~Buffered(expectedSeq)
  /\ \A j, k \in recvBuffer : Seq16(j) = Seq16(k) => j = k
  /\ Cardinality(recvBuffer) <= MaxRecvBuffer

\* Reordering alone loses nothing, as long as nothing was repeated and the buffer
\* holds both the packets that overtake one another and the ones that arrive after
\* a packet sent later was played first: a packet is played as soon as it and all
\* packets from the first one played on have arrived.
ReorderingRepaired ==
  (calm /\ WithinCycle) =>
    \A k \in arrived :
      played # <<>> /\ k >= played[1] /\ played[1]..k \subseteq arrived
        => \E i \in 1..Len(played) : played[i] = k

=============================================================================
