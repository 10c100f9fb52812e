-------------------------- MODULE RtpReceiverProofs --------------------------
(***************************************************************************)
(* What RtpReceiver promises for any number of sequence numbers, any size  *)
(* of the buffer and any network.                                          *)
(***************************************************************************)
EXTENDS RtpReceiver, FiniteSetTheorems, SequenceTheorems, TLAPS

Last == played[Len(played)]

\* What is waited for follows what was played last, and what was played has no gap.
OrderInv ==
  /\ recvInitialized <=> played # <<>>
  /\ ~recvInitialized => recvBuffer = {}
  /\ WithinCycle /\ recvInitialized => expectedSeq = Seq16(Last + 1)
  /\ WithinCycle => \A i \in 1..Len(played) : played[i] = played[1] + (i - 1)

\* How late a packet of a calm network is: Late packets were sent after it.
Late == MaxRecvBuffer \div 2

\* What is in the buffer: packets that wait, and at most Late that were overtaken by
\* the first one played. As long as the expected packet may still come, all packets
\* behind it that arrived wait in the buffer.
WaitInv ==
  /\ Last + 1 \notin arrived
  /\ \A k \in recvBuffer : k > Last \/ k \in (played[1] - Late)..(played[1] - 1)
  /\ sent <= Last + Late + 2 => \A k \in arrived : k > Last + 1 => k \in recvBuffer

RepairInv ==
  /\ \A k \in arrived : k < sent
  /\ ~recvInitialized => arrived = {}
  /\ recvBuffer \subseteq arrived
  /\ WithinCycle /\ recvInitialized => played[1]..Last \subseteq arrived
  /\ calm /\ WithinCycle /\ recvInitialized => WaitInv

IInv == TypeOK /\ NothingReadyBuffered /\ OrderInv /\ RepairInv

-----------------------------------------------------------------------------
(* Arithmetic modulo SeqMod.                                               *)

\* The constants are numbers.
LEMMA Numbers ==
  /\ SeqMod \in Nat /\ SeqMod > 1
  /\ MaxRecvBuffer \in Nat /\ MaxRecvBuffer < SeqMod
  /\ FirstSeq \in Nat /\ FirstSeq < SeqMod
  /\ MaxSent \in Nat
BY RtpAssumption

\* The remainder of what is less than three cycles.
LEMMA Modulo ==
  ASSUME NEW a \in Nat, a < 3 * SeqMod
  PROVE  a % SeqMod = IF a < SeqMod THEN a
                      ELSE IF a < 2 * SeqMod THEN a - SeqMod ELSE a - 2 * SeqMod
<1>1. SeqMod \in Nat /\ SeqMod > 0
  BY Numbers
<1> QED BY <1>1

\* Sequence numbers of packets, and those behind the expected one.
LEMMA SeqType ==
  /\ \A k \in Nat : Seq16(k) \in SeqNumbers
  /\ TypeOK => \A i \in Nat : After(i) \in SeqNumbers
BY Numbers DEF Seq16, After, SeqNumbers, TypeOK

\* Two packets of one cycle have different numbers.
LEMMA Injective ==
  ASSUME NEW j \in Nat, j < SeqMod, NEW x \in Nat, x < 2 * SeqMod, Seq16(j) = Seq16(x)
  PROVE  x = j \/ x = j + SeqMod
<1>1. FirstSeq \in Nat /\ FirstSeq < SeqMod /\ SeqMod \in Nat
  BY Numbers
<1> QED BY <1>1, Modulo DEF Seq16

\* The number i behind the expected one is that of the packet i behind.
LEMMA AfterSeq ==
  ASSUME NEW x \in Nat, x < SeqMod, expectedSeq = Seq16(x), NEW i \in 0..SeqMod
  PROVE  After(i) = Seq16(x + i)
<1> DEFINE a == FirstSeq + x
<1>1. FirstSeq \in Nat /\ FirstSeq < SeqMod /\ SeqMod \in Nat /\ i \in Nat /\ i <= SeqMod
  BY Numbers
<1>2. a \in Nat /\ a < 2 * SeqMod - 1
  BY <1>1
<1>3. a % SeqMod = IF a < SeqMod THEN a ELSE a - SeqMod
  BY <1>1, <1>2, Modulo
<1>4. /\ (a % SeqMod) + i \in Nat /\ (a % SeqMod) + i < 3 * SeqMod
      /\ a + i \in Nat /\ a + i < 3 * SeqMod
  BY <1>1, <1>2, <1>3
<1>5. ((a % SeqMod) + i) % SeqMod = (a + i) % SeqMod
  <2> HIDE DEF a
  <2>1. CASE a < SeqMod
    BY <1>3, <2>1
  <2>2. CASE a >= SeqMod
    <3> DEFINE b == a - SeqMod + i
    <3>1. /\ b \in Nat /\ b < 2 * SeqMod /\ b = (a % SeqMod) + i
          /\ a + i = b + SeqMod
      BY <1>1, <1>2, <1>3, <2>2
    <3> HIDE DEF b
    <3> QED BY <1>1, <1>4, <3>1, Modulo
  <2> QED BY <1>1, <1>2, <2>1, <2>2
<1>6. FirstSeq + (x + i) = a + i
  BY <1>1
<1> QED BY <1>5, <1>6 DEF After, Seq16

-----------------------------------------------------------------------------

\* How late a packet may be is a number, half of the buffer.
LEMMA LateType ==
  /\ Late \in Nat /\ 2 * Late <= MaxRecvBuffer
  /\ \A x \in Int : 2 * x <= MaxRecvBuffer + 2 => x <= Late + 1
BY Numbers DEF Late

\* What was played last is a packet, and so is what was played first.
LEMMA LastType ==
  ASSUME TypeOK, played # <<>>
  PROVE  /\ Last \in Nat /\ Last < MaxSent /\ played[1] \in Nat
         /\ Len(played) \in Nat /\ Len(played) >= 1
<1>1. Len(played) \in 1..Len(played) /\ 1 \in 1..Len(played) /\ Len(played) \in Nat
  BY DEF TypeOK
<1>2. played[1] \in Packets /\ Last \in Packets
  BY <1>1 DEF TypeOK, Last
<1> QED BY <1>1, <1>2, Numbers DEF Packets

LEMMA InitInv == Init => IInv
<1> SUFFICES ASSUME Init PROVE IInv
  OBVIOUS
<1> USE Numbers DEF Init
<1>1. TypeOK
  <2>1. recvInitialized \in BOOLEAN /\ calm \in BOOLEAN
    OBVIOUS
  <2>2. /\ sent \in 0..MaxSent /\ arrived \subseteq Packets /\ expectedSeq \in SeqNumbers
        /\ recvBuffer \subseteq Packets /\ played \in Seq(Packets)
    BY DEF SeqNumbers
  <2> QED BY <2>1, <2>2 DEF TypeOK
<1>2. NothingReadyBuffered
  BY FS_EmptySet DEF NothingReadyBuffered
<1>3. OrderInv /\ RepairInv
  BY DEF OrderInv, RepairInv
<1> QED BY <1>1, <1>2, <1>3 DEF IInv

LEMMA TypeStep == TypeOK /\ [Next]_vars => TypeOK'
<1> SUFFICES ASSUME TypeOK, [Next]_vars PROVE TypeOK'
  OBVIOUS
<1> USE Numbers
<1>1. CASE Send
  BY <1>1 DEF Send, TypeOK
<1>2. ASSUME NEW k \in Packets, OnRecvRtp(k) PROVE TypeOK'
  <2>1. /\ sent' \in 0..MaxSent /\ arrived' \subseteq Packets
        /\ calm' \in BOOLEAN
    <3>1. calm' \in BOOLEAN
      <4> DEFINE still == k \notin arrived /\ 2 * (sent - k) <= MaxRecvBuffer + 2
      <4>1. calm' = (calm /\ still)
        BY <1>2 DEF OnRecvRtp
      <4> HIDE DEF still
      <4> QED BY <4>1
    <3> QED BY <1>2, <3>1 DEF OnRecvRtp, TypeOK
  <2>2. k \in Nat
    BY DEF Packets
  <2>3. CASE First(k)
    <3>1. expectedSeq' \in SeqNumbers
      <4>1. Seq16(k) + 1 \in Nat /\ expectedSeq' = (Seq16(k) + 1) % SeqMod
        <5>1. Seq16(k) \in SeqNumbers
          BY <2>2, SeqType
        <5>2. expectedSeq' = (Seq16(k) + 1) % SeqMod
          BY <2>3 DEF First
        <5> QED BY <5>1, <5>2 DEF SeqNumbers
      <4> QED BY <4>1 DEF SeqNumbers
    <3>2. recvInitialized' \in BOOLEAN
      BY <2>3 DEF First
    <3> QED BY <2>1, <2>3, <3>1, <3>2 DEF First, TypeOK
  <2>4. CASE Expected(k)
    <3>a. PICK n \in 0..MaxRecvBuffer : \E run \in [1..n -> recvBuffer] :
              /\ played' = Append(played, k) \o run
              /\ recvBuffer' = recvBuffer \ {run[i] : i \in 1..n}
              /\ expectedSeq' = After(n + 1)
              /\ recvInitialized' = recvInitialized
      BY <2>4 DEF Expected
    <3>1. PICK run \in [1..n -> recvBuffer] :
            /\ played' = Append(played, k) \o run
            /\ recvBuffer' = recvBuffer \ {run[i] : i \in 1..n}
            /\ expectedSeq' = After(n + 1)
            /\ recvInitialized' = recvInitialized
      BY <3>a
    <3>2. n + 1 \in Nat
      BY <3>1
    <3>3. expectedSeq' \in SeqNumbers
      BY <3>1, <3>2, SeqType
    <3>4. run \in Seq(Packets)
      <4>1. n \in Nat /\ recvBuffer \subseteq Packets
        BY <3>1 DEF TypeOK
      <4> QED BY <4>1
    <3>5. played' \in Seq(Packets)
      BY <3>1, <3>4 DEF TypeOK
    <3> QED BY <2>1, <3>1, <3>3, <3>5 DEF TypeOK
  <2>5. CASE Unexpected(k)
    BY <2>1, <2>5 DEF Unexpected, TypeOK
  <2> QED BY <1>2, <2>3, <2>4, <2>5 DEF OnRecvRtp
<1>3. CASE UNCHANGED vars
  BY <1>3 DEF vars, TypeOK
<1> QED BY <1>1, <1>2, <1>3 DEF Next

-----------------------------------------------------------------------------
(* The buffer.                                                             *)

\* The buffer is a finite set of packets.
LEMMA BufferFinite == TypeOK => IsFiniteSet(recvBuffer)
<1>1. IsFiniteSet(Packets)
  BY Numbers, FS_Interval DEF Packets
<1> QED BY <1>1, FS_Subset DEF TypeOK

\* The expected packet is not in the buffer after any of the three ways through.
LEMMA BufferStep ==
  ASSUME TypeOK, NothingReadyBuffered, OrderInv, NEW k \in Packets, OnRecvRtp(k)
  PROVE  NothingReadyBuffered'
<1>1. CASE First(k)
  <2>1. recvBuffer = {} /\ recvBuffer' = {}
    BY <1>1 DEF First, OrderInv
  <2> QED BY <2>1, FS_EmptySet, Numbers DEF NothingReadyBuffered, Buffered
<1>2. CASE Expected(k)
  <2>a. PICK n \in 0..MaxRecvBuffer : \E run \in [1..n -> recvBuffer] :
            /\ ~Buffered(After(n + 1))
            /\ recvBuffer' = recvBuffer \ {run[i] : i \in 1..n}
            /\ expectedSeq' = After(n + 1)
    BY <1>2 DEF Expected, IsRun
  <2>1. PICK run \in [1..n -> recvBuffer] :
          /\ ~Buffered(After(n + 1))
          /\ recvBuffer' = recvBuffer \ {run[i] : i \in 1..n}
          /\ expectedSeq' = After(n + 1)
    BY <2>a
  <2>2. recvBuffer' \subseteq recvBuffer
    BY <2>1
  <2>3. ~Buffered(expectedSeq)'
    BY <2>1, <2>2 DEF Buffered
  <2>4. Cardinality(recvBuffer') <= MaxRecvBuffer
    <3>1. /\ Cardinality(recvBuffer') \in Nat /\ Cardinality(recvBuffer) \in Nat
          /\ Cardinality(recvBuffer') <= Cardinality(recvBuffer)
      BY <2>2, BufferFinite, FS_Subset, FS_CardinalityType
    <3> QED BY <3>1, Numbers DEF NothingReadyBuffered
  <2> QED BY <2>2, <2>3, <2>4 DEF NothingReadyBuffered
<1>3. CASE Unexpected(k) /\ ~Stored(Seq16(k))
  BY <1>3 DEF Unexpected, NothingReadyBuffered, Buffered
<1>4. CASE Unexpected(k) /\ Stored(Seq16(k))
  <2>1. /\ recvBuffer' = recvBuffer \cup {k} /\ UNCHANGED <<recvInitialized, expectedSeq>>
        /\ Seq16(k) # expectedSeq /\ ~Buffered(Seq16(k))
        /\ Cardinality(recvBuffer) < MaxRecvBuffer
    BY <1>4 DEF Unexpected, Stored
  <2>2. recvInitialized => ~Buffered(expectedSeq)'
    BY <2>1 DEF Buffered, NothingReadyBuffered
  <2>3. \A i, j \in recvBuffer' : Seq16(i) = Seq16(j) => i = j
    BY <2>1 DEF Buffered, NothingReadyBuffered
  <2>4. Cardinality(recvBuffer') <= MaxRecvBuffer
    <3>1. k \notin recvBuffer
      BY <2>1 DEF Buffered
    <3>2. Cardinality(recvBuffer') = Cardinality(recvBuffer) + 1 /\ Cardinality(recvBuffer) \in Nat
      BY <2>1, <3>1, BufferFinite, FS_AddElement, FS_CardinalityType
    <3> QED BY <2>1, <3>2, Numbers
  <2> QED BY <2>1, <2>2, <2>3, <2>4 DEF NothingReadyBuffered
<1> QED BY <1>1, <1>2, <1>3, <1>4 DEF OnRecvRtp

-----------------------------------------------------------------------------
(* The order.                                                              *)

\* The expected packet follows the last one, and so does each packet of the run.
LEMMA RunFollows ==
  ASSUME TypeOK, WithinCycle, NEW x \in Nat, x <= MaxSent, expectedSeq = Seq16(x),
         NEW k \in Packets, Seq16(k) = expectedSeq,
         NEW n \in 0..MaxRecvBuffer, NEW run \in [1..n -> recvBuffer],
         \A i \in 1..n : Seq16(run[i]) = After(i)
  PROVE  /\ k = x
         /\ \A i \in 1..n : run[i] = x + i
         /\ x + n < MaxSent
         /\ After(n + 1) = Seq16(x + n + 1)
<1>1. /\ SeqMod \in Nat /\ MaxSent \in Nat /\ MaxSent < SeqMod
      /\ MaxRecvBuffer \in Nat /\ MaxRecvBuffer < SeqMod /\ x < SeqMod
      /\ n \in Nat /\ n <= MaxRecvBuffer
  BY Numbers DEF WithinCycle
<1>2. k \in Nat /\ k < MaxSent
  BY <1>1 DEF Packets
<1>3. k = x
  BY <1>1, <1>2, Injective
<1>4. ASSUME NEW i \in 1..n PROVE run[i] \in Nat /\ run[i] < MaxSent
                                 /\ (run[i] = x + i \/ run[i] + SeqMod = x + i)
  <2>1. run[i] \in Nat /\ run[i] < MaxSent
    <3>1. run[i] \in Packets
      BY DEF TypeOK
    <3> QED BY <1>1, <3>1 DEF Packets
  <2>2. i \in 0..SeqMod /\ x + i \in Nat /\ x + i < 2 * SeqMod
    BY <1>1, <1>4
  <2>3. Seq16(run[i]) = Seq16(x + i)
    BY <1>1, <2>2, <1>4, AfterSeq
  <2> QED BY <1>1, <2>1, <2>2, <2>3, Injective
<1>5. x + n < MaxSent
  <2> SUFFICES ASSUME x + n >= MaxSent PROVE FALSE
    BY <1>1
  <2>1. PICK i \in 1..n : x + i = MaxSent
    <3>1. MaxSent - x \in 1..n /\ x + (MaxSent - x) = MaxSent
      BY <1>1, <1>2, <1>3
    <3> QED BY <3>1
  <2>2. run[i] \in Nat /\ run[i] < MaxSent /\ (run[i] = MaxSent \/ run[i] + SeqMod = MaxSent)
    BY <1>4, <2>1
  <2> QED BY <1>1, <2>2
<1>6. \A i \in 1..n : run[i] = x + i
  BY <1>1, <1>4, <1>5
<1>7. After(n + 1) = Seq16(x + n + 1)
  BY <1>1, AfterSeq
<1> QED BY <1>3, <1>5, <1>6, <1>7

\* What is played when the expected packet comes, and what is expected then.
LEMMA ExpectedPlays ==
  ASSUME TypeOK, OrderInv, WithinCycle, NEW k \in Packets, Expected(k)
  PROVE  \E n \in 0..MaxRecvBuffer :
           /\ k = Last + 1 /\ Last + 1 + n < MaxSent
           /\ Len(played') = Len(played) + 1 + n
           /\ \A i \in 1..Len(played) : played'[i] = played[i]
           /\ \A i \in 1..(n + 1) : played'[Len(played) + i] = Last + i
           /\ (Last + 2)..(Last + 1 + n) \subseteq recvBuffer
           /\ recvBuffer' = recvBuffer \ ((Last + 2)..(Last + 1 + n))
           /\ expectedSeq' = Seq16(Last + n + 2) /\ ~Buffered(expectedSeq')
<1>1. played \in Seq(Packets) /\ k \in Nat
  BY DEF TypeOK, Packets
<1>2. PICK n \in 0..MaxRecvBuffer : \E run \in [1..n -> recvBuffer] :
        /\ \A i \in 1..n : Seq16(run[i]) = After(i)
        /\ ~Buffered(After(n + 1))
        /\ played' = Append(played, k) \o run
        /\ recvBuffer' = recvBuffer \ {run[i] : i \in 1..n}
        /\ expectedSeq' = After(n + 1)
  BY DEF Expected, IsRun
<1>3. PICK run \in [1..n -> recvBuffer] :
        /\ \A i \in 1..n : Seq16(run[i]) = After(i)
        /\ ~Buffered(After(n + 1))
        /\ played' = Append(played, k) \o run
        /\ recvBuffer' = recvBuffer \ {run[i] : i \in 1..n}
        /\ expectedSeq' = After(n + 1)
  BY <1>2
<1>4. recvInitialized /\ Seq16(k) = expectedSeq /\ played # <<>>
  BY DEF Expected, OrderInv
<1>5. /\ run \in Seq(Packets) /\ Len(run) = n /\ n \in Nat
      /\ Len(played) \in Nat /\ Len(played) >= 1
  <2>1. n \in Nat /\ recvBuffer \subseteq Packets
    BY <1>3, Numbers DEF TypeOK
  <2>2. run \in Seq(Packets)
    BY <2>1
  <2>3. Len(run) = n
    BY <2>1
  <2> QED BY <1>1, <1>4, <2>1, <2>2, <2>3
<1>6. /\ Len(played') = Len(played) + 1 + n
      /\ \A i \in 1..Len(played) : played'[i] = played[i]
      /\ played'[Len(played) + 1] = k
      /\ \A i \in 1..n : played'[Len(played) + 1 + i] = run[i]
  <2> DEFINE p == Append(played, k)
  <2>1. /\ p \in Seq(Packets) /\ Len(p) = Len(played) + 1
        /\ \A i \in 1..Len(played) : p[i] = played[i]
        /\ p[Len(played) + 1] = k
    BY <1>1
  <2>2. played' = p \o run
    BY <1>3
  <2> HIDE DEF p
  <2>3. /\ Len(played') = Len(p) + n
        /\ \A i \in 1..Len(p) : played'[i] = p[i]
        /\ \A i \in 1..n : played'[Len(p) + i] = run[i]
    <3>1. /\ Len(played') = Len(p) + Len(run)
          /\ \A i \in 1..(Len(p) + Len(run)) :
               played'[i] = IF i <= Len(p) THEN p[i] ELSE run[i - Len(p)]
      BY <1>5, <2>1, <2>2, ConcatProperties
    <3> QED BY <1>5, <2>1, <3>1
  <2> QED BY <1>5, <2>1, <2>3
<1>7. Last \in Nat /\ Last < MaxSent /\ Last + 1 \in Nat /\ Last + 1 <= MaxSent
  BY <1>1, <1>5, Numbers DEF Last, Packets
<1>8. /\ k = Last + 1
      /\ \A i \in 1..n : run[i] = (Last + 1) + i
      /\ (Last + 1) + n < MaxSent
      /\ After(n + 1) = Seq16((Last + 1) + n + 1)
  <2> DEFINE x == Last + 1
  <2>1. x \in Nat /\ x <= MaxSent /\ expectedSeq = Seq16(x)
    BY <1>4, <1>7 DEF OrderInv
  <2> HIDE DEF x
  <2>2. Seq16(k) = expectedSeq /\ \A i \in 1..n : Seq16(run[i]) = After(i)
    BY <1>3, <1>4
  <2>3. /\ k = x /\ \A i \in 1..n : run[i] = x + i
        /\ x + n < MaxSent /\ After(n + 1) = Seq16(x + n + 1)
    BY ONLY <2>1, <2>2, TypeOK, WithinCycle, RunFollows, k \in Packets,
            n \in 0..MaxRecvBuffer, run \in [1..n -> recvBuffer]
  <2> QED BY <2>3 DEF x
<1>9. \A i \in 1..(n + 1) : played'[Len(played) + i] = Last + i
  <2> SUFFICES ASSUME NEW i \in 1..(n + 1) PROVE played'[Len(played) + i] = Last + i
    OBVIOUS
  <2>1. CASE i = 1
    BY <1>6, <1>8, <2>1
  <2>2. CASE i # 1
    <3>1. PICK j \in 1..n : i = j + 1
      <4>1. i - 1 \in 1..n /\ i = (i - 1) + 1
        BY <1>5, <2>2
      <4> QED BY <4>1
    <3>2. played'[Len(played) + 1 + j] = (Last + 1) + j
      BY <1>6, <1>8, <3>1
    <3>3. Len(played) + 1 + j = Len(played) + i /\ (Last + 1) + j = Last + i
      BY <1>5, <1>7, <3>1
    <3> QED BY <3>2, <3>3
  <2> QED BY <2>1, <2>2
<1>10. {run[i] : i \in 1..n} = (Last + 2)..(Last + 1 + n)
  <2>1. ASSUME NEW i \in 1..n PROVE run[i] \in (Last + 2)..(Last + 1 + n)
    BY <1>5, <1>7, <1>8, <2>1
  <2>2. ASSUME NEW m \in (Last + 2)..(Last + 1 + n) PROVE \E i \in 1..n : run[i] = m
    <3>1. m - (Last + 1) \in 1..n /\ m = (Last + 1) + (m - (Last + 1))
      BY <1>5, <1>7, <2>2
    <3> QED BY <1>8, <3>1
  <2> QED BY <2>1, <2>2
<1>11. {run[i] : i \in 1..n} \subseteq recvBuffer
  OBVIOUS
<1>12. (Last + 1) + n + 1 = Last + n + 2 /\ (Last + 1) + n = Last + 1 + n
  BY <1>5, <1>7
<1> QED BY <1>3, <1>6, <1>8, <1>9, <1>10, <1>11, <1>12

\* The expected packet, played, is the last one with the run behind it.
LEMMA ExpectedLast ==
  ASSUME TypeOK, OrderInv, WithinCycle, NEW k \in Packets, Expected(k)
  PROVE  \E n \in 0..MaxRecvBuffer :
           /\ k = Last + 1 /\ Last' = Last + 1 + n /\ Last' < MaxSent
           /\ Len(played') = Len(played) + 1 + n /\ played'[1] = played[1]
           /\ \A i \in 1..Len(played') : played'[i] = played'[1] + (i - 1)
           /\ (Last + 2)..Last' \subseteq recvBuffer
           /\ recvBuffer' = recvBuffer \ ((Last + 2)..Last')
           /\ expectedSeq' = Seq16(Last' + 1) /\ ~Buffered(expectedSeq')
<1>1. PICK n \in 0..MaxRecvBuffer :
           /\ k = Last + 1 /\ Last + 1 + n < MaxSent
           /\ Len(played') = Len(played) + 1 + n
           /\ \A i \in 1..Len(played) : played'[i] = played[i]
           /\ \A i \in 1..(n + 1) : played'[Len(played) + i] = Last + i
           /\ (Last + 2)..(Last + 1 + n) \subseteq recvBuffer
           /\ recvBuffer' = recvBuffer \ ((Last + 2)..(Last + 1 + n))
           /\ expectedSeq' = Seq16(Last + n + 2) /\ ~Buffered(expectedSeq')
  BY ExpectedPlays
<1> DEFINE L == Len(played)
           M == Last
<1>2. /\ L \in Nat /\ L >= 1 /\ n \in Nat /\ M \in Nat
      /\ M = played[L] /\ \A i \in 1..L : played[i] = played[1] + (i - 1)
  <2>1. played # <<>> /\ n \in Nat
    BY <1>1, Numbers DEF OrderInv, Expected
  <2>2. L \in Nat /\ L >= 1 /\ M \in Nat
    BY <2>1, LastType
  <2> QED BY <2>1, <2>2 DEF Last, OrderInv
<1>3. /\ Len(played') = L + 1 + n
      /\ \A i \in 1..L : played'[i] = played[i]
      /\ \A i \in 1..(n + 1) : played'[L + i] = M + i
  BY <1>1
<1>4. Last' = played'[L + 1 + n]
  BY <1>3 DEF Last
<1>5. played[1] \in Int /\ M = played[1] + (L - 1)
  <2>1. 1 \in 1..L /\ L \in 1..L
    BY <1>2
  <2>2. played \in Seq(Packets)
    BY DEF TypeOK
  <2>3. played[1] \in Packets
    BY <2>1, <2>2
  <2> QED BY <1>2, <2>1, <2>3 DEF Packets
<1> HIDE DEF L, M
<1>6. Last' = M + 1 + n
  <2>1. n + 1 \in 1..(n + 1) /\ L + (n + 1) = L + 1 + n /\ M + (n + 1) = M + 1 + n
    BY <1>2
  <2> QED BY <1>3, <1>4, <2>1
<1>7. played'[1] = played[1]
  BY <1>2, <1>3
<1>8. ASSUME NEW i \in 1..(L + 1 + n) PROVE played'[i] = played[1] + (i - 1)
  <2>1. CASE i <= L
    <3>1. i \in 1..L
      BY <1>2, <2>1
    <3> QED BY <1>2, <1>3, <3>1
  <2>2. CASE i > L
    <3>1. PICK j \in 1..(n + 1) : i = L + j
      <4>1. i - L \in 1..(n + 1) /\ i = L + (i - L)
        BY <1>2, <2>2
      <4> QED BY <4>1
    <3>2. played'[i] = M + j
      BY <1>3, <3>1
    <3> QED BY <1>2, <1>5, <3>1, <3>2
  <2> QED BY <1>2, <2>1, <2>2
<1>9. M + n + 2 = Last' + 1 /\ M + 1 + n = Last'
  BY <1>2, <1>6
<1> QED BY <1>1, <1>3, <1>6, <1>7, <1>8, <1>9 DEF L, M

LEMMA OrderStep ==
  ASSUME TypeOK, OrderInv, NEW k \in Packets, OnRecvRtp(k)
  PROVE  OrderInv'
<1>1. played \in Seq(Packets) /\ k \in Nat
  BY DEF TypeOK, Packets
<1>2. CASE First(k)
  <2>1. played = <<>> /\ played' = <<k>>
    <3>1. played = <<>> /\ played' = Append(played, k)
      BY <1>2 DEF First, OrderInv
    <3> QED BY <3>1
  <2>2. Last' = k
    BY <2>1 DEF Last
  <2>3. WithinCycle => expectedSeq' = Seq16(k + 1)
    <3> SUFFICES ASSUME WithinCycle PROVE (Seq16(k) + 1) % SeqMod = Seq16(k + 1)
      BY <1>2 DEF First
    <3>1. /\ FirstSeq \in Nat /\ FirstSeq < SeqMod /\ SeqMod \in Nat /\ SeqMod > 1
          /\ k \in Nat /\ k < SeqMod
      BY Numbers DEF WithinCycle, Packets
    <3> DEFINE a == FirstSeq + k
    <3>2. /\ a \in Nat /\ a < 2 * SeqMod - 1
          /\ Seq16(k) = a % SeqMod /\ Seq16(k + 1) = (a + 1) % SeqMod
      BY <3>1 DEF Seq16
    <3> HIDE DEF a
    <3>3. a % SeqMod = IF a < SeqMod THEN a ELSE a - SeqMod
      BY <3>1, <3>2, Modulo
    <3>4. (a + 1) % SeqMod = IF a + 1 < SeqMod THEN a + 1 ELSE a + 1 - SeqMod
      BY <3>1, <3>2, Modulo
    <3> DEFINE b == (a % SeqMod) + 1
    <3>5. b \in Nat /\ b <= SeqMod
      BY <3>1, <3>2, <3>3
    <3>6. b % SeqMod = IF b < SeqMod THEN b ELSE 0
      <4> HIDE DEF b
      <4> QED BY <3>1, <3>5, Modulo
    <3> QED BY <3>1, <3>2, <3>3, <3>4, <3>6
  <2>4. \A i \in 1..Len(played') : played'[i] = played'[1] + (i - 1)
    BY <1>1, <2>1
  <2> QED BY <1>2, <2>1, <2>2, <2>3, <2>4 DEF First, OrderInv
<1>3. CASE Expected(k)
  <2>1. recvInitialized /\ recvInitialized' = recvInitialized /\ played # <<>>
    BY <1>3 DEF Expected, OrderInv
  <2>2. played' # <<>>
    <3>1. PICK n \in 0..MaxRecvBuffer : \E run \in [1..n -> recvBuffer] :
            played' = Append(played, k) \o run
      BY <1>3 DEF Expected
    <3>2. PICK run \in [1..n -> recvBuffer] : played' = Append(played, k) \o run
      BY <3>1
    <3>3. n \in Nat /\ recvBuffer \subseteq Packets
      BY <3>1, Numbers DEF TypeOK
    <3>4. run \in Seq(Packets)
      BY <3>3
    <3>5. Append(played, k) \in Seq(Packets) /\ Append(played, k) # <<>>
      BY <1>1
    <3> QED BY <3>2, <3>4, <3>5
  <2>3. WithinCycle => /\ expectedSeq' = Seq16(Last' + 1)
                       /\ \A i \in 1..Len(played') : played'[i] = played'[1] + (i - 1)
    BY <1>3, ExpectedLast
  <2> QED BY <2>1, <2>2, <2>3 DEF OrderInv, WithinCycle
<1>4. CASE Unexpected(k)
  BY <1>4 DEF Unexpected, OrderInv, Last, WithinCycle
<1> QED BY <1>2, <1>3, <1>4 DEF OnRecvRtp

\* Packets in order have no gap.
LEMMA Consecutive == TypeOK /\ OrderInv => PlayedConsecutively
<1> SUFFICES ASSUME TypeOK, OrderInv, WithinCycle, NEW i \in 1..(Len(played) - 1)
             PROVE  played[i + 1] = played[i] + 1
  BY DEF PlayedConsecutively
<1>1. Len(played) \in Nat /\ i \in 1..Len(played) /\ i + 1 \in 1..Len(played) /\ 1 \in 1..Len(played)
  BY DEF TypeOK
<1>2. played[1] \in Packets
  BY <1>1 DEF TypeOK
<1>3. played[i] = played[1] + (i - 1) /\ played[i + 1] = played[1] + ((i + 1) - 1)
  BY <1>1 DEF OrderInv
<1> QED BY <1>1, <1>2, <1>3 DEF Packets

-----------------------------------------------------------------------------
(* Reordering.                                                             *)

\* The remainder of a difference that is negative.
LEMMA NegativeModulo ==
  ASSUME NEW t \in Nat, t > 0, t < SeqMod
  PROVE  t % SeqMod = t /\ (t - SeqMod) % SeqMod = t
BY Numbers

\* A packet shortly behind the expected one is not taken for one that is too old.
LEMMA NotTooOld ==
  ASSUME TypeOK, NEW t \in 1..Late
  PROVE  ~TooOld(After(t))
<1>1. /\ expectedSeq \in Nat /\ expectedSeq < SeqMod /\ SeqMod \in Nat /\ SeqMod > 1
      /\ MaxRecvBuffer \in Nat /\ MaxRecvBuffer < SeqMod
      /\ t \in Nat /\ t > 0 /\ 2 * t <= MaxRecvBuffer
  BY Numbers, LateType DEF TypeOK, SeqNumbers
<1> DEFINE e == expectedSeq
           s == After(t)
<1>2. s = IF e + t < SeqMod THEN e + t ELSE e + t - SeqMod
  <2>1. e + t \in Nat /\ e + t < 2 * SeqMod
    BY <1>1
  <2>2. s = (e + t) % SeqMod
    BY DEF After
  <2> DEFINE a == e + t
  <2> HIDE DEF a
  <2> QED BY <1>1, <2>1, <2>2, Modulo DEF a
<1>3. s - e = t \/ s - e = t - SeqMod
  BY <1>1, <1>2
<1>4. (s - e) % SeqMod = t
  <2>1. t % SeqMod = t /\ (t - SeqMod) % SeqMod = t
    BY <1>1, NegativeModulo
  <2> QED BY <1>3, <2>1
<1>5. Diff(s) = IF t < SeqMod \div 2 THEN t ELSE t - SeqMod
  BY <1>4 DEF Diff
<1>6. SeqMod \div 2 \in Nat /\ 2 * (SeqMod \div 2) >= SeqMod - 1
  BY <1>1
<1> DEFINE D == Diff(s)
           h == SeqMod \div 2
<1>7. D = IF t < h THEN t ELSE t - SeqMod
  BY <1>5
<1> HIDE DEF D, h
<1>8. ~(D < 0 /\ -D > MaxRecvBuffer)
  <2>1. h \in Nat /\ 2 * h >= SeqMod - 1
    BY <1>6 DEF h
  <2>2. CASE t < h
    BY <1>1, <1>7, <2>2
  <2>3. CASE t >= h
    <3>1. D = t - SeqMod /\ 2 * t >= SeqMod - 1
      BY <1>1, <1>7, <2>1, <2>3
    <3> QED BY <1>1, <3>1
  <2> QED BY <1>1, <2>1, <2>2, <2>3
<1> QED BY <1>8 DEF TooOld, D

\* In a calm network there is room for a packet that waits for the expected one: the
\* buffer holds at most Late packets of each side of what was played.
LEMMA Fits ==
  ASSUME IInv, WithinCycle, recvInitialized, WaitInv,
         NEW k \in Packets, k \notin arrived, k < sent, k > Last + 1, sent <= Last + Late + 2
  PROVE  Stored(Seq16(k))
<1> DEFINE M == Last
           p == played[1]
<1>1. /\ M \in Nat /\ M < MaxSent /\ p \in Nat /\ Late \in Nat /\ 2 * Late <= MaxRecvBuffer
      /\ SeqMod \in Nat /\ MaxSent \in Nat /\ MaxSent < SeqMod
      /\ MaxRecvBuffer \in Nat /\ MaxRecvBuffer < SeqMod
  BY LastType, LateType, Numbers DEF IInv, OrderInv, WithinCycle
<1>2. /\ k \in Nat /\ k < MaxSent /\ sent \in Nat
      /\ k < sent /\ k > M + 1 /\ sent <= M + Late + 2
  BY Numbers DEF Packets, IInv, TypeOK
<1>3. recvBuffer \subseteq arrived /\ recvBuffer \subseteq Packets /\ \A j \in arrived : j < sent
  BY DEF IInv, RepairInv, TypeOK
<1>4. \A j \in recvBuffer : j \in Nat /\ j < MaxSent /\ j < sent /\ j # k /\ j # M + 1
  BY <1>1, <1>3 DEF Packets, WaitInv
<1>5. ~TooOld(Seq16(k))
  <2> DEFINE t == k - (M + 1)
             x == M + 1
  <2>1. /\ t \in 1..Late /\ t \in 0..SeqMod /\ k = x + t
        /\ x \in Nat /\ x < SeqMod /\ expectedSeq = Seq16(x)
    BY <1>1, <1>2 DEF IInv, OrderInv
  <2> HIDE DEF t, x
  <2>2. After(t) = Seq16(x + t)
    BY <2>1, AfterSeq
  <2> QED BY <2>1, <2>2, NotTooOld DEF IInv
<1>6. ~Buffered(Seq16(k))
  <2> SUFFICES ASSUME NEW j \in recvBuffer, Seq16(j) = Seq16(k) PROVE FALSE
    BY DEF Buffered
  <2>1. j \in Nat /\ j < SeqMod /\ k < 2 * SeqMod
    BY <1>1, <1>2, <1>4
  <2>2. k = j \/ k = j + SeqMod
    BY <1>2, <2>1, Injective
  <2> QED BY <1>1, <1>2, <1>4, <2>2
<1>7. Cardinality(recvBuffer) < MaxRecvBuffer
  <2> DEFINE A == (p - Late)..(p - 1)
             B == (M + 2)..(M + 1 + Late)
             C == B \ {k}
  <2>1. IsFiniteSet(A) /\ Cardinality(A) = Late
    <3>1. p - Late \in Int /\ p - 1 \in Int /\ (p - 1) - (p - Late) + 1 = Late
      BY <1>1
    <3>2. /\ IsFiniteSet(A)
          /\ Cardinality(A) = IF p - Late > p - 1 THEN 0 ELSE (p - 1) - (p - Late) + 1
      BY <3>1, FS_Interval
    <3>3. p - Late > p - 1 => Late = 0
      BY <1>1
    <3> HIDE DEF A, p
    <3> QED BY <3>1, <3>2, <3>3
  <2>2. IsFiniteSet(B) /\ Cardinality(B) = Late
    <3>1. M + 2 \in Int /\ M + 1 + Late \in Int /\ (M + 1 + Late) - (M + 2) + 1 = Late
      BY <1>1
    <3>2. /\ IsFiniteSet(B)
          /\ Cardinality(B) = IF M + 2 > M + 1 + Late THEN 0 ELSE (M + 1 + Late) - (M + 2) + 1
      BY <3>1, FS_Interval
    <3>3. M + 2 > M + 1 + Late => Late = 0
      BY <1>1
    <3> HIDE DEF B, M
    <3> QED BY <3>1, <3>2, <3>3
  <2>3. k \in B
    BY <1>1, <1>2
  <2>4. recvBuffer \subseteq A \cup C
    <3> SUFFICES ASSUME NEW j \in recvBuffer, j \notin A PROVE j \in C
      OBVIOUS
    <3>1. j > M
      BY DEF WaitInv
    <3> QED BY <1>1, <1>2, <1>4, <3>1
  <2> HIDE DEF A, B
  <2>5. IsFiniteSet(C) /\ Cardinality(C) = Late - 1
    BY <2>2, <2>3, FS_RemoveElement
  <2> HIDE DEF C
  <2>6. /\ IsFiniteSet(A \cup C) /\ Cardinality(A \cap C) \in Nat
        /\ Cardinality(A \cup C) = Late + (Late - 1) - Cardinality(A \cap C)
    <3>1. IsFiniteSet(A \cap C)
      BY <2>1, FS_Intersection
    <3> QED BY <2>1, <2>5, <3>1, FS_Union, FS_CardinalityType
  <2>7. Cardinality(recvBuffer) \in Nat /\ Cardinality(recvBuffer) <= Cardinality(A \cup C)
    <3>1. IsFiniteSet(recvBuffer) /\ Cardinality(recvBuffer) <= Cardinality(A \cup C)
      BY <2>4, <2>6, FS_Subset
    <3> QED BY <3>1, FS_CardinalityType
  <2> QED BY <1>1, <2>6, <2>7
<1> QED BY <1>5, <1>6, <1>7 DEF Stored

LEMMA RepairStep ==
  ASSUME IInv, NEW k \in Packets, OnRecvRtp(k)
  PROVE  RepairInv'
<1> USE DEF WithinCycle
<1>1. /\ arrived' = arrived \cup {k} /\ sent' = sent /\ k < sent
      /\ calm' => calm /\ k \notin arrived /\ 2 * (sent - k) <= MaxRecvBuffer + 2
  BY DEF OnRecvRtp
<1>2. /\ k \in Nat /\ sent \in Nat /\ Late \in Nat
      /\ arrived \subseteq Nat /\ recvBuffer \subseteq Nat /\ recvBuffer \subseteq arrived
      /\ \A j \in arrived : j < sent
  BY Numbers, LateType DEF Packets, IInv, TypeOK, RepairInv
<1>3. calm' => sent <= k + Late + 1
  <2> SUFFICES ASSUME calm' PROVE sent <= k + Late + 1
    OBVIOUS
  <2>1. sent - k <= Late + 1
    BY <1>1, <1>2, LateType
  <2> QED BY <1>2, <2>1
<1>4. recvInitialized' /\ \A j \in arrived' : j < sent'
  <2>1. recvInitialized'
    BY DEF OnRecvRtp, First, Expected, Unexpected
  <2> QED BY <1>1, <1>2, <2>1
<1>5. recvInitialized =>
        /\ WithinCycle => Last \in Nat /\ played[1] \in Nat /\ played[1] <= Last
        /\ WithinCycle => /\ expectedSeq = Seq16(Last + 1)
                          /\ played[1]..Last \subseteq arrived
                          /\ calm => WaitInv
  <2> SUFFICES ASSUME recvInitialized, WithinCycle
               PROVE  Last \in Nat /\ played[1] \in Nat /\ played[1] <= Last
    BY DEF IInv, OrderInv, RepairInv
  <2>1. /\ Last \in Nat /\ played[1] \in Nat /\ Len(played) \in Nat /\ Len(played) >= 1
    BY LastType DEF IInv, OrderInv
  <2>2. Last = played[1] + (Len(played) - 1)
    BY <2>1 DEF IInv, OrderInv, Last
  <2> QED BY <2>1, <2>2
<1>6. CASE First(k)
  <2>1. arrived = {} /\ recvBuffer' = {} /\ played = <<>> /\ played' = Append(played, k)
    BY <1>6 DEF First, IInv, OrderInv, RepairInv
  <2>2. played' = <<k>>
    BY <2>1
  <2>3. Last' = k /\ played'[1] = k
    BY <2>2 DEF Last
  <2>4. WaitInv'
    <3>1. Last' + 1 \notin arrived'
      BY <1>1, <1>2, <2>1, <2>3
    <3>2. \A j \in arrived' : ~(j > Last' + 1)
      BY <1>1, <1>2, <2>1, <2>3
    <3> QED BY <2>1, <3>1, <3>2 DEF WaitInv
  <2>5. played'[1]..Last' \subseteq arrived'
    BY <1>1, <1>2, <2>3
  <2> QED BY <1>4, <2>1, <2>4, <2>5 DEF RepairInv
<1>7. CASE Expected(k)
  <2>1. recvInitialized /\ recvBuffer' \subseteq recvBuffer
    BY <1>7 DEF Expected
  <2>2. WithinCycle => /\ played'[1]..Last' \subseteq arrived'
                       /\ calm' => WaitInv'
    <3> SUFFICES ASSUME WithinCycle
                 PROVE  played'[1]..Last' \subseteq arrived' /\ (calm' => WaitInv')
      OBVIOUS
    <3> DEFINE M == Last
               N == Last'
               p == played[1]
    <3>1. PICK n \in 0..MaxRecvBuffer :
            /\ k = M + 1 /\ N = M + 1 + n
            /\ played'[1] = p
            /\ (M + 2)..N \subseteq recvBuffer
            /\ recvBuffer' = recvBuffer \ ((M + 2)..N)
            /\ expectedSeq' = Seq16(N + 1) /\ ~Buffered(expectedSeq')
      BY <1>7, ExpectedLast DEF IInv
    <3>2. /\ M \in Nat /\ p \in Nat /\ n \in Nat /\ N \in Nat /\ N >= M + 1
          /\ p..M \subseteq arrived /\ (calm => WaitInv)
      BY <1>5, <2>1, <3>1, Numbers
    <3> HIDE DEF M, N, p
    <3>3. p..N \subseteq arrived'
      <4> SUFFICES ASSUME NEW j \in p..N, j # k PROVE j \in arrived
        BY <1>1
      <4>1. j \in p..M \/ j \in (M + 2)..N
        BY <3>1, <3>2
      <4> QED BY <1>2, <3>1, <3>2, <4>1
    <3>4. ASSUME calm' PROVE WaitInv'
      <4>1. /\ M + 1 \notin arrived
            /\ \A j \in recvBuffer : j > M \/ j \in (p - Late)..(p - 1)
            /\ sent <= M + Late + 2
            /\ \A j \in arrived : j > M + 1 => j \in recvBuffer
        <5>1. WaitInv /\ sent <= M + Late + 2
          BY <1>1, <1>2, <1>3, <3>1, <3>2, <3>4
        <5> QED BY <5>1 DEF WaitInv, M, p
      <4>2. N + 1 \notin arrived'
        <5> SUFFICES ASSUME N + 1 \in arrived PROVE FALSE
          BY <1>1, <3>1, <3>2
        <5>1. N + 1 \in recvBuffer
          BY <3>2, <4>1
        <5> QED BY <3>1, <5>1 DEF Buffered
      <4>3. \A j \in recvBuffer' : j > N \/ j \in (p - Late)..(p - 1)
        <5> SUFFICES ASSUME NEW j \in recvBuffer', j \notin (p - Late)..(p - 1) PROVE j > N
          OBVIOUS
        <5>1. j \in recvBuffer /\ j \notin (M + 2)..N /\ j \in arrived /\ j \in Nat
          BY <1>2, <3>1
        <5>2. j > M /\ j # M + 1
          BY <4>1, <5>1
        <5> QED BY <3>2, <5>1, <5>2
      <4>4. \A j \in arrived' : j > N + 1 => j \in recvBuffer'
        <5> SUFFICES ASSUME NEW j \in arrived', j > N + 1 PROVE j \in recvBuffer'
          OBVIOUS
        <5>1. j \in Nat /\ j # k
          BY <1>1, <1>2, <3>1, <3>2
        <5>2. j \in recvBuffer
          BY <1>1, <3>2, <4>1, <5>1
        <5> QED BY <3>1, <3>2, <5>1, <5>2
      <4> QED BY <3>1, <4>2, <4>3, <4>4 DEF WaitInv, N, Late
    <3> QED BY <3>1, <3>3, <3>4 DEF N
  <2> QED BY <1>1, <1>2, <1>4, <2>1, <2>2 DEF RepairInv
<1>8. CASE Unexpected(k)
  <2>1. /\ recvInitialized /\ played' = played /\ Last' = Last
        /\ Seq16(k) # expectedSeq
        /\ recvBuffer' = IF Stored(Seq16(k)) THEN recvBuffer \cup {k} ELSE recvBuffer
    BY <1>8 DEF Unexpected, Last
  <2>2. WithinCycle => played'[1]..Last' \subseteq arrived'
    BY <1>1, <1>5, <2>1
  <2>3. ASSUME WithinCycle, calm' PROVE WaitInv'
    <3> DEFINE M == Last
               p == played[1]
    <3>1. /\ M \in Nat /\ p \in Nat /\ p <= M /\ p..M \subseteq arrived
          /\ expectedSeq = Seq16(M + 1) /\ WaitInv
      BY <1>1, <1>5, <2>1, <2>3
    <3>2. /\ M + 1 \notin arrived
          /\ \A j \in recvBuffer : j > M \/ j \in (p - Late)..(p - 1)
          /\ sent <= M + Late + 2 => \A j \in arrived : j > M + 1 => j \in recvBuffer
      BY <3>1 DEF WaitInv
    <3>3. k # M + 1 /\ k \notin arrived
      BY <1>1, <2>1, <2>3, <3>1
    <3>4. k > M \/ k \in (p - Late)..(p - 1)
      <4>1. p < sent /\ k \notin p..M
        BY <1>2, <3>1, <3>3
      <4> HIDE DEF M, p
      <4>2. sent <= k + Late + 1
        BY <1>3, <2>3
      <4> QED BY <1>2, <3>1, <4>1, <4>2
    <3>5. sent <= M + Late + 2 /\ k > M + 1 => k \in recvBuffer'
      <4> SUFFICES ASSUME sent <= M + Late + 2, k > M + 1 PROVE Stored(Seq16(k))
        BY <2>1
      <4> QED BY <1>1, <2>1, <2>3, <3>1, <3>3, Fits
    <3>6. recvBuffer \subseteq recvBuffer' /\ recvBuffer' \subseteq recvBuffer \cup {k}
      BY <2>1
    <3> HIDE DEF M, p
    <3>7. M + 1 \notin arrived'
      BY <1>1, <3>2, <3>3
    <3>8. \A j \in recvBuffer' : j > M \/ j \in (p - Late)..(p - 1)
      BY <3>2, <3>4, <3>6
    <3>9. sent <= M + Late + 2 => \A j \in arrived' : j > M + 1 => j \in recvBuffer'
      BY <1>1, <3>2, <3>5, <3>6
    <3> QED BY <1>1, <2>1, <3>7, <3>8, <3>9 DEF WaitInv, M, p, Late
  <2>4. recvBuffer' \subseteq arrived'
    BY <1>1, <1>2, <2>1
  <2> QED BY <1>4, <2>2, <2>3, <2>4 DEF RepairInv
<1> QED BY <1>6, <1>7, <1>8 DEF OnRecvRtp

LEMMA NextInv == IInv /\ [Next]_vars => IInv'
<1> SUFFICES ASSUME IInv, [Next]_vars PROVE IInv'
  OBVIOUS
<1>1. TypeOK'
  BY TypeStep DEF IInv
<1>2. ASSUME NEW k \in Packets, OnRecvRtp(k)
      PROVE  NothingReadyBuffered' /\ OrderInv' /\ RepairInv'
  BY <1>2, BufferStep, OrderStep, RepairStep DEF IInv
<1>3. CASE Send
  <2>1. sent' = sent + 1 /\ sent \in Nat
    BY <1>3, Numbers DEF Send, IInv, TypeOK
  <2>2. arrived \subseteq Nat
    BY DEF IInv, TypeOK, Packets
  <2>3. /\ UNCHANGED <<arrived, recvInitialized, expectedSeq, recvBuffer, played, calm>>
        /\ Last' = Last
    BY <1>3 DEF Send, Last
  <2>4. NothingReadyBuffered' /\ OrderInv'
    BY <2>3 DEF IInv, NothingReadyBuffered, Buffered, OrderInv, WithinCycle
  <2>5. calm /\ WithinCycle /\ recvInitialized => WaitInv'
    <3> SUFFICES ASSUME WithinCycle, recvInitialized, WaitInv PROVE WaitInv'
      BY DEF IInv, RepairInv
    <3>1. Last \in Nat /\ Late \in Nat
      BY LastType, LateType DEF IInv, OrderInv
    <3> QED BY <2>1, <2>3, <3>1 DEF WaitInv
  <2>6. RepairInv'
    BY <2>1, <2>2, <2>3, <2>5 DEF IInv, RepairInv, WithinCycle
  <2> QED BY <1>1, <2>4, <2>6 DEF IInv
<1>4. CASE UNCHANGED vars
  BY <1>4 DEF vars, IInv, TypeOK, NothingReadyBuffered, Buffered, OrderInv, RepairInv, WaitInv, Last,
              WithinCycle
<1> QED BY <1>1, <1>2, <1>3, <1>4 DEF Next, IInv

\* The inductive invariant holds in every reachable state.
THEOREM Invariance == Spec => []IInv
BY InitInv, NextInv, PTL DEF Spec

\* The variables have their types, the expected number among them (_expected_seq
\* wraps at SeqMod).
THEOREM TypeCorrect == Spec => []TypeOK
<1>1. IInv => TypeOK
  BY DEF IInv
<1> QED BY <1>1, Invariance, PTL

\* The packet that is waited for is never left in the buffer, whatever the network
\* does and however often the numbers wrap (RtpContext.cpp:265).
THEOREM FlushCorrect == Spec => []NothingReadyBuffered
<1>1. IInv => NothingReadyBuffered
  BY DEF IInv
<1> QED BY <1>1, Invariance, PTL

\* Within one cycle of the sequence numbers the payloads are handed over in order
\* and without a gap (RtpContext.h:35).
THEOREM OrderCorrect == Spec => []PlayedConsecutively
<1>1. IInv => PlayedConsecutively
  BY Consecutive DEF IInv
<1> QED BY <1>1, Invariance, PTL

\* In a network that only reorders, and by no more than the buffer allows for, no
\* packet that has arrived waits although all before it have (RtpContext.h:35).
THEOREM ReorderingCorrect == Spec => []ReorderingRepaired
<1>1. IInv => ReorderingRepaired
  <2> SUFFICES ASSUME IInv, calm, WithinCycle, NEW k \in arrived,
                      played # <<>>, k >= played[1], played[1]..k \subseteq arrived
               PROVE  \E i \in 1..Len(played) : played[i] = k
    BY DEF ReorderingRepaired
  <2>1. /\ Last \in Nat /\ played[1] \in Nat /\ Len(played) \in Nat /\ Len(played) >= 1 /\ k \in Nat
    BY LastType DEF IInv, TypeOK, Packets
  <2>2. Last + 1 \notin arrived
    BY DEF IInv, OrderInv, RepairInv, WaitInv
  <2>3. \A i \in 1..Len(played) : played[i] = played[1] + (i - 1)
    BY DEF IInv, OrderInv
  <2>4. Last = played[1] + (Len(played) - 1)
    BY <2>1, <2>3 DEF Last
  <2>5. k <= Last
    <3> SUFFICES ASSUME k > Last PROVE FALSE
      BY <2>1
    <3>1. Last + 1 \in played[1]..k
      BY <2>1, <2>4
    <3> QED BY <2>2, <3>1
  <2>6. k - played[1] + 1 \in 1..Len(played) /\ played[1] + ((k - played[1] + 1) - 1) = k
    BY <2>1, <2>4, <2>5
  <2> QED BY <2>3, <2>6
<1> QED BY <1>1, Invariance, PTL

=============================================================================
