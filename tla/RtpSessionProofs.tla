-------------------------- MODULE RtpSessionProofs --------------------------
(***************************************************************************)
(* What RtpSession and RtcpReports promise for offers of any length, any   *)
(* compound of reports and any number of calls.                            *)
(***************************************************************************)
EXTENDS RtpSession, FiniteSetTheorems, SequenceTheorems, WellFoundedInduction, TLAPS

LineRecords == UNION {Lines(section) : section \in 1..MaxLines}

\* The lines of the offer that add a track, and the track that line j adds.
Usable(j) == lines[j].k = "rtpmap" /\ CodecOf(lines[j]) # {} /\ SectionOf(j) # NoMedia

IsTrackOf(t, j) ==
  /\ Usable(j)
  /\ t.media = SectionOf(j).media /\ t.port = SectionOf(j).port
  /\ t.pt = lines[j].pt /\ t.codec \in CodecOf(lines[j])

\* src gives for each track the line it is of, in the order of the lines.
Follow(src) ==
  /\ src \in [1..Len(tracks) -> 1..Len(lines)]
  /\ \A i, j \in 1..Len(tracks) : i < j => src[i] < src[j]
  /\ \A i \in 1..Len(tracks) : IsTrackOf(tracks[i], src[i])
  /\ \A j \in 1..Len(lines) : Usable(j) => \E i \in 1..Len(tracks) : src[i] = j

\* What is kept of the offer is what its lines say.
OfferInv ==
  /\ lines \in Seq(LineRecords)
  /\ media = SectionOf(Len(lines))
  /\ \E src : Follow(src)

\* The track is chosen at the end of the offer.
ChosenInv ==
  /\ stage = "parsing" => track = <<>>
  /\ stage # "parsing" => track = Selected
  /\ stage = "refused" => track = <<>>

\* Before "v=0" nothing has been read, and without it no session is created.
VersionInv ==
  /\ ~version => lines = <<>> /\ tracks = <<>> /\ stage \in {"parsing", "refused"}

\* Without an answer nothing has been started.
AnswerInv ==
  /\ stage \notin {"answered", "started"} => answer = <<>>
  /\ AnswerDescribesSession

IInv == TypeOK /\ OfferInv /\ VersionInv /\ ChosenInv /\ AnswerInv /\ LastReportKept

-----------------------------------------------------------------------------
(* Induction, without an operator as a parameter.                          *)

\* A set of numbers that is not empty has a least element.
LEMMA LeastElement ==
  ASSUME NEW T \in SUBSET Nat, T # {}
  PROVE  \E m \in T : \A k \in T : m <= k
<1> DEFINE R == {ss \in Nat \X Nat : ss[1] < ss[2]}
<1> HIDE DEF R
<1>1. IsWellFoundedOn(R, Nat)
  BY NatLessThanWellFounded DEF OpToRel, R
<1>2. \E m \in T : \A k \in T : <<k, m>> \notin R
  BY <1>1, WFMin
<1>3. \A k, m \in Nat : k < m => <<k, m>> \in R
  BY DEF R
<1>4. PICK m \in T : \A k \in T : <<k, m>> \notin R
  BY <1>2
<1>5. ASSUME NEW k \in T PROVE m <= k
  <2>1. k \in Nat /\ m \in Nat /\ ~(k < m)
    BY <1>3, <1>4
  <2> QED BY <2>1
<1> QED BY <1>5

\* Induction over a set: what holds of 0 and of every successor holds of all numbers.
LEMMA Induct ==
  ASSUME NEW S, 0 \in S, \A n \in Nat : n \in S => n + 1 \in S
  PROVE  Nat \subseteq S
<1> SUFFICES ASSUME Nat \ S # {} PROVE FALSE
  OBVIOUS
<1>1. PICK m \in Nat \ S : \A k \in Nat \ S : m <= k
  <2>1. Nat \ S \in SUBSET Nat
    OBVIOUS
  <2> QED BY <2>1, LeastElement
<1>2. m # 0 /\ m - 1 \in Nat
  BY <1>1
<1>3. m - 1 \in S
  BY <1>1, <1>2
<1> QED BY <1>1, <1>2, <1>3

\* h gives what a loop has after each of n rounds: it starts with a and turns x into
\* Step[<<i, x>>] in round i.
IsLoop(h, n, a, Step) == h[0] = a /\ \A i \in 1..n : h[i] = Step[<<i, h[i - 1]>>]

\* A loop can be run for any number of rounds: the function that gives its values
\* exists, so that the function the model chooses is one.
LEMMA Recursion ==
  ASSUME NEW S, NEW a \in S, NEW Step \in [Nat \X S -> S]
  PROVE  \A n \in Nat : \E h \in [0..n -> S] : IsLoop(h, n, a, Step)
<1> DEFINE T == {n \in Nat : \E h \in [0..n -> S] : IsLoop(h, n, a, Step)}
<1>1. 0 \in T
  <2> DEFINE h == [i \in 0..0 |-> a]
  <2>1. h \in [0..0 -> S] /\ IsLoop(h, 0, a, Step)
    BY DEF IsLoop
  <2> HIDE DEF h
  <2> QED BY <2>1
<1>2. ASSUME NEW n \in Nat, n \in T PROVE n + 1 \in T
  <2>1. PICK h \in [0..n -> S] : IsLoop(h, n, a, Step)
    BY <1>2
  <2>2. h[n] \in S
    OBVIOUS
  <2>3. Step[<<n + 1, h[n]>>] \in S
    BY <2>2
  <2> DEFINE g == [i \in 0..(n + 1) |-> IF i = n + 1 THEN Step[<<n + 1, h[n]>>] ELSE h[i]]
  <2>4. g \in [0..(n + 1) -> S]
    BY <2>3
  <2>5. g[0] = a
    BY <2>1 DEF IsLoop
  <2>6. ASSUME NEW i \in 1..(n + 1) PROVE g[i] = Step[<<i, g[i - 1]>>]
    <3>1. CASE i = n + 1
      <4>1. g[i - 1] = h[n] /\ g[i] = Step[<<n + 1, h[n]>>]
        BY <3>1
      <4> QED BY <3>1, <4>1
    <3>2. CASE i # n + 1
      <4>1. i \in 1..n /\ i - 1 \in 0..n /\ g[i] = h[i] /\ g[i - 1] = h[i - 1]
        BY <3>2
      <4> HIDE DEF g
      <4> QED BY <2>1, <4>1 DEF IsLoop
    <3> QED BY <3>1, <3>2
  <2> HIDE DEF g
  <2> QED BY <2>4, <2>5, <2>6 DEF IsLoop
<1> HIDE DEF T
<1>3. Nat \subseteq T
  BY <1>1, <1>2, Induct
<1> QED BY <1>3 DEF T

-----------------------------------------------------------------------------
(* Least and greatest numbers of a set.                                    *)

\* An element below all others is the least one.
LEMMA MinIs ==
  ASSUME NEW S \in SUBSET Nat, NEW m \in S, \A k \in S : m <= k
  PROVE  Min(S) = m
<1>1. \A x \in S : (\A y \in S : x =< y) => x = m
  OBVIOUS
<1> QED BY <1>1 DEF Min

\* An element above all others is the greatest one.
LEMMA MaxIs ==
  ASSUME NEW S \in SUBSET Nat, NEW m \in S, \A k \in S : k <= m
  PROVE  Max(S) = m
<1>1. \A x \in S : (\A y \in S : x >= y) => x = m
  OBVIOUS
<1>2. \A y \in S : m >= y
  OBVIOUS
<1> QED BY <1>1, <1>2 DEF Max

\* A set of bounded numbers has a greatest element.
LEMMA MaxOf ==
  ASSUME NEW n \in Nat, NEW S \in SUBSET (0..n), S # {}
  PROVE  Max(S) \in S /\ \A k \in S : k <= Max(S)
<1> DEFINE T == {m \in Nat : \A k \in S : k <= m}
<1>1. PICK m \in T : \A k \in T : m <= k
  <2>1. n \in T /\ T \in SUBSET Nat
    OBVIOUS
  <2> QED BY <2>1, LeastElement
<1>2. m \in S
  <2> SUFFICES ASSUME m \notin S PROVE FALSE
    OBVIOUS
  <2>1. PICK k \in S : TRUE
    OBVIOUS
  <2>2. k \in Nat /\ k < m
    BY <1>1, <2>1
  <2>3. m - 1 \in T
    <3>1. \A j \in S : j \in Nat /\ j < m
      BY <1>1
    <3>2. m - 1 \in Nat /\ \A j \in S : j <= m - 1
      BY <1>1, <2>2, <3>1
    <3> QED BY <3>2
  <2> QED BY <1>1, <2>3
<1>3. Max(S) = m
  <2>1. S \in SUBSET Nat /\ \A k \in S : k <= m
    BY <1>1
  <2> QED BY <1>2, <2>1, MaxIs
<1> QED BY <1>1, <1>2, <1>3

\* A set of numbers has a least element.
LEMMA MinOf ==
  ASSUME NEW S \in SUBSET Nat, S # {}
  PROVE  Min(S) \in S /\ \A k \in S : Min(S) <= k
BY LeastElement, MinIs

-----------------------------------------------------------------------------
(* The loop over the tracks.                                               *)

Rank(c) == IF c = "H264" THEN 3 ELSE IF c = "H265" THEN 2 ELSE 1

\* b is the first of the best video tracks among the first n, or there is none.
IsBest(b, n) ==
  \/ b = 0 /\ \A i \in 1..n : tracks[i].media # "video"
  \/ /\ b \in 1..n /\ tracks[b].media = "video"
     /\ \A i \in 1..n : tracks[i].media = "video" =>
          /\ Rank(tracks[i].codec) <= Rank(tracks[b].codec)
          /\ i < b => Rank(tracks[i].codec) < Rank(tracks[b].codec)

\* Outranks compares codecs by rank.
LEMMA OutranksRank ==
  ASSUME NEW t \in Tracks, NEW best \in Tracks
  PROVE  Outranks(t, best) <=> Rank(t.codec) > Rank(best.codec)
<1>1. t.codec \in Codecs /\ best.codec \in Codecs
  BY DEF Tracks
<1> QED BY <1>1 DEF Outranks, Rank, Codecs

\* resolveTrack()'s loop ends with the first video track of the highest rank, if any.
LEMMA BestVideoIs ==
  ASSUME tracks \in Seq(Tracks)
  PROVE  IsBest(BestVideo, Len(tracks))
<1> DEFINE N == Len(tracks)
           Takes(i, b) == tracks[i].media = "video" /\ (b = 0 \/ Outranks(tracks[i], tracks[b]))
           Body(g) == [i \in 0..N |-> IF i = 0 THEN 0
                                      ELSE LET b == g[i - 1] IN IF Takes(i, b) THEN i ELSE b]
           best == CHOOSE g : g = Body(g)
           Step == [p \in Nat \X Nat |-> IF Takes(p[1], p[2]) THEN p[1] ELSE p[2]]
<1>1. N \in Nat
  OBVIOUS
<1>2. BestVideo = best[N]
  BY DEF BestVideo
<1>3. best = Body(best)
  <2>1. PICK h \in [0..N -> Nat] : IsLoop(h, N, 0, Step)
    <3>1. Step \in [Nat \X Nat -> Nat] /\ 0 \in Nat
      OBVIOUS
    <3> HIDE DEF Step, N
    <3> QED BY <1>1, <3>1, Recursion
  <2>2. ASSUME NEW i \in 0..N PROVE h[i] = Body(h)[i]
    <3>1. CASE i = 0
      BY <2>1, <3>1 DEF IsLoop
    <3>2. CASE i # 0
      <4>1. i \in 1..N /\ i - 1 \in 0..N /\ h[i - 1] \in Nat /\ i \in Nat
        BY <1>1, <2>1, <3>2
      <4>2. Step[<<i, h[i - 1]>>] = IF Takes(i, h[i - 1]) THEN i ELSE h[i - 1]
        <5> HIDE DEF Takes
        <5> QED BY <4>1
      <4> HIDE DEF Takes, Step
      <4> QED BY <2>1, <3>2, <4>1, <4>2 DEF IsLoop
    <3> QED BY <3>1, <3>2
  <2>3. h = Body(h)
    <3> HIDE DEF Takes
    <3> QED BY <2>1, <2>2
  <2> HIDE DEF Body
  <2> QED BY <2>3
<1> HIDE DEF best
<1>4. best[0] = 0
  BY <1>1, <1>3
<1>5. ASSUME NEW i \in 1..N PROVE best[i] = IF Takes(i, best[i - 1]) THEN i ELSE best[i - 1]
  <2> HIDE DEF Takes
  <2> QED BY <1>1, <1>3
<1> HIDE DEF Takes
<1> DEFINE T == {n \in Nat : n <= N => IsBest(best[n], n)}
<1>6. 0 \in T
  BY <1>4 DEF IsBest
<1>7. ASSUME NEW n \in Nat, n \in T PROVE n + 1 \in T
  <2> SUFFICES ASSUME n + 1 <= N PROVE IsBest(best[n + 1], n + 1)
    OBVIOUS
  <2> DEFINE b == best[n]
             k == n + 1
  <2>1. IsBest(b, n)
    BY <1>1, <1>7
  <2>2. k \in 1..N /\ k - 1 = n /\ tracks[k] \in Tracks
    BY <1>1
  <2>3. best[k] = IF Takes(k, b) THEN k ELSE b
    BY <1>5, <2>2
  <2>4. b # 0 => b \in 1..N /\ tracks[b] \in Tracks /\ b < k
    BY <1>1, <2>1, <2>2 DEF IsBest
  <2>5. \A i \in 1..k : i \in 1..n \/ i = k
    BY <1>1
  <2>6. \A i \in 1..N : tracks[i] \in Tracks /\ Rank(tracks[i].codec) \in Nat
    BY DEF Rank
  <2> HIDE DEF b
  <2>7. CASE Takes(k, b)
    <3>1. tracks[k].media = "video"
      BY <2>7 DEF Takes
    <3>2. ASSUME NEW i \in 1..n, tracks[i].media = "video"
          PROVE  Rank(tracks[i].codec) < Rank(tracks[k].codec)
      <4>1. b \in 1..n /\ Rank(tracks[i].codec) <= Rank(tracks[b].codec)
        BY <2>1, <3>2 DEF IsBest
      <4>2. b # 0 /\ i \in 1..N
        BY <1>1, <2>2, <4>1
      <4>3. Rank(tracks[k].codec) > Rank(tracks[b].codec)
        BY <2>2, <2>4, <2>7, <4>2, OutranksRank DEF Takes
      <4> QED BY <2>2, <2>4, <2>6, <4>1, <4>2, <4>3
    <3>3. IsBest(k, k)
      <4>1. k \in 1..k
        BY <1>1
      <4> HIDE DEF k
      <4> QED BY <2>2, <2>5, <2>6, <3>1, <3>2, <4>1 DEF IsBest
    <3> QED BY <2>3, <2>7, <3>3
  <2>8. CASE ~Takes(k, b)
    <3>1. CASE b = 0
      <4>1. tracks[k].media # "video"
        BY <2>8, <3>1 DEF Takes
      <4> QED BY <2>1, <2>3, <2>5, <2>8, <3>1, <4>1 DEF IsBest
    <3>2. CASE b # 0
      <4>1. tracks[k].media = "video" => ~(Rank(tracks[k].codec) > Rank(tracks[b].codec))
        BY <2>2, <2>4, <2>8, <3>2, OutranksRank DEF Takes
      <4>2. tracks[k].media = "video" => Rank(tracks[k].codec) <= Rank(tracks[b].codec)
        BY <2>2, <2>4, <2>6, <3>2, <4>1
      <4>3. b \in 1..k /\ ~(k < b)
        BY <1>1, <2>2, <2>4, <3>2
      <4> HIDE DEF k
      <4>4. IsBest(b, k)
        BY <2>1, <2>5, <3>2, <4>2, <4>3 DEF IsBest
      <4> QED BY <2>3, <2>8, <4>4 DEF k
    <3> QED BY <3>1, <3>2
  <2> QED BY <2>7, <2>8
<1>8. Nat \subseteq T
  <2> HIDE DEF T
  <2> QED BY <1>6, <1>7, Induct
<1> QED BY <1>1, <1>2, <1>8

-----------------------------------------------------------------------------
(* Reading the offer.                                                      *)

\* The fields of a line, by its kind.
LEMMA LineTypes ==
  ASSUME NEW l \in LineRecords
  PROVE  /\ l.k \in {"m", "c", "a", "rtpmap"}
         /\ l.k = "m" => l.media \in Media /\ l.port \in 1..MaxLines /\ l.mode \in Modes
         /\ l.k = "c" => l.ip \in Ips
         /\ l.k = "a" => l.dir \in {"sendonly", "recvonly", "sendrecv"}
         /\ l.k = "rtpmap" => l.name \in Names /\ l.pt \in PayloadTypes
BY DEF LineRecords, Lines

\* A line names one codec or none.
LEMMA OneCodec ==
  ASSUME NEW l
  PROVE  /\ CodecOf(l) \subseteq Codecs
         /\ \A c, d \in CodecOf(l) : c = d
         /\ CodecOf(l) # {} => (CHOOSE c \in CodecOf(l) : TRUE) \in CodecOf(l)
BY DEF CodecOf, Codecs

\* The number of sections is that of some lines.
LEMMA SectionType ==
  ASSUME lines \in Seq(LineRecords)
  PROVE  Section \in 0..Len(lines)
<1> DEFINE S == {i \in 1..Len(lines) : lines[i].k = "m"}
<1>1. Len(lines) \in Nat
  OBVIOUS
<1>2. IsFiniteSet(1..Len(lines)) /\ Cardinality(1..Len(lines)) = Len(lines)
  <2>1. 1 \in Int /\ Len(lines) \in Int
    BY <1>1
  <2>2. /\ IsFiniteSet(1..Len(lines))
        /\ Cardinality(1..Len(lines)) = IF 1 > Len(lines) THEN 0 ELSE Len(lines) - 1 + 1
    BY <2>1, FS_Interval
  <2> QED BY <1>1, <2>2
<1>3. S \subseteq 1..Len(lines)
  OBVIOUS
<1> HIDE DEF S
<1>4. IsFiniteSet(S) /\ Cardinality(S) <= Len(lines)
  BY <1>2, <1>3, FS_Subset
<1>5. Cardinality(S) \in Nat
  BY <1>4, FS_CardinalityType
<1> QED BY <1>1, <1>4, <1>5 DEF Section, S

\* The lines before keep their sections; the new one starts a section or is in the
\* last one.
LEMMA SectionStep ==
  ASSUME lines \in Seq(LineRecords), NEW l \in LineRecords, lines' = Append(lines, l),
         NEW n \in Nat, n = Len(lines)
  PROVE  /\ lines' \in Seq(LineRecords) /\ Len(lines') = n + 1
         /\ lines'[n + 1] = l
         /\ \A j \in 1..n : lines'[j] = lines[j]
         /\ \A j \in 0..n : SectionOf(j)' = SectionOf(j)
         /\ SectionOf(n + 1)' =
              IF l.k = "m" THEN [media |-> l.media, port |-> l.port, mode |-> l.mode]
              ELSE SectionOf(n)
<1> DEFINE Before(j) == {i \in 1..j : lines[i].k = "m"}
<1>1. /\ lines' \in Seq(LineRecords) /\ Len(lines') = n + 1
      /\ lines'[n + 1] = l /\ \A j \in 1..n : lines'[j] = lines[j]
  OBVIOUS
<1>2. \A j \in 0..n : Before(j)' = Before(j)
  BY <1>1
<1>3. ASSUME NEW j \in 0..n, Before(j) # {} PROVE Max(Before(j)) \in 1..n
  <2>1. Before(j) \in SUBSET (0..j) /\ j \in Nat
    BY <1>1
  <2>2. Max(Before(j)) \in Before(j)
    <3> HIDE DEF Before
    <3> QED BY <1>3, <2>1, MaxOf
  <2>3. Before(j) \subseteq 1..n
    BY <2>1
  <2> QED BY <2>2, <2>3
<1>4. \A j \in 0..n : SectionOf(j)' = SectionOf(j)
  <2> SUFFICES ASSUME NEW j \in 0..n PROVE SectionOf(j)' = SectionOf(j)
    OBVIOUS
  <2>1. CASE Before(j) = {}
    BY <1>2, <2>1 DEF SectionOf
  <2>2. CASE Before(j) # {}
    <3>1. lines'[Max(Before(j)')] = lines[Max(Before(j))]
      BY <1>1, <1>2, <1>3, <2>2
    <3>2. Before(j)' # {}
      BY <1>2, <2>2
    <3> QED BY <2>2, <3>1, <3>2 DEF SectionOf
  <2> QED BY <2>1, <2>2
<1>5. CASE l.k = "m"
  <2>1. Before(n + 1)' \in SUBSET Nat /\ n + 1 \in Before(n + 1)'
        /\ \A i \in Before(n + 1)' : i <= n + 1
    BY <1>1, <1>5
  <2>2. Max(Before(n + 1)') = n + 1
    <3> HIDE DEF Before
    <3> QED BY <2>1, MaxIs
  <2>3. SectionOf(n + 1)' = [media |-> l.media, port |-> l.port, mode |-> l.mode]
    BY <1>1, <2>1, <2>2 DEF SectionOf
  <2> QED BY <1>1, <1>4, <1>5, <2>3
<1>6. CASE l.k # "m"
  <2>1. Before(n + 1)' = Before(n)
    BY <1>1, <1>6
  <2>2. SectionOf(n + 1)' = SectionOf(n)
    <3>1. CASE Before(n) = {}
      BY <2>1, <3>1 DEF SectionOf
    <3>2. CASE Before(n) # {}
      <4>1. lines'[Max(Before(n + 1)')] = lines[Max(Before(n))]
        <5>1. Max(Before(n)) \in 1..n
          BY <1>3, <3>2
        <5> QED BY <1>1, <2>1, <5>1
      <4>2. Before(n + 1)' # {}
        BY <2>1, <3>2
      <4> QED BY <3>2, <4>1, <4>2 DEF SectionOf
    <3> QED BY <3>1, <3>2
  <2> QED BY <1>1, <1>4, <1>6, <2>2
<1> QED BY <1>5, <1>6

\* A line that is read keeps OfferInv: a usable one adds its track behind the others.
LEMMA OfferStep ==
  ASSUME TypeOK, OfferInv, NEW l \in Lines(Section + 1), ReadLine(l)
  PROVE  OfferInv'
<1>1. Len(lines) \in Nat /\ Len(tracks) \in Nat
  BY DEF OfferInv, TypeOK
<1>2. PICK n \in Nat, N \in Nat : n = Len(lines) /\ N = Len(tracks)
  BY <1>1
<1>3. lines \in Seq(LineRecords) /\ n < MaxLines
  BY <1>2 DEF OfferInv, ReadLine
<1>4. l \in LineRecords
  <2>1. Section + 1 \in 1..MaxLines
    BY <1>3, <1>2, SectionType, SessionAssumption
  <2> QED BY <2>1 DEF LineRecords
<1>5. lines' = Append(lines, l)
  BY DEF ReadLine
<1>6. /\ lines' \in Seq(LineRecords) /\ Len(lines') = n + 1
      /\ lines'[n + 1] = l
      /\ \A j \in 1..n : lines'[j] = lines[j]
      /\ \A j \in 0..n : SectionOf(j)' = SectionOf(j)
      /\ SectionOf(n + 1)' =
           IF l.k = "m" THEN [media |-> l.media, port |-> l.port, mode |-> l.mode]
           ELSE SectionOf(n)
  BY <1>3, <1>4, <1>5, <1>2, SectionStep
<1>7. media = SectionOf(n)
  BY <1>2 DEF OfferInv
<1>8. media' = SectionOf(n + 1)'
  BY <1>6, <1>7 DEF ReadLine, ReadAddress, ReadMedia, ReadDirection, ReadRtpmap
<1>9. PICK src : Follow(src)
  BY DEF OfferInv
<1>10. /\ src \in [1..N -> 1..n]
       /\ \A i, j \in 1..N : i < j => src[i] < src[j]
       /\ \A i \in 1..N : IsTrackOf(tracks[i], src[i])
       /\ \A j \in 1..n : Usable(j) => \E i \in 1..N : src[i] = j
  BY <1>9, <1>2 DEF Follow
<1>11. ASSUME NEW j \in 1..n
       PROVE  (Usable(j)' <=> Usable(j)) /\ \A t : IsTrackOf(t, j)' <=> IsTrackOf(t, j)
  <2>1. lines'[j] = lines[j] /\ SectionOf(j)' = SectionOf(j)
    BY <1>6
  <2>2. CodecOf(lines[j])' = CodecOf(lines[j])
    BY <2>1 DEF CodecOf
  <2>3. Usable(j)' <=> Usable(j)
    BY <2>1, <2>2 DEF Usable
  <2> QED BY <2>1, <2>2, <2>3 DEF IsTrackOf
<1>12. CASE ~Usable(n + 1)' /\ tracks' = tracks
  <2>1. Follow(src)'
    <3>1. src \in [1..N -> 1..(n + 1)] /\ \A i \in 1..N : src[i] \in 1..n
      BY <1>3, <1>10
    <3>2. \A j \in 1..(n + 1) : j = n + 1 \/ j \in 1..n
      BY <1>3
    <3> QED BY <1>6, <1>10, <1>11, <1>12, <1>2, <3>1, <3>2 DEF Follow
  <2> QED BY <1>6, <1>8, <2>1 DEF OfferInv
<1>13. ASSUME NEW t, IsTrackOf(t, n + 1)', tracks' = Append(tracks, t)
       PROVE  OfferInv'
  <2> DEFINE dst == [i \in 1..(N + 1) |-> IF i = N + 1 THEN n + 1 ELSE src[i]]
  <2>1. /\ Len(tracks') = N + 1 /\ tracks'[N + 1] = t
        /\ \A i \in 1..N : tracks'[i] = tracks[i]
    BY <1>13, <1>2 DEF TypeOK
  <2>2. dst \in [1..(N + 1) -> 1..(n + 1)] /\ dst[N + 1] = n + 1
        /\ \A i \in 1..N : dst[i] = src[i] /\ src[i] \in 1..n
    BY <1>3, <1>10
  <2> HIDE DEF dst
  <2>3. \A i \in 1..(N + 1) : i = N + 1 \/ i \in 1..N
    BY <1>3
  <2>4. \A j \in 1..(n + 1) : j = n + 1 \/ j \in 1..n
    BY <1>3
  <2>5. \A i, j \in 1..(N + 1) : i < j => dst[i] < dst[j]
    <3> SUFFICES ASSUME NEW i \in 1..(N + 1), NEW j \in 1..(N + 1), i < j PROVE dst[i] < dst[j]
      OBVIOUS
    <3>1. i \in 1..N /\ dst[i] = src[i] /\ src[i] \in 1..n
      BY <1>3, <2>2
    <3>2. CASE j = N + 1
      BY <1>3, <2>2, <3>1, <3>2
    <3>3. CASE j \in 1..N
      BY <1>10, <2>2, <3>1, <3>3
    <3> QED BY <2>3, <3>2, <3>3
  <2>6. \A i \in 1..(N + 1) : IsTrackOf(tracks[i], dst[i])'
    BY <1>10, <1>11, <1>13, <2>1, <2>2, <2>3
  <2>7. \A j \in 1..(n + 1) : Usable(j)' => \E i \in 1..(N + 1) : dst[i] = j
    <3> SUFFICES ASSUME NEW j \in 1..(n + 1), Usable(j)' PROVE \E i \in 1..(N + 1) : dst[i] = j
      OBVIOUS
    <3>1. CASE j = n + 1
      <4>1. N + 1 \in 1..(N + 1)
        BY <1>3
      <4> QED BY <2>2, <3>1, <4>1
    <3>2. CASE j \in 1..n
      <4>1. PICK i \in 1..N : src[i] = j
        BY <1>10, <1>11, <3>2
      <4>2. i \in 1..(N + 1) /\ dst[i] = j
        BY <1>3, <2>2, <4>1
      <4> QED BY <4>2
    <3> QED BY <2>4, <3>1, <3>2
  <2>8. Follow(dst)'
    BY <1>6, <2>1, <2>2, <2>5, <2>6, <2>7 DEF Follow
  <2> QED BY <1>6, <1>8, <2>8 DEF OfferInv
<1>14. CASE ReadAddress(l) \/ ReadMedia(l) \/ ReadDirection(l)
  <2>1. l.k # "rtpmap" /\ tracks' = tracks
    BY <1>14 DEF ReadAddress, ReadMedia, ReadDirection
  <2>2. ~Usable(n + 1)'
    BY <1>6, <2>1 DEF Usable
  <2> QED BY <1>12, <2>1, <2>2
<1>15. CASE ReadRtpmap(l)
  <2>1. l.k = "rtpmap" /\ SectionOf(n + 1)' = media
    BY <1>6, <1>7, <1>15 DEF ReadRtpmap
  <2>2. Usable(n + 1)' <=> ~(media = NoMedia \/ CodecOf(l) = {})
    BY <1>6, <2>1 DEF Usable, CodecOf
  <2>3. CASE media = NoMedia \/ CodecOf(l) = {}
    <3>1. tracks' = tracks
      BY <1>15, <2>3 DEF ReadRtpmap
    <3> QED BY <1>12, <2>2, <2>3, <3>1
  <2>4. CASE ~(media = NoMedia \/ CodecOf(l) = {})
    <3>1. PICK t : /\ tracks' = Append(tracks, t)
                   /\ t = [media |-> media.media, port |-> media.port, ip |-> remoteIp,
                           pt |-> l.pt, codec |-> CHOOSE c \in CodecOf(l) : TRUE]
      BY <1>15, <2>4 DEF ReadRtpmap
    <3>2. /\ t.media = media.media /\ t.port = media.port /\ t.pt = l.pt
          /\ t.codec \in CodecOf(l)
      BY <2>4, <3>1, OneCodec
    <3>3. IsTrackOf(t, n + 1)'
      BY <1>6, <2>1, <2>2, <2>4, <3>2 DEF IsTrackOf, CodecOf
    <3> QED BY <1>13, <3>1, <3>3
  <2> QED BY <2>3, <2>4
<1> QED BY <1>14, <1>15 DEF ReadLine

-----------------------------------------------------------------------------
(* The choice of the track.                                                *)

\* The track selected: the best of video, or else the first PCMA of audio, or none.
LEMMA SelectedIs ==
  ASSUME tracks \in Seq(Tracks)
  PROVE  \/ \E b \in 1..Len(tracks) : Selected = <<tracks[b]>> /\ tracks[b].media = "video"
                                       /\ IsBest(b, Len(tracks))
         \/ /\ \A i \in 1..Len(tracks) : tracks[i].media # "video"
            /\ \E b \in Audios : Selected = <<tracks[b]>> /\ \A i \in Audios : b <= i
         \/ /\ \A i \in 1..Len(tracks) : tracks[i].media # "video"
            /\ Audios = {} /\ Selected = <<>>
<1>1. IsBest(BestVideo, Len(tracks)) /\ Len(tracks) \in Nat
  BY BestVideoIs
<1>2. CASE BestVideo # 0
  BY <1>1, <1>2 DEF Selected, IsBest
<1>3. CASE BestVideo = 0
  <2>1. \A i \in 1..Len(tracks) : tracks[i].media # "video"
    BY <1>1, <1>3 DEF IsBest
  <2>2. Audios # {} => Min(Audios) \in Audios /\ \A i \in Audios : Min(Audios) <= i
    <3>1. Audios \in SUBSET Nat
      BY DEF Audios
    <3> QED BY <3>1, MinOf
  <2> QED BY <1>3, <2>1, <2>2 DEF Selected
<1> QED BY <1>2, <1>3

\* The lines that offer a codec are those of the tracks with that codec.
LEMMA OffersAre ==
  ASSUME NEW src, Follow(src), NEW m \in Media, NEW c
  PROVE  /\ \A j \in Offers(m, c) : \E i \in 1..Len(tracks) :
              src[i] = j /\ tracks[i].media = m /\ tracks[i].codec = c
         /\ \A i \in 1..Len(tracks) : tracks[i].media = m /\ tracks[i].codec = c =>
              src[i] \in Offers(m, c)
<1>1. ASSUME NEW j \in Offers(m, c)
      PROVE  \E i \in 1..Len(tracks) : src[i] = j /\ tracks[i].media = m /\ tracks[i].codec = c
  <2>1. /\ j \in 1..Len(lines) /\ lines[j].k = "rtpmap" /\ c \in CodecOf(lines[j])
        /\ SectionOf(j).media = m
    BY DEF Offers
  <2>2. SectionOf(j) # NoMedia
    <3>1. NoMedia.media = "" /\ m # ""
      BY DEF NoMedia, Media
    <3> QED BY <2>1, <3>1
  <2>3. PICK i \in 1..Len(tracks) : src[i] = j
    BY <2>1, <2>2 DEF Usable, Follow
  <2>4. tracks[i].media = SectionOf(j).media /\ tracks[i].codec \in CodecOf(lines[j])
    BY <2>3 DEF Follow, IsTrackOf
  <2>5. tracks[i].codec = c
    BY <2>1, <2>4, OneCodec
  <2> QED BY <2>1, <2>3, <2>4, <2>5
<1>2. ASSUME NEW i \in 1..Len(tracks), tracks[i].media = m, tracks[i].codec = c
      PROVE  src[i] \in Offers(m, c)
  <2>1. src[i] \in 1..Len(lines) /\ IsTrackOf(tracks[i], src[i])
    BY DEF Follow
  <2> QED BY <1>2, <2>1 DEF IsTrackOf, Usable, Offers
<1> QED BY <1>1, <1>2

\* The first track with a codec is that of the first line that offers it.
LEMMA FirstOffer ==
  ASSUME tracks \in Seq(Tracks), NEW src, Follow(src), NEW b \in 1..Len(tracks),
         \A i \in 1..Len(tracks) :
           tracks[i].media = tracks[b].media /\ tracks[i].codec = tracks[b].codec => b <= i
  PROVE  /\ Offers(tracks[b].media, tracks[b].codec) # {}
         /\ Min(Offers(tracks[b].media, tracks[b].codec)) = src[b]
<1> DEFINE m == tracks[b].media
           c == tracks[b].codec
           O == Offers(m, c)
<1>1. m \in Media
  <2>1. tracks[b] \in Tracks
    OBVIOUS
  <2> QED BY <2>1 DEF Tracks
<1>2. O \in SUBSET Nat
  BY DEF Offers
<1>3. src[b] \in O
  BY <1>1, OffersAre
<1>4. ASSUME NEW j \in O PROVE src[b] <= j
  <2>1. PICK i \in 1..Len(tracks) : src[i] = j /\ tracks[i].media = m /\ tracks[i].codec = c
    BY <1>1, OffersAre
  <2>2. b = i \/ b < i
    BY <2>1
  <2>3. b < i => src[b] < src[i]
    BY DEF Follow
  <2> QED BY <1>2, <1>3, <2>1, <2>2, <2>3
<1>5. Min(O) = src[b]
  <2> HIDE DEF O
  <2> QED BY <1>2, <1>3, <1>4, MinIs
<1> QED BY <1>3, <1>5

\* The selected track is of the first line with the best codec offered, and there is
\* none only if no line offers one.
LEMMA Preferred ==
  TypeOK /\ OfferInv /\ VersionInv /\ ChosenInv => TrackPreferred /\ RefusedOnlyUnknown
<1> SUFFICES ASSUME TypeOK, OfferInv, VersionInv, ChosenInv PROVE TrackPreferred /\ RefusedOnlyUnknown
  OBVIOUS
<1>1. tracks \in Seq(Tracks) /\ \A i \in 1..Len(tracks) : tracks[i].codec \in Codecs
  <2>1. tracks \in Seq(Tracks)
    BY DEF TypeOK
  <2>2. \A i \in 1..Len(tracks) : tracks[i] \in Tracks
    BY <2>1
  <2> QED BY <2>1, <2>2 DEF Tracks
<1>2. PICK src : Follow(src)
  BY DEF OfferInv
<1>3. "video" \in Media /\ "audio" \in Media
  BY DEF Media
<1>4. ASSUME NEW c, \A i \in 1..Len(tracks) : tracks[i].media = "video" => tracks[i].codec # c
      PROVE  Offers("video", c) = {}
  BY <1>2, <1>3, <1>4, OffersAre
<1>5. TrackPreferred
  <2> SUFFICES ASSUME track # <<>> PROVE TrackPreferred
    BY DEF TrackPreferred
  <2>1. track = Selected
    BY DEF ChosenInv, TypeOK
  <2> DEFINE Best == IF Offers("video", "H264") # {} THEN Offers("video", "H264")
                     ELSE IF Offers("video", "H265") # {} THEN Offers("video", "H265")
                     ELSE IF Offers("video", "PCMA") # {} THEN Offers("video", "PCMA")
                     ELSE Offers("audio", "PCMA")
  <2>2. SUFFICES ASSUME NEW b \in 1..Len(tracks), track = <<tracks[b]>>,
                        Best = Offers(tracks[b].media, tracks[b].codec),
                        \A i \in 1..Len(tracks) :
                          tracks[i].media = tracks[b].media /\ tracks[i].codec = tracks[b].codec
                            => b <= i
                 PROVE  TrackPreferred
    <3>1. CASE \E b \in 1..Len(tracks) : Selected = <<tracks[b]>> /\ tracks[b].media = "video"
                                         /\ IsBest(b, Len(tracks))
      <4>1. PICK b \in 1..Len(tracks) : Selected = <<tracks[b]>> /\ tracks[b].media = "video"
                                         /\ IsBest(b, Len(tracks))
        BY <3>1
      <4>2. \A i \in 1..Len(tracks) : tracks[i].media = "video" =>
              /\ Rank(tracks[i].codec) <= Rank(tracks[b].codec)
              /\ i < b => Rank(tracks[i].codec) < Rank(tracks[b].codec)
        BY <4>1 DEF IsBest
      <4>3. \A i \in 1..Len(tracks) :
              tracks[i].media = tracks[b].media /\ tracks[i].codec = tracks[b].codec => b <= i
        <5>1. Rank(tracks[b].codec) \in Nat
          BY DEF Rank
        <5> QED BY <4>1, <4>2, <5>1
      <4>4. Offers("video", tracks[b].codec) # {}
        BY <1>2, <1>3, <4>1, OffersAre
      <4>5. \A c \in Codecs : Rank(c) > Rank(tracks[b].codec) => Offers("video", c) = {}
        <5> SUFFICES ASSUME NEW c \in Codecs, Rank(c) > Rank(tracks[b].codec)
                     PROVE  Offers("video", c) = {}
          OBVIOUS
        <5>1. \A i \in 1..Len(tracks) : tracks[i].media = "video" => tracks[i].codec # c
          <6>1. Rank(c) \in Nat /\ Rank(tracks[b].codec) \in Nat
            BY DEF Rank
          <6> QED BY <4>2, <6>1
        <5> QED BY <1>4, <5>1
      <4>6. Best = Offers("video", tracks[b].codec)
        BY <1>1, <4>4, <4>5 DEF Rank, Codecs
      <4> QED BY <2>1, <2>2, <4>1, <4>3, <4>6
    <3>2. CASE /\ \A i \in 1..Len(tracks) : tracks[i].media # "video"
               /\ \E b \in Audios : Selected = <<tracks[b]>> /\ \A i \in Audios : b <= i
      <4>1. PICK b \in Audios : Selected = <<tracks[b]>> /\ \A i \in Audios : b <= i
        BY <3>2
      <4>2. b \in 1..Len(tracks) /\ tracks[b].media = "audio" /\ tracks[b].codec = "PCMA"
        BY DEF Audios
      <4>3. \A i \in 1..Len(tracks) :
              tracks[i].media = tracks[b].media /\ tracks[i].codec = tracks[b].codec => b <= i
        BY <4>1, <4>2 DEF Audios
      <4>4. \A c : Offers("video", c) = {}
        BY <1>4, <3>2
      <4> QED BY <2>1, <2>2, <4>1, <4>2, <4>3, <4>4
    <3>3. CASE Selected = <<>>
      BY <2>1, <3>3
    <3> QED BY <1>1, <3>1, <3>2, <3>3, SelectedIs
  <2>3. Best # {} /\ Min(Best) = src[b]
    BY <1>1, <1>2, <2>2, FirstOffer
  <2>4. IsTrackOf(tracks[b], src[b]) /\ track[1] = tracks[b]
    BY <1>2, <2>2 DEF Follow
  <2> QED BY <2>3, <2>4 DEF TrackPreferred, IsTrackOf
<1>6. RefusedOnlyUnknown
  <2> SUFFICES ASSUME stage # "parsing"
               PROVE  stage = "refused" <=>
                        \/ ~version
                        \/ /\ Offers("audio", "PCMA") = {}
                           /\ \A c \in Codecs : Offers("video", c) = {}
    BY DEF RefusedOnlyUnknown
  <2>1. CASE stage = "refused"
    <3>1. Selected = <<>>
      BY <2>1 DEF ChosenInv
    <3>2. (\A i \in 1..Len(tracks) : tracks[i].media # "video") /\ Audios = {}
      BY <1>1, <3>1, SelectedIs
    <3>3. \A c \in Codecs : Offers("video", c) = {}
      BY <1>4, <3>2
    <3>4. Offers("audio", "PCMA") = {}
      BY <1>2, <1>3, <3>2, OffersAre DEF Audios
    <3> QED BY <2>1, <3>3, <3>4
  <2>2. CASE stage # "refused"
    <3>1. track # <<>>
      BY <2>2 DEF TypeOK
    <3>2. \/ Offers("video", "H264") # {} \/ Offers("video", "H265") # {}
          \/ Offers("video", "PCMA") # {} \/ Offers("audio", "PCMA") # {}
      BY <1>5, <3>1 DEF TrackPreferred
    <3>3. version
      BY <2>2 DEF VersionInv, TypeOK
    <3> QED BY <2>2, <3>2, <3>3 DEF Codecs
  <2> QED BY <2>1, <2>2
<1> QED BY <1>5, <1>6

-----------------------------------------------------------------------------
(* The words of a compound.                                                *)

WordSet == [pt : {"SR", "RR", "BYE"}, rc : Nat, words : Nat] \cup Blocks \cup {Other}

\* A packet's type and blocks.
LEMMA PacketType ==
  ASSUME NEW p \in Packets
  PROVE  /\ p.pt \in {"SR", "RR", "BYE"}
         /\ p.blocks \in BlockLists /\ p.blocks \in Seq(Blocks) /\ Len(p.blocks) \in Nat
<1>1. p.pt \in {"SR", "RR", "BYE"}
  BY DEF Packets
<1>2. MaxBlocks \in Nat
  BY ReportsAssumption
<1>3. <<>> \in BlockLists
  <2>1. <<>> \in [1..0 -> Blocks] /\ 0 \in 0..MaxBlocks
    BY <1>2
  <2> QED BY <2>1 DEF BlockLists
<1>4. p.blocks \in BlockLists
  BY <1>3 DEF Packets
<1>5. PICK n \in 0..MaxBlocks : p.blocks \in [1..n -> Blocks]
  BY <1>4 DEF BlockLists
<1>6. n \in Nat
  BY <1>2, <1>5
<1>7. p.blocks \in Seq(Blocks) /\ Len(p.blocks) = n
  BY <1>5, <1>6
<1> QED BY <1>1, <1>4, <1>6, <1>7

\* The header says how long a packet is, and the blocks are where a report has them.
LEMMA AsWordsIs ==
  ASSUME NEW p \in Packets
  PROVE  /\ AsWords(p) \in Seq(WordSet) /\ Len(AsWords(p)) \in Nat /\ Len(AsWords(p)) >= 2
         /\ AsWords(p)[1] = Header(p.pt, Len(p.blocks), Len(AsWords(p)) - 1)
         /\ p.pt = "RR" => /\ Len(AsWords(p)) = 2 + Len(p.blocks) * BlockWords
                           /\ \A i \in 1..Len(p.blocks) :
                                AsWords(p)[3 + (i - 1) * BlockWords] = p.blocks[i]
<1> DEFINE first == FirstBlock(p)
           L == Len(p.blocks)
           size == first - 1 + L * 6
           word(i) == IF i = 1 THEN Header(p.pt, L, size - 1)
                      ELSE IF i >= first /\ (i - first) % 6 = 0
                      THEN p.blocks[(i - first) \div 6 + 1]
                      ELSE Other
<1>1. L \in Nat /\ p.blocks \in Seq(Blocks) /\ p.pt \in {"SR", "RR", "BYE"}
  BY PacketType
<1>2. first \in 3..8 /\ (p.pt = "RR" => first = 3)
  BY DEF FirstBlock, SenderWords
<1>3. AsWords(p) = [i \in 1..size |-> word(i)]
  BY DEF AsWords, BlockWords
<1> HIDE DEF first, L
<1>4. size \in Nat /\ size >= 2
  BY <1>1, <1>2
<1>5. ASSUME NEW i \in 1..size PROVE word(i) \in WordSet
  <2>1. CASE i = 1
    BY <1>1, <1>4, <2>1 DEF Header, WordSet
  <2>2. CASE i # 1 /\ i >= first /\ (i - first) % 6 = 0
    <3>1. (i - first) \div 6 + 1 \in 1..L
      <4> DEFINE x == i - first
      <4>1. x \in Nat /\ x < L * 6 /\ x % 6 = 0
        BY <1>1, <1>2, <2>2
      <4> HIDE DEF x
      <4> QED BY <1>1, <4>1 DEF x
    <3>2. p.blocks[(i - first) \div 6 + 1] \in Blocks
      BY <1>1, <3>1 DEF L
    <3> QED BY <2>2, <3>2 DEF WordSet
  <2>3. CASE i # 1 /\ ~(i >= first /\ (i - first) % 6 = 0)
    BY <2>3 DEF WordSet
  <2> QED BY <2>1, <2>2, <2>3
<1>6. AsWords(p) \in Seq(WordSet) /\ Len(AsWords(p)) = size
  <2> HIDE DEF word, size
  <2> QED BY <1>3, <1>4, <1>5
<1>7. AsWords(p)[1] = Header(p.pt, L, size - 1)
  BY <1>3, <1>4
<1>8. ASSUME p.pt = "RR", NEW i \in 1..L PROVE AsWords(p)[3 + (i - 1) * 6] = p.blocks[i]
  <2> DEFINE x == 3 + (i - 1) * 6
  <2>1. /\ x \in 1..size /\ x # 1 /\ x >= first
        /\ (x - first) % 6 = 0 /\ (x - first) \div 6 + 1 = i
    BY <1>1, <1>2, <1>8
  <2> HIDE DEF x, size
  <2>2. AsWords(p)[x] = p.blocks[i]
    BY <1>3, <2>1
  <2> QED BY <2>2 DEF x
<1>9. p.pt = "RR" => size = 2 + L * 6
  BY <1>1, <1>2
<1> QED BY <1>4, <1>6, <1>7, <1>8, <1>9 DEF L, BlockWords

\* The words of a compound grow by the words of each packet.
LEMMA JoinedIs ==
  ASSUME NEW c \in Compounds
  PROVE  /\ Len(c) \in Nat \ {0} /\ \A i \in 1..Len(c) : c[i] \in Packets
         /\ Joined(c) \in [0..Len(c) -> Seq(WordSet)]
         /\ Joined(c)[0] = <<>>
         /\ \A n \in 1..Len(c) : Joined(c)[n] = Joined(c)[n - 1] \o AsWords(c[n])
<1>1. PICK N \in 1..MaxPackets : c \in [1..N -> Packets]
  BY DEF Compounds
<1>2. N \in Nat \ {0} /\ Len(c) = N
  <2>1. MaxPackets \in Nat
    BY ReportsAssumption
  <2>2. N \in Nat \ {0}
    BY <1>1, <2>1
  <2> QED BY <1>1, <2>2
<1> DEFINE Body(g) == [n \in 0..N |-> IF n = 0 THEN <<>> ELSE g[n - 1] \o AsWords(c[n])]
           upTo == CHOOSE g : g = Body(g)
           Step == [q \in Nat \X Seq(WordSet) |->
                      IF q[1] \in 1..N THEN q[2] \o AsWords(c[q[1]]) ELSE q[2]]
<1>3. Joined(c) = upTo
  BY <1>2 DEF Joined
<1>4. \A n \in 1..N : AsWords(c[n]) \in Seq(WordSet)
  BY <1>1, AsWordsIs
<1>5. PICK h \in [0..N -> Seq(WordSet)] : IsLoop(h, N, <<>>, Step)
  <2>1. Step \in [Nat \X Seq(WordSet) -> Seq(WordSet)]
    <3>1. ASSUME NEW q \in Nat \X Seq(WordSet)
          PROVE  (IF q[1] \in 1..N THEN q[2] \o AsWords(c[q[1]]) ELSE q[2]) \in Seq(WordSet)
      <4>1. q[2] \in Seq(WordSet)
        OBVIOUS
      <4>2. CASE q[1] \in 1..N
        <5>1. AsWords(c[q[1]]) \in Seq(WordSet)
          BY <1>4, <4>2
        <5> QED BY <4>1, <4>2, <5>1, ConcatProperties
      <4> QED BY <4>1, <4>2
    <3> QED BY <3>1
  <2>2. <<>> \in Seq(WordSet)
    OBVIOUS
  <2> HIDE DEF Step
  <2> QED BY <1>2, <2>1, <2>2, Recursion
<1>6. ASSUME NEW n \in 1..N PROVE h[n] = h[n - 1] \o AsWords(c[n])
  <2>1. n \in Nat /\ n - 1 \in 0..N
    BY <1>2
  <2>2. <<n, h[n - 1]>> \in Nat \X Seq(WordSet)
    BY <1>5, <2>1
  <2>3. Step[<<n, h[n - 1]>>] = h[n - 1] \o AsWords(c[n])
    BY <2>2
  <2> HIDE DEF Step
  <2> QED BY <1>5, <2>3 DEF IsLoop
<1>7. h = Body(h)
  <2>1. h[0] = <<>>
    BY <1>5 DEF IsLoop
  <2>2. \A n \in 0..N : h[n] = IF n = 0 THEN <<>> ELSE h[n - 1] \o AsWords(c[n])
    <3>1. \A n \in 0..N : n = 0 \/ n \in 1..N
      BY <1>2
    <3> QED BY <1>6, <2>1, <3>1
  <2> QED BY <1>5, <2>2
<1>8. upTo = Body(upTo)
  <2> HIDE DEF Body
  <2> QED BY <1>7
<1> HIDE DEF upTo
<1>9. upTo[0] = <<>> /\ \A n \in 1..N : upTo[n] = upTo[n - 1] \o AsWords(c[n])
  <2>1. 0 \in 0..N /\ \A n \in 1..N : n \in 0..N /\ n # 0
    BY <1>2
  <2> QED BY <1>8, <2>1
<1>10. upTo \in [0..N -> Seq(WordSet)]
  <2> DEFINE T == {n \in Nat : n <= N => upTo[n] \in Seq(WordSet)}
  <2>1. 0 \in T
    <3>1. upTo[0] \in Seq(WordSet)
      BY <1>9
    <3> QED BY <3>1
  <2>2. ASSUME NEW n \in Nat, n \in T PROVE n + 1 \in T
    <3> SUFFICES ASSUME n + 1 <= N PROVE upTo[n + 1] \in Seq(WordSet)
      OBVIOUS
    <3>1. n + 1 \in 1..N /\ (n + 1) - 1 = n /\ upTo[n] \in Seq(WordSet)
      BY <1>2, <2>2
    <3>2. upTo[n + 1] = upTo[n] \o AsWords(c[n + 1])
      BY <1>9, <3>1
    <3> QED BY <1>4, <3>1, <3>2, ConcatProperties
  <2> HIDE DEF T
  <2>3. Nat \subseteq T
    BY <2>1, <2>2, Induct
  <2>4. \A n \in 0..N : upTo[n] \in Seq(WordSet)
    BY <1>2, <2>3 DEF T
  <2> QED BY <1>8, <2>4
<1> QED BY <1>1, <1>2, <1>3, <1>9, <1>10

\* Where packet i ends. Packets lie one behind the other.
End(c, i) == Len(Joined(c)[i])

\* The words up to packet n are those up to the packet before it, and its own.
LEMMA Ends ==
  ASSUME NEW c \in Compounds
  PROVE  /\ \A n \in 0..Len(c) : End(c, n) \in Nat
         /\ End(c, 0) = 0
         /\ \A n \in 1..Len(c) : End(c, n) = End(c, n - 1) + Len(AsWords(c[n]))
         /\ \A n \in 1..Len(c) : \A j \in 1..End(c, n) :
              Joined(c)[n][j] = IF j <= End(c, n - 1) THEN Joined(c)[n - 1][j]
                                ELSE AsWords(c[n])[j - End(c, n - 1)]
<1> DEFINE U == Joined(c)
<1>1. /\ Len(c) \in Nat /\ U \in [0..Len(c) -> Seq(WordSet)] /\ U[0] = <<>>
      /\ \A n \in 1..Len(c) : U[n] = U[n - 1] \o AsWords(c[n]) /\ AsWords(c[n]) \in Seq(WordSet)
  BY JoinedIs, AsWordsIs
<1> HIDE DEF U
<1>2. ASSUME NEW n \in 1..Len(c)
      PROVE  /\ Len(U[n]) = Len(U[n - 1]) + Len(AsWords(c[n]))
             /\ \A j \in 1..Len(U[n]) : U[n][j] = IF j <= Len(U[n - 1]) THEN U[n - 1][j]
                                                ELSE AsWords(c[n])[j - Len(U[n - 1])]
  <2>1. U[n - 1] \in Seq(WordSet) /\ AsWords(c[n]) \in Seq(WordSet)
        /\ U[n] = U[n - 1] \o AsWords(c[n])
    <3>1. n - 1 \in 0..Len(c)
      BY <1>1
    <3> QED BY <1>1, <3>1
  <2>2. Len(U[n]) = Len(U[n - 1]) + Len(AsWords(c[n]))
    BY <2>1, ConcatProperties
  <2>3. \A j \in 1..(Len(U[n - 1]) + Len(AsWords(c[n]))) :
          U[n][j] = IF j <= Len(U[n - 1]) THEN U[n - 1][j] ELSE AsWords(c[n])[j - Len(U[n - 1])]
    BY <2>1, ConcatProperties
  <2> QED BY <2>2, <2>3
<1>3. \A n \in 0..Len(c) : Len(U[n]) \in Nat
  BY <1>1
<1>4. Len(U[0]) = 0
  BY <1>1
<1> QED BY <1>2, <1>3, <1>4 DEF End, U

\* A packet is found unchanged in the whole datagram.
LEMMA InDatagram ==
  ASSUME NEW c \in Compounds
  PROVE  /\ \A m, n \in 0..Len(c) : m < n => End(c, m) < End(c, n)
         /\ \A n \in 0..Len(c) : n <= End(c, n)
         /\ Len(Datagram(c)) = End(c, Len(c))
         /\ \A i \in 1..Len(c) : \A j \in 1..Len(AsWords(c[i])) :
              Datagram(c)[End(c, i - 1) + j] = AsWords(c[i])[j]
<1> DEFINE N == Len(c)
           Size(i) == Len(AsWords(c[i]))
<1>1. /\ N \in Nat /\ \A i \in 1..N : Size(i) \in Nat /\ Size(i) >= 2
      /\ \A n \in 0..N : End(c, n) \in Nat
      /\ End(c, 0) = 0
      /\ \A n \in 1..N : End(c, n) = End(c, n - 1) + Size(n)
      /\ \A n \in 1..N : \A j \in 1..End(c, n) :
           Joined(c)[n][j] = IF j <= End(c, n - 1) THEN Joined(c)[n - 1][j]
                             ELSE AsWords(c[n])[j - End(c, n - 1)]
  BY JoinedIs, AsWordsIs, Ends
<1> HIDE DEF N, Size
<1>2. \A n \in 0..N : n <= End(c, n) /\ \A m \in 0..N : m < n => End(c, m) < End(c, n)
  <2> DEFINE T == {n \in Nat : n <= N =>
                     n <= End(c, n) /\ \A m \in 0..N : m < n => End(c, m) < End(c, n)}
  <2>1. 0 \in T
    BY <1>1
  <2>2. ASSUME NEW n \in Nat, n \in T PROVE n + 1 \in T
    <3> SUFFICES ASSUME n + 1 <= N
                 PROVE  /\ n + 1 <= End(c, n + 1)
                        /\ \A m \in 0..N : m < n + 1 => End(c, m) < End(c, n + 1)
      OBVIOUS
    <3>1. n + 1 \in 1..N /\ (n + 1) - 1 = n /\ n \in 0..N
      BY <1>1
    <3>2. End(c, n + 1) = End(c, n) + Size(n + 1) /\ Size(n + 1) \in Nat /\ Size(n + 1) >= 2
      BY <1>1, <3>1
    <3>3. End(c, n) \in Nat /\ n <= End(c, n) /\ \A m \in 0..N : m < n => End(c, m) < End(c, n)
      BY <1>1, <2>2, <3>1
    <3>4. ASSUME NEW m \in 0..N, m < n + 1 PROVE End(c, m) < End(c, n + 1)
      <4>1. m = n \/ m < n
        BY <3>1, <3>4
      <4>2. End(c, m) <= End(c, n) /\ End(c, m) \in Nat
        BY <1>1, <3>3, <4>1
      <4> QED BY <3>2, <3>3, <4>2
    <3> QED BY <3>2, <3>3, <3>4
  <2> HIDE DEF T
  <2>3. Nat \subseteq T
    BY <2>1, <2>2, Induct
  <2> QED BY <1>1, <2>3 DEF T
<1>3. ASSUME NEW i \in 1..N, NEW j \in 1..Size(i)
      PROVE  Joined(c)[N][End(c, i - 1) + j] = AsWords(c[i])[j]
  <2> DEFINE x == End(c, i - 1) + j
             T == {n \in Nat : i <= n /\ n <= N => Joined(c)[n][x] = AsWords(c[i])[j]}
  <2>1. /\ i - 1 \in 0..N /\ End(c, i - 1) \in Nat /\ x \in Nat /\ x > End(c, i - 1)
        /\ x <= End(c, i) /\ x - End(c, i - 1) = j /\ i \in 0..N /\ End(c, i) \in Nat
    <3>1. i - 1 \in 0..N /\ i \in 0..N
      BY <1>1
    <3>2. End(c, i - 1) \in Nat /\ End(c, i) \in Nat /\ End(c, i) = End(c, i - 1) + Size(i)
      BY <1>1, <3>1
    <3>3. j \in Nat /\ j >= 1 /\ j <= Size(i) /\ Size(i) \in Nat
      BY <1>1
    <3> QED BY <3>1, <3>2, <3>3
  <2> HIDE DEF x
  <2>2. 0 \in T
    BY <1>1
  <2>3. ASSUME NEW n \in Nat, n \in T PROVE n + 1 \in T
    <3> SUFFICES ASSUME i <= n + 1, n + 1 <= N PROVE Joined(c)[n + 1][x] = AsWords(c[i])[j]
      OBVIOUS
    <3>1. n + 1 \in 1..N /\ (n + 1) - 1 = n /\ n \in 0..N /\ n + 1 \in 0..N
      BY <1>1
    <3>2. CASE i = n + 1
      <4>1. x \in 1..End(c, n + 1) /\ ~(x <= End(c, n)) /\ i - 1 = n
        BY <2>1, <3>1, <3>2
      <4>2. x - End(c, n) = j
        BY <2>1, <4>1
      <4>3. Joined(c)[n + 1][x] = AsWords(c[n + 1])[x - End(c, n)]
        BY <1>1, <3>1, <4>1
      <4> QED BY <3>2, <4>2, <4>3
    <3>3. CASE i # n + 1
      <4>1. i <= n
        BY <3>1, <3>3
      <4>2. End(c, i) <= End(c, n) /\ End(c, n) < End(c, n + 1)
        <5>1. End(c, i) < End(c, n) \/ i = n
          BY <1>2, <2>1, <3>1, <4>1
        <5>2. End(c, n) < End(c, n + 1)
          BY <1>2, <3>1
        <5> QED BY <1>1, <2>1, <3>1, <5>1, <5>2
      <4>3. x \in 1..End(c, n + 1) /\ x <= End(c, n)
        BY <1>1, <2>1, <3>1, <4>2
      <4>4. Joined(c)[n + 1][x] = Joined(c)[n][x]
        BY <1>1, <3>1, <4>3
      <4>5. n <= N
        BY <1>1, <3>1
      <4> QED BY <2>3, <4>1, <4>4, <4>5
    <3> QED BY <3>2, <3>3
  <2> HIDE DEF T
  <2>4. Nat \subseteq T
    BY <2>2, <2>3, Induct
  <2>5. N \in T /\ i <= N
    BY <1>1, <2>4
  <2> QED BY <2>5 DEF T, x
<1>4. Datagram(c) = Joined(c)[N]
  BY DEF Datagram, N
<1> QED BY <1>2, <1>3, <1>4 DEF End, N, Size

-----------------------------------------------------------------------------
(* The walk over the compound.                                             *)

\* At the begin of a packet the loop goes on exactly if the packet is whole.
LEMMA InsideIs ==
  ASSUME NEW c \in Compounds, NEW len \in 1..Len(Datagram(c)), NEW i \in 1..Len(c)
  PROVE  /\ Inside(Datagram(c), len, End(c, i - 1)) <=> End(c, i) <= len
         /\ End(c, i - 1) + Datagram(c)[End(c, i - 1) + 1].words + 1 = End(c, i)
<1> DEFINE e == End(c, i - 1)
           D == Datagram(c)
           size == Len(AsWords(c[i]))
<1>1. /\ Len(c) \in Nat /\ e \in Nat /\ size \in Nat /\ size >= 2 /\ c[i] \in Packets
      /\ End(c, i) = e + size
  <2>1. Len(c) \in Nat /\ c[i] \in Packets
    BY JoinedIs
  <2>2. i - 1 \in 0..Len(c)
    BY <2>1
  <2> QED BY <2>1, <2>2, Ends, AsWordsIs
<1>2. D[e + 1] = AsWords(c[i])[1]
  <2>1. 1 \in 1..size
    BY <1>1
  <2> QED BY <2>1, InDatagram
<1>3. D[e + 1].words = size - 1
  <2>1. AsWords(c[i])[1] = Header(c[i].pt, Len(c[i].blocks), size - 1)
    BY <1>1, AsWordsIs
  <2> QED BY <1>2, <2>1 DEF Header
<1>4. len \in Int
  OBVIOUS
<1> HIDE DEF e, D, size
<1> QED BY <1>1, <1>3, <1>4 DEF Inside, e, D

\* parseCompound() calls back with the begin of each whole packet.
LEMMA VisitedIs ==
  ASSUME NEW c \in Compounds, NEW len \in 1..Len(Datagram(c))
  PROVE  /\ \A i \in Whole(c, len) : End(c, i - 1) \in Visited(Datagram(c), len)
         /\ \A off \in Visited(Datagram(c), len) : \E i \in Whole(c, len) : off = End(c, i - 1)
<1> DEFINE N == Len(c)
           D == Datagram(c)
           S == {i \in 0..N : End(c, i) <= len}
           Next1(off) == IF Inside(D, len, off) THEN off + D[off + 1].words + 1 ELSE off
           Body(g) == [n \in 0..len |-> IF n = 0 THEN 0
                                        ELSE LET off == g[n - 1]
                                             IN  IF Inside(D, len, off)
                                                 THEN off + D[off + 1].words + 1 ELSE off]
           offset == CHOOSE g : g = Body(g)
<1>1. /\ N \in Nat \ {0} /\ \A n \in 0..N : End(c, n) \in Nat /\ n <= End(c, n)
      /\ End(c, 0) = 0
      /\ \A m, n \in 0..N : m < n => End(c, m) < End(c, n)
      /\ Len(D) = End(c, N)
  BY JoinedIs, Ends, InDatagram
<1>2. len \in Nat /\ len >= 1 /\ len <= End(c, N)
  <2>1. N \in 0..N
    BY <1>1
  <2>2. End(c, N) \in Nat
    BY <1>1, <2>1
  <2> QED BY <1>1, <2>2
<1>3. Visited(D, len) = {offset[n] : n \in {m \in 0..len : Inside(D, len, offset[m])}}
  BY DEF Visited
<1>4. \A i \in 1..N : /\ Inside(D, len, End(c, i - 1)) <=> End(c, i) <= len
                      /\ Next1(End(c, i - 1)) = IF End(c, i) <= len THEN End(c, i) ELSE End(c, i - 1)
  BY InsideIs
<1>5. ~Inside(D, len, End(c, N))
  <2>1. ~(End(c, N) < len)
    BY <1>1, <1>2
  <2> QED BY <2>1 DEF Inside
<1>6. Whole(c, len) = {i \in 1..N : End(c, i) <= len}
  BY DEF Whole, End
<1> HIDE DEF N, D
<1>7. PICK w \in 0..N : /\ End(c, w) <= len
                        /\ \A i \in 0..N : End(c, i) <= len <=> i <= w
  <2>1. S \in SUBSET (0..N) /\ 0 \in S /\ N \in Nat
    BY <1>1, <1>2
  <2>2. Max(S) \in S /\ \A k \in S : k <= Max(S)
    <3> HIDE DEF S
    <3> QED BY <2>1, MaxOf
  <2> DEFINE w == Max(S)
  <2>3. w \in 0..N /\ End(c, w) <= len /\ \A k \in 0..N : End(c, k) <= len => k <= w
    BY <2>2
  <2> HIDE DEF w
  <2>4. ASSUME NEW i \in 0..N, i <= w PROVE End(c, i) <= len
    <3>1. i = w \/ i < w
      BY <1>1, <2>3, <2>4
    <3>2. i < w => End(c, i) < End(c, w)
      BY <1>1, <2>3
    <3> QED BY <1>1, <1>2, <2>3, <3>1, <3>2
  <2> QED BY <2>3, <2>4
<1>8. w \in Nat /\ w <= len /\ w <= N
  BY <1>1, <1>2, <1>7
<1>9. ASSUME NEW k \in 0..w
      PROVE  /\ Inside(D, len, End(c, k)) <=> k < w
             /\ Next1(End(c, k)) = IF k < w THEN End(c, k + 1) ELSE End(c, k)
  <2>1. CASE k = N
    <3>1. ~(k < w)
      BY <1>8, <2>1
    <3> QED BY <1>5, <2>1, <3>1
  <2>2. CASE k # N
    <3>1. k + 1 \in 1..N /\ (k + 1) - 1 = k /\ k + 1 \in 0..N
      BY <1>1, <1>8, <2>2
    <3>2. End(c, k + 1) <= len <=> k < w
      <4>1. End(c, k + 1) <= len <=> k + 1 <= w
        BY <1>7, <3>1
      <4> QED BY <1>8, <4>1
    <3> HIDE DEF Next1
    <3> QED BY <1>4, <3>1, <3>2
  <2> QED BY <2>1, <2>2
<1> HIDE DEF Next1
<1> DEFINE h == [n \in 0..len |-> IF n <= w THEN End(c, n) ELSE End(c, w)]
<1>10. h = Body(h)
  <2>1. ASSUME NEW n \in 1..len PROVE h[n] = Next1(h[n - 1])
    <3>1. n \in 0..len /\ n - 1 \in 0..len
      BY <1>2
    <3>2. CASE n <= w
      <4>1. n - 1 \in 0..w /\ n - 1 < w /\ (n - 1) + 1 = n /\ n - 1 <= w
        BY <1>8, <3>2
      <4>2. h[n] = End(c, n) /\ h[n - 1] = End(c, n - 1)
        BY <3>1, <3>2, <4>1
      <4> QED BY <1>9, <4>1, <4>2
    <3>3. CASE ~(n <= w)
      <4>1. h[n] = End(c, w) /\ h[n - 1] = End(c, w)
        <5>1. n - 1 <= w => n - 1 = w
          BY <1>8, <3>3
        <5> QED BY <3>1, <3>3, <5>1
      <4>2. w \in 0..w /\ ~(w < w)
        BY <1>8
      <4> QED BY <1>9, <4>1, <4>2
    <3> QED BY <3>2, <3>3
  <2>2. h[0] = 0
    BY <1>1, <1>2, <1>8
  <2>3. h = [n \in 0..len |-> IF n = 0 THEN 0 ELSE Next1(h[n - 1])]
    <3>1. \A n \in 0..len : n = 0 \/ n \in 1..len
      BY <1>2
    <3>2. \A n \in 0..len : h[n] = IF n = 0 THEN 0 ELSE Next1(h[n - 1])
      <4> HIDE DEF h
      <4> QED BY <2>1, <2>2, <3>1
    <3> QED BY <3>2
  <2> HIDE DEF h
  <2> QED BY <2>3 DEF Next1
<1>11. offset = Body(offset)
  <2> HIDE DEF Body, h
  <2> QED BY <1>10
<1> HIDE DEF offset
<1>12. \A n \in 0..len : offset[n] = h[n]
  <2> DEFINE T == {n \in Nat : n <= len => offset[n] = h[n]}
  <2>1. ASSUME NEW g, g = Body(g)
        PROVE  g[0] = 0 /\ \A n \in 1..len : g[n] = Next1(g[n - 1])
    <3>1. 0 \in 0..len /\ \A n \in 1..len : n \in 0..len /\ n # 0
      BY <1>2
    <3> QED BY <2>1, <3>1 DEF Next1
  <2>2. /\ offset[0] = 0 /\ \A n \in 1..len : offset[n] = Next1(offset[n - 1])
        /\ h[0] = 0 /\ \A n \in 1..len : h[n] = Next1(h[n - 1])
    <3> HIDE DEF h, Body
    <3> QED BY <1>10, <1>11, <2>1
  <2> HIDE DEF h
  <2>3. 0 \in T
    BY <2>2
  <2>4. ASSUME NEW n \in Nat, n \in T PROVE n + 1 \in T
    <3> SUFFICES ASSUME n + 1 <= len PROVE offset[n + 1] = h[n + 1]
      OBVIOUS
    <3>1. n + 1 \in 1..len /\ (n + 1) - 1 = n /\ n <= len
      BY <1>2
    <3> QED BY <2>2, <2>4, <3>1
  <2> HIDE DEF T
  <2>5. Nat \subseteq T
    BY <2>3, <2>4, Induct
  <2> QED BY <1>2, <2>5 DEF T
<1>13. ASSUME NEW i \in Whole(c, len) PROVE End(c, i - 1) \in Visited(D, len)
  <2>1. i \in 1..N /\ i <= w /\ i - 1 \in 0..w /\ i - 1 < w /\ i - 1 \in 0..len /\ i - 1 <= w
    <3>1. i \in 1..N /\ i \in 0..N /\ End(c, i) <= len
      BY <1>1, <1>6
    <3>2. i <= w
      BY <1>7, <3>1
    <3> QED BY <1>1, <1>2, <1>8, <3>1, <3>2
  <2>2. offset[i - 1] = End(c, i - 1)
    BY <1>12, <2>1
  <2>3. Inside(D, len, offset[i - 1])
    BY <1>9, <2>1, <2>2
  <2> QED BY <1>3, <2>1, <2>2, <2>3
<1>14. ASSUME NEW off \in Visited(D, len) PROVE \E i \in Whole(c, len) : off = End(c, i - 1)
  <2>1. PICK n \in 0..len : Inside(D, len, offset[n]) /\ off = offset[n]
    BY <1>3
  <2>2. n < w
    <3> SUFFICES ASSUME ~(n < w) PROVE FALSE
      OBVIOUS
    <3>1. n <= w => n = w
      BY <1>2, <1>8
    <3>2. offset[n] = End(c, w)
      BY <1>12, <3>1
    <3>3. w \in 0..w /\ ~(w < w)
      BY <1>8
    <3> QED BY <1>9, <2>1, <3>2, <3>3
  <2>3. n + 1 \in 1..N /\ n + 1 \in 0..N /\ n + 1 <= w /\ (n + 1) - 1 = n /\ n <= w
    BY <1>1, <1>2, <1>8, <2>2
  <2>4. off = End(c, (n + 1) - 1)
    BY <1>12, <2>1, <2>3
  <2>5. n + 1 \in Whole(c, len)
    BY <1>6, <1>7, <2>3
  <2> QED BY <2>4, <2>5
<1> QED BY <1>13, <1>14 DEF D

\* parseRr() takes a packet for a report if it is one, and reads its blocks.
LEMMA ReportIs ==
  ASSUME NEW c \in Compounds, NEW i \in 1..Len(c)
  PROVE  /\ IsReport(Datagram(c), End(c, i - 1)) <=> c[i].pt = "RR"
         /\ c[i].pt = "RR" => ReportAt(Datagram(c), End(c, i - 1)) = c[i].blocks
<1> DEFINE e == End(c, i - 1)
           D == Datagram(c)
           p == c[i]
           W == AsWords(p)
           L == Len(p.blocks)
<1>1. /\ p \in Packets /\ e \in Nat /\ Len(W) \in Nat /\ Len(W) >= 2
      /\ L \in Nat /\ p.blocks \in Seq(Blocks)
      /\ W[1] = Header(p.pt, L, Len(W) - 1)
      /\ p.pt = "RR" => /\ Len(W) = 2 + L * 6
                        /\ \A b \in 1..L : W[3 + (b - 1) * 6] = p.blocks[b]
  <2>1. p \in Packets /\ Len(c) \in Nat
    BY JoinedIs
  <2>2. i - 1 \in 0..Len(c)
    BY <2>1
  <2>3. e \in Nat
    BY <2>2, Ends
  <2> HIDE DEF e, p
  <2> QED BY <2>1, <2>3, PacketType, AsWordsIs DEF BlockWords
<1>2. \A j \in 1..Len(W) : D[e + j] = W[j]
  BY InDatagram
<1> HIDE DEF e, D, p, W, L
<1>3. D[e + 1] = Header(p.pt, L, Len(W) - 1)
  <2>1. 1 \in 1..Len(W)
    BY <1>1
  <2> QED BY <1>1, <1>2, <2>1
<1>4. IsReport(D, e) <=> p.pt = "RR"
  BY <1>1, <1>3 DEF IsReport, Header, BlockWords
<1>5. ASSUME p.pt = "RR" PROVE ReportAt(D, e) = p.blocks
  <2>1. D[e + 1].rc = L
    BY <1>3 DEF Header
  <2>2. ASSUME NEW b \in 1..L PROVE D[e + 3 + (b - 1) * 6] = p.blocks[b]
    <3> DEFINE x == 3 + (b - 1) * 6
    <3>1. x \in 1..Len(W) /\ e + x = e + 3 + (b - 1) * 6
      BY <1>1, <1>5
    <3>2. W[x] = p.blocks[b]
      BY <1>1, <1>5
    <3> HIDE DEF x
    <3> QED BY <1>2, <3>1, <3>2
  <2>3. ReportAt(D, e) = [b \in 1..L |-> D[e + 3 + (b - 1) * 6]]
    BY <2>1 DEF ReportAt, BlockWords
  <2>4. p.blocks = [b \in 1..L |-> p.blocks[b]]
    BY <1>1 DEF L
  <2> QED BY <2>2, <2>3, <2>4
<1> QED BY <1>4, <1>5 DEF e, D, p

\* onRtcp() keeps of a datagram what the last report in it says.
LEMMA ReadAsSent ==
  ASSUME NEW c \in Compounds, NEW len \in 1..Len(Datagram(c))
  PROVE  /\ Stored(Datagram(c), len) = Sent(c, len)
         /\ Sent(c, len) = <<>> \/ \E list \in BlockLists : Sent(c, len) = <<list>>
<1> DEFINE D == Datagram(c)
           N == Len(c)
           R == {i \in Whole(c, len) : c[i].pt = "RR"}
           Q == {off \in Visited(D, len) : IsReport(D, off)}
<1>1. /\ N \in Nat /\ \A i \in 1..N : c[i] \in Packets
      /\ \A n \in 0..N : End(c, n) \in Nat
      /\ \A m, n \in 0..N : m < n => End(c, m) < End(c, n)
  BY JoinedIs, Ends, InDatagram
<1>2. Whole(c, len) \subseteq 1..N
  BY DEF Whole
<1>3. \A i \in R : End(c, i - 1) \in Q
  BY <1>2, VisitedIs, ReportIs
<1>4. \A off \in Q : \E i \in R : off = End(c, i - 1)
  <2> SUFFICES ASSUME NEW off \in Q PROVE \E i \in R : off = End(c, i - 1)
    OBVIOUS
  <2>1. PICK i \in Whole(c, len) : off = End(c, i - 1)
    BY VisitedIs
  <2>2. c[i].pt = "RR"
    BY <1>2, <2>1, ReportIs
  <2> QED BY <2>1, <2>2
<1>5. /\ Stored(D, len) = IF len < 3 \/ Q = {} THEN <<>> ELSE <<ReportAt(D, Max(Q))>>
      /\ Sent(c, len) = IF len < 3 \/ R = {} THEN <<>> ELSE <<c[Max(R)].blocks>>
  BY DEF Stored, Sent
<1>6. R \subseteq 1..N /\ \A i \in R : c[i].pt = "RR"
  BY <1>2
<1> HIDE DEF D, N, R, Q
<1>7. CASE R = {}
  <2>1. Q = {}
    BY <1>4, <1>7
  <2> QED BY <1>5, <1>7, <2>1 DEF D
<1>8. CASE R # {}
  <2> DEFINE m == Max(R)
  <2>1. m \in R /\ \A i \in R : i <= m
    <3>1. R \in SUBSET (0..N)
      BY <1>1, <1>6
    <3> QED BY <1>1, <1>8, <3>1, MaxOf
  <2> HIDE DEF m
  <2>2. m \in 1..N /\ m - 1 \in 0..N
    BY <1>1, <1>6, <2>1
  <2>3. ASSUME NEW off \in Q PROVE off \in Nat /\ off <= End(c, m - 1)
    <3>1. PICK i \in R : off = End(c, i - 1)
      BY <1>4
    <3>2. i - 1 \in 0..N /\ (i - 1 = m - 1 \/ i - 1 < m - 1)
      BY <1>1, <1>6, <2>1, <2>2
    <3>3. End(c, i - 1) \in Nat /\ End(c, m - 1) \in Nat
      BY <1>1, <2>2, <3>2
    <3>4. i - 1 < m - 1 => End(c, i - 1) < End(c, m - 1)
      BY <1>1, <2>2, <3>2
    <3> QED BY <3>1, <3>2, <3>3, <3>4
  <2>4. Max(Q) = End(c, m - 1) /\ Q # {}
    <3>1. Q \in SUBSET Nat /\ End(c, m - 1) \in Q /\ \A off \in Q : off <= End(c, m - 1)
      BY <1>3, <2>1, <2>3
    <3> QED BY <3>1, MaxIs
  <2>5. ReportAt(D, Max(Q)) = c[m].blocks
    <3>1. c[m].pt = "RR" /\ m \in 1..Len(c)
      BY <1>6, <2>1, <2>2 DEF N
    <3> QED BY <2>4, <3>1, ReportIs DEF D
  <2>6. c[m].blocks \in BlockLists
    BY <1>1, <2>2, PacketType
  <2> QED BY <1>5, <1>8, <2>4, <2>5, <2>6 DEF m, D
<1> QED BY <1>7, <1>8

\* What a session keeps of any datagram is what was sent in it.
LEMMA HeardIs ==
  ASSUME NEW heard \in Heard
  PROVE  /\ heard.stored = heard.sent
         /\ heard.sent = <<>> \/ \E list \in BlockLists : heard.sent = <<list>>
<1>1. PICK c \in Compounds : heard \in {HeardOf(c, len) : len \in 1..Len(Datagram(c))}
  BY DEF Heard
<1>2. PICK len \in 1..Len(Datagram(c)) : heard = HeardOf(c, len)
  BY <1>1
<1> QED BY <1>2, ReadAsSent DEF HeardOf

-----------------------------------------------------------------------------
(* The inductive invariant.                                                *)

\* A session that has read nothing.
LEMMA InitInv == Init => IInv
<1> SUFFICES ASSUME Init PROVE IInv
  OBVIOUS
<1> USE DEF Init
<1>1. <<>> \in BlockLists
  <2>1. <<>> \in [1..0 -> Blocks] /\ 0 \in 0..MaxBlocks
    BY ReportsAssumption
  <2> QED BY <2>1 DEF BlockLists
<1>2. TypeOK
  <2>1. version \in BOOLEAN
    BY Zenon
  <2>2. tracks \in Seq(Tracks) /\ Len(lines) = 0
    OBVIOUS
  <2> QED BY <1>1, <2>1, <2>2, SessionAssumption DEF TypeOK, Directions, Modes
<1>3. OfferInv
  <2>1. media = SectionOf(Len(lines))
    BY DEF SectionOf
  <2>2. Follow(<<>>)
    BY DEF Follow
  <2> QED BY <2>1, <2>2 DEF OfferInv
<1>4. VersionInv /\ ChosenInv /\ AnswerInv /\ LastReportKept
  BY DEF VersionInv, ChosenInv, AnswerInv, AnswerDescribesSession, LastReportKept
<1> QED BY <1>2, <1>3, <1>4 DEF IInv

\* Reading a line.
LEMMA ReadLineStep ==
  ASSUME IInv, NEW l \in Lines(Section + 1), ReadLine(l)
  PROVE  IInv'
<1>1. /\ TypeOK /\ OfferInv
      /\ stage = "parsing" /\ version
      /\ UNCHANGED <<stage, version, chosenVars, answerVars, reportVars>>
      /\ lines' = Append(lines, l) /\ Len(lines) < MaxLines
  BY DEF IInv, ReadLine
<1>2. lines \in Seq(LineRecords) /\ l \in LineRecords
  <2>1. lines \in Seq(LineRecords)
    BY <1>1 DEF OfferInv
  <2>2. Section + 1 \in 1..MaxLines
    BY <1>1, <2>1, SectionType, SessionAssumption
  <2> QED BY <2>1, <2>2 DEF LineRecords
<1>3. OfferInv'
  BY <1>1, OfferStep
<1>4. VersionInv' /\ ChosenInv' /\ AnswerInv' /\ LastReportKept'
  BY <1>1 DEF IInv, VersionInv, ChosenInv, AnswerInv, AnswerDescribesSession, LastReportKept,
              chosenVars, answerVars, reportVars
<1>5. TypeOK'
  <2>1. Len(lines') <= MaxLines
    BY <1>1, <1>2, SessionAssumption
  <2>2. media' \in MediaRecords \cup {NoMedia} /\ curDir' \in Directions
        /\ remoteIp' \in Ips \cup {NoIp}
    BY <1>1, <1>2, LineTypes
       DEF TypeOK, ReadLine, ReadAddress, ReadMedia, ReadDirection, ReadRtpmap, MediaRecords,
           Directions
  <2>3. tracks' \in Seq(Tracks)
    <3>1. CASE tracks' = tracks
      BY <1>1, <3>1 DEF TypeOK
    <3>2. CASE ReadRtpmap(l) /\ tracks' # tracks
      <4>1. PICK t : /\ tracks' = Append(tracks, t) /\ media # NoMedia /\ CodecOf(l) # {}
                     /\ l.k = "rtpmap"
                     /\ t = [media |-> media.media, port |-> media.port, ip |-> remoteIp,
                             pt |-> l.pt, codec |-> CHOOSE c \in CodecOf(l) : TRUE]
        BY <3>2 DEF ReadRtpmap
      <4>2. (CHOOSE c \in CodecOf(l) : TRUE) \in Codecs
        BY <4>1, OneCodec
      <4>3. media \in MediaRecords /\ remoteIp \in Ips \cup {NoIp} /\ tracks \in Seq(Tracks)
        BY <1>1, <4>1 DEF TypeOK
      <4>4. l.pt \in PayloadTypes
        BY <1>2, <4>1, LineTypes
      <4>5. t \in Tracks
        BY <4>1, <4>2, <4>3, <4>4 DEF Tracks, MediaRecords
      <4> QED BY <4>1, <4>3, <4>5
    <3>3. ReadRtpmap(l) \/ tracks' = tracks
      BY DEF ReadLine, ReadAddress, ReadMedia, ReadDirection
    <3> QED BY <3>1, <3>2, <3>3
  <2> QED BY <1>1, <2>1, <2>2, <2>3 DEF TypeOK, chosenVars, answerVars, reportVars
<1> QED BY <1>3, <1>4, <1>5 DEF IInv

\* Nothing but reading lines changes what is known of the offer.
LEMMA OfferKept ==
  ASSUME OfferInv, UNCHANGED <<lines, media, tracks>>
  PROVE  OfferInv' /\ Selected' = Selected
<1>1. lines' = lines /\ media' = media /\ tracks' = tracks
  OBVIOUS
<1>2. \A j : SectionOf(j)' = SectionOf(j)
  BY <1>1 DEF SectionOf
<1>3. ASSUME NEW src, Follow(src) PROVE Follow(src)'
  <2>1. \A j : (Usable(j)' <=> Usable(j)) /\ \A t : IsTrackOf(t, j)' <=> IsTrackOf(t, j)
    BY <1>1, <1>2 DEF Usable, IsTrackOf, CodecOf
  <2> QED BY <1>1, <1>3, <2>1 DEF Follow
<1>4. OfferInv'
  <2>1. media' = SectionOf(Len(lines))'
    BY <1>1 DEF OfferInv, SectionOf
  <2> QED BY <1>1, <1>3, <2>1 DEF OfferInv
<1>5. Selected' = Selected
  <2>1. BestVideo' = BestVideo /\ Audios' = Audios
    BY <1>1 DEF BestVideo, Audios, Outranks
  <2> QED BY <1>1, <2>1 DEF Selected
<1> QED BY <1>4, <1>5

\* The end of the offer, which selects the track.
LEMMA EndOfferStep ==
  ASSUME IInv, EndOffer
  PROVE  IInv'
<1>1. /\ TypeOK /\ OfferInv /\ VersionInv /\ ChosenInv /\ AnswerInv /\ LastReportKept
      /\ stage = "parsing" /\ version /\ mode' = media.mode /\ direction' = curDir /\ track' = Selected
      /\ stage' = (IF Selected = <<>> THEN "refused" ELSE "created")
      /\ UNCHANGED <<offerVars, answerVars, reportVars>>
  BY DEF IInv, EndOffer
<1>2. OfferInv' /\ Selected' = Selected
  BY <1>1, OfferKept DEF offerVars
<1>3. Selected = <<>> \/ (Len(Selected) = 1 /\ Selected[1] \in Tracks)
  <2>1. tracks \in Seq(Tracks)
    BY <1>1 DEF TypeOK
  <2>2. ASSUME NEW b \in 1..Len(tracks), Selected = <<tracks[b]>>
        PROVE  Len(Selected) = 1 /\ Selected[1] \in Tracks
    BY <2>1, <2>2
  <2> QED BY <2>1, <2>2, SelectedIs DEF Audios
<1>4. TypeOK'
  <2>1. mode' \in Modes
    <3>1. CASE media \in MediaRecords
      BY <1>1, <3>1 DEF MediaRecords
    <3>2. CASE media = NoMedia
      <4>1. media.mode = "UDP"
        BY <3>2 DEF NoMedia
      <4> QED BY <1>1, <4>1 DEF Modes
    <3> QED BY <1>1, <3>1, <3>2 DEF TypeOK
  <2> QED BY <1>1, <1>3, <2>1 DEF TypeOK, offerVars, answerVars, reportVars
<1>5. VersionInv' /\ ChosenInv' /\ AnswerInv' /\ LastReportKept'
  BY <1>1, <1>2
     DEF VersionInv, offerVars, ChosenInv, AnswerInv, AnswerDescribesSession, LastReportKept, answerVars, reportVars
<1> QED BY <1>2, <1>4, <1>5 DEF IInv

\* Finding "v=0", and the refusal of an offer without it: the offer is as it was.
LEMMA VersionStep ==
  ASSUME IInv, FindVersion \/ RefuseVersion
  PROVE  IInv'
<1>1. /\ TypeOK /\ OfferInv /\ VersionInv /\ ChosenInv /\ AnswerInv /\ LastReportKept
      /\ stage = "parsing" /\ version = FALSE /\ version' \in BOOLEAN
      /\ stage' = "parsing" \/ (stage' = "refused" /\ version' = version)
      /\ UNCHANGED <<lines, media, curDir, remoteIp, tracks, chosenVars, answerVars, reportVars>>
  BY DEF IInv, TypeOK, FindVersion, RefuseVersion, offerVars
<1>2. OfferInv' /\ Selected' = Selected
  BY <1>1, OfferKept
<1>3. Selected = <<>> /\ track = <<>>
  <2>1. tracks = <<>> /\ tracks \in Seq(Tracks) /\ Len(tracks) = 0
    BY <1>1 DEF VersionInv, TypeOK
  <2> QED BY <1>1, <2>1, SelectedIs DEF ChosenInv, Audios
<1>4. TypeOK'
  BY <1>1 DEF TypeOK, chosenVars, answerVars, reportVars
<1>5. VersionInv' /\ ChosenInv' /\ AnswerInv' /\ LastReportKept'
  BY <1>1, <1>2, <1>3
     DEF VersionInv, ChosenInv, AnswerInv, AnswerDescribesSession, LastReportKept,
         chosenVars, answerVars, reportVars
<1> QED BY <1>2, <1>4, <1>5 DEF IInv

\* The answer, made once.
LEMMA MakeAnswerStep ==
  ASSUME IInv, NEW p \in LocalPorts, MakeAnswerSdp(p)
  PROVE  IInv'
<1>1. /\ TypeOK /\ OfferInv /\ VersionInv /\ ChosenInv /\ AnswerInv /\ LastReportKept
      /\ stage \in {"created", "answered", "started"}
      /\ UNCHANGED <<offerVars, chosenVars, reportVars>>
  BY DEF IInv, MakeAnswerSdp
<1>2. OfferInv' /\ Selected' = Selected
  BY <1>1, OfferKept DEF offerVars
<1>3. CASE answer = <<>>
  <2>1. /\ answer' = <<AnswerTo(p)>> /\ localPort' = p /\ stage' = "answered"
        /\ Len(answer') = 1 /\ answer'[1] = AnswerTo(p)
    BY <1>3 DEF MakeAnswerSdp
  <2>2. track # <<>> /\ Len(track) = 1 /\ track[1] \in Tracks
    BY <1>1 DEF TypeOK
  <2>3. AnswerTo(p) \in Answers
    <3>1. AnswerDirection \in {"sendonly", "recvonly", "sendrecv"}
      BY <1>1 DEF AnswerDirection, TypeOK, Directions
    <3> QED BY <1>1, <2>2, <3>1 DEF AnswerTo, Answers, Tracks, TypeOK
  <2>4. TypeOK'
    BY <1>1, <2>1, <2>2, <2>3 DEF TypeOK, offerVars, chosenVars, reportVars
  <2>5. AnswerInv'
    BY <1>1, <2>1 DEF AnswerInv, AnswerDescribesSession, AnswerTo, chosenVars
  <2>6. VersionInv' /\ ChosenInv' /\ LastReportKept'
    BY <1>1, <1>2, <2>1 DEF VersionInv, offerVars, ChosenInv, LastReportKept, chosenVars, reportVars
  <2> QED BY <1>2, <2>4, <2>5, <2>6 DEF IInv
<1>4. CASE answer # <<>>
  <2>1. UNCHANGED <<answer, localPort, stage>>
    BY <1>4 DEF MakeAnswerSdp
  <2>2. TypeOK'
    BY <1>1, <2>1 DEF TypeOK, offerVars, chosenVars, reportVars
  <2>3. VersionInv' /\ ChosenInv' /\ AnswerInv' /\ LastReportKept'
    BY <1>1, <1>2, <2>1
       DEF VersionInv, offerVars, ChosenInv, AnswerInv, AnswerDescribesSession, LastReportKept, chosenVars, reportVars
  <2> QED BY <1>2, <2>2, <2>3 DEF IInv
<1> QED BY <1>3, <1>4

\* The start of an answered session.
LEMMA OnStartStep ==
  ASSUME IInv, OnStart
  PROVE  IInv'
<1>1. /\ TypeOK /\ OfferInv /\ VersionInv /\ ChosenInv /\ AnswerInv /\ LastReportKept
      /\ stage = "answered" /\ stage' = "started"
      /\ UNCHANGED <<offerVars, chosenVars, answerVars, reportVars>>
  BY DEF IInv, OnStart
<1>2. OfferInv' /\ Selected' = Selected
  BY <1>1, OfferKept DEF offerVars
<1>3. TypeOK'
  BY <1>1 DEF TypeOK, offerVars, chosenVars, answerVars, reportVars
<1>4. VersionInv' /\ ChosenInv' /\ AnswerInv' /\ LastReportKept'
  BY <1>1, <1>2 DEF VersionInv, offerVars, ChosenInv, AnswerInv, AnswerDescribesSession, LastReportKept,
                    chosenVars, answerVars, reportVars
<1> QED BY <1>2, <1>3, <1>4 DEF IInv

\* A datagram of reports.
LEMMA OnRecvRtcpStep ==
  ASSUME IInv, NEW heard \in Heard, OnRecvRtcp(heard)
  PROVE  IInv'
<1>1. /\ TypeOK /\ OfferInv /\ VersionInv /\ ChosenInv /\ AnswerInv /\ LastReportKept
      /\ blocks' = Latest(heard.stored, blocks) /\ reported' = Latest(heard.sent, reported)
      /\ UNCHANGED <<stage, offerVars, chosenVars, answerVars>>
  BY DEF IInv, OnRecvRtcp
<1>2. OfferInv' /\ Selected' = Selected
  BY <1>1, OfferKept DEF offerVars
<1>3. /\ heard.stored = heard.sent
      /\ heard.sent = <<>> \/ \E list \in BlockLists : heard.sent = <<list>>
  BY HeardIs
<1>4. LastReportKept'
  BY <1>1, <1>3 DEF LastReportKept
<1>5. reported' \in BlockLists
  BY <1>1, <1>3 DEF Latest, TypeOK
<1>6. TypeOK'
  BY <1>1, <1>4, <1>5 DEF TypeOK, LastReportKept, offerVars, chosenVars, answerVars
<1>7. VersionInv' /\ ChosenInv' /\ AnswerInv'
  BY <1>1, <1>2 DEF VersionInv, offerVars, ChosenInv, AnswerInv, AnswerDescribesSession, chosenVars, answerVars
<1> QED BY <1>2, <1>4, <1>6, <1>7 DEF IInv

\* IInv is inductive.
LEMMA NextInv == IInv /\ [Next]_vars => IInv'
<1> SUFFICES ASSUME IInv, [Next]_vars PROVE IInv'
  OBVIOUS
<1>1. CASE UNCHANGED vars
  <2>1. UNCHANGED <<stage, offerVars, chosenVars, answerVars, reportVars>>
    BY <1>1 DEF vars
  <2>2. OfferInv' /\ Selected' = Selected
    BY <2>1, OfferKept DEF IInv, offerVars
  <2>3. TypeOK'
    BY <2>1 DEF IInv, TypeOK, offerVars, chosenVars, answerVars, reportVars
  <2>4. VersionInv' /\ ChosenInv' /\ AnswerInv' /\ LastReportKept'
    BY <2>1, <2>2 DEF IInv, VersionInv, offerVars, ChosenInv, AnswerInv, AnswerDescribesSession, LastReportKept,
                      chosenVars, answerVars, reportVars
  <2> QED BY <2>2, <2>3, <2>4 DEF IInv
<1> QED BY <1>1, ReadLineStep, VersionStep, EndOfferStep, MakeAnswerStep, OnStartStep, OnRecvRtcpStep DEF Next

\* The inductive invariant holds in every reachable state.
THEOREM Invariance == Spec => []IInv
BY InitInv, NextInv, PTL DEF Spec

\* The variables have their types; a session that was created has a track.
THEOREM TypeCorrect == Spec => []TypeOK
<1>1. IInv => TypeOK
  BY DEF IInv
<1> QED BY <1>1, Invariance, PTL

\* Whatever the offer, the track selected is the first one of the best codec
\* offered (RtpSession.cpp:95).
THEOREM PreferenceCorrect == Spec => []TrackPreferred
<1>1. IInv => TrackPreferred
  BY Preferred DEF IInv
<1> QED BY <1>1, Invariance, PTL

\* An offer is refused for want of a "v=0" or of a codec the session knows, in whatever
\* section, and for nothing else (RtpSession.cpp:101-109, 274).
THEOREM RefusalCorrect == Spec => []RefusedOnlyUnknown
<1>1. IInv => RefusedOnlyUnknown
  BY Preferred DEF IInv
<1> QED BY <1>1, Invariance, PTL

\* The session has the port, the transport and the payload type of its answer
\* (RtpSession.cpp:391).
THEOREM AnswerCorrect == Spec => []AnswerDescribesSession
<1>1. IInv => AnswerDescribesSession
  BY DEF IInv, AnswerInv
<1> QED BY <1>1, Invariance, PTL

\* For every compound of packets and wherever it is cut off, the blocks kept are
\* those of the last report received completely (RtcpContext.cpp:195).
THEOREM ReportsCorrect == Spec => []LastReportKept
<1>1. IInv => LastReportKept
  BY DEF IInv
<1> QED BY <1>1, Invariance, PTL

=============================================================================
