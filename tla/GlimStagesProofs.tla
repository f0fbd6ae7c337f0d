--------------------------- MODULE GlimStagesProofs ---------------------------
(***************************************************************************)
(* Proofs about GlimStages, for any lag, any size of a submap and any      *)
(* number of frames and IMU samples.  The frames under way are one         *)
(* sequence, written down queue by queue; a step takes frames from the     *)
(* head of one queue to the tail of the next and leaves the sequence as it *)
(* is.  The submaps in it are flattened with a recursive function, of      *)
(* which two lemmas say what it is on the empty sequence and after Append. *)
(***************************************************************************)
EXTENDS GlimStages, SequenceTheorems, WellFoundedInduction, TLAPS

-----------------------------------------------------------------------------
(* Sequences.                                                              *)

\* Every nonempty set of naturals has a least element.
LEMMA LeastNatural ==
  ASSUME NEW T, T \subseteq Nat, T # {}
  PROVE  \E m \in T : \A n \in T : m <= n
  <1> DEFINE R == OpToRel(<, Nat)
  <1>1. \A n, m \in Nat : n < m => <<n, m>> \in R
    BY DEF OpToRel
  <1>2. IsWellFoundedOn(R, Nat)
    BY ONLY NatLessThanWellFounded, Zenon
  <1> HIDE DEF R
  <1>3. PICK m \in T : \A n \in T : ~(<<n, m>> \in R)
    BY <1>2, WFMin
  <1>4. \A n \in T : ~(n < m)
    BY <1>1, <1>3
  <1>5. QED
    BY <1>4

\* The equations of the function that FlattenSeq chooses.
Flattens(g, ss) ==
  \A i \in 1 .. Len(ss) : g[i] = IF i = 1 THEN ss[i] ELSE g[i - 1] \o ss[i]

\* A sequence of sequences has a function that flattens it, prefix by prefix.
LEMMA FlattensExists ==
  ASSUME NEW S, NEW ss \in Seq(Seq(S))
  PROVE  \E g \in [1 .. Len(ss) -> Seq(S)] : Flattens(g, ss)
  <1> DEFINE Good(n) ==
        \E g \in [1 .. n -> Seq(S)] :
          \A i \in 1 .. n : g[i] = IF i = 1 THEN ss[i] ELSE g[i - 1] \o ss[i]
             T == {n \in 0 .. Len(ss) : ~Good(n)}
  <1>0. Len(ss) \in Nat /\ \A i \in 1 .. Len(ss) : ss[i] \in Seq(S)
    BY LenProperties, ElementOfSeq
  <1>1. T = {}
    <2>1. SUFFICES ASSUME T # {} PROVE FALSE
      OBVIOUS
    <2>2. PICK m \in T : \A n \in T : m <= n
      <3>1. T \subseteq Nat
        BY <1>0
      <3> HIDE DEF T
      <3>2. QED
        BY <2>1, <3>1, LeastNatural
    <2>3. m # 0
      <3>1. [i \in 1 .. 0 |-> <<>>] \in [1 .. 0 -> Seq(S)]
        OBVIOUS
      <3>2. \A i \in 1 .. 0 : FALSE
        OBVIOUS
      <3>3. Good(0)
        BY ONLY <3>1, <3>2, Zenon
      <3>4. QED
        BY <3>3
    <2>4. m - 1 \in 0 .. Len(ss) /\ Good(m - 1) /\ m \in 1 .. Len(ss)
      <3> HIDE DEF Good
      <3>1. m \in 0 .. Len(ss) /\ m # 0
        BY <2>2, <2>3
      <3>2. m - 1 \in 0 .. Len(ss) /\ m \in 1 .. Len(ss) /\ ~(m <= m - 1)
        BY <1>0, <3>1
      <3>3. QED
        BY <2>2, <3>2
    <2>5. PICK g \in [1 .. m - 1 -> Seq(S)] :
            \A i \in 1 .. m - 1 : g[i] = IF i = 1 THEN ss[i] ELSE g[i - 1] \o ss[i]
      BY <2>4
    <2> DEFINE x == IF m = 1 THEN ss[m] ELSE g[m - 1] \o ss[m]
               h == [i \in 1 .. m |-> IF i = m THEN x ELSE g[i]]
    <2>6. x \in Seq(S)
      <3>1. ss[m] \in Seq(S)
        BY <1>0, <2>4
      <3>2. m # 1 => g[m - 1] \in Seq(S)
        BY <1>0, <2>4
      <3>3. QED
        BY <3>1, <3>2, ConcatProperties
    <2>7. h \in [1 .. m -> Seq(S)]
      BY <1>0, <2>4, <2>6
    <2>8. ASSUME NEW i \in 1 .. m
          PROVE  h[i] = IF i = 1 THEN ss[i] ELSE h[i - 1] \o ss[i]
      <3>1. h[m] = x /\ \A j \in 1 .. m - 1 : h[j] = g[j]
        <4> HIDE DEF x
        <4>1. m \in Nat /\ m \in 1 .. m /\ \A j \in 1 .. m - 1 : j \in 1 .. m /\ j # m
          BY <1>0, <2>4
        <4>2. QED
          BY <4>1
      <3>2. i # 1 => i - 1 \in 1 .. m - 1
        BY <1>0, <2>4
      <3> HIDE DEF h
      <3>3. CASE i = m
        BY <3>1, <3>2, <3>3
      <3>4. CASE i # m
        <4>1. i \in 1 .. m - 1
          BY <1>0, <2>4, <3>4
        <4>2. QED
          BY <2>5, <3>1, <3>2, <4>1
      <3>5. QED
        BY <3>3, <3>4
    <2>9. Good(m)
      BY <2>7, <2>8
    <2>10. QED
      BY <2>9
  <1>2. Good(Len(ss))
    <2>1. Len(ss) \in 0 .. Len(ss)
      BY <1>0
    <2> HIDE DEF Good
    <2>2. QED
      BY <1>1, <2>1
  <1>3. QED
    BY <1>2 DEF Flattens

SamePrefix(ss, tt, n) == \A i \in 1 .. n : ss[i] = tt[i]

\* Two such functions agree where their sequences do.
LEMMA FlattensAgree ==
  ASSUME NEW ss, NEW tt, Len(ss) \in Nat, Len(tt) \in Nat,
         NEW g, NEW h, Flattens(g, ss), Flattens(h, tt),
         NEW n \in 1 .. Len(ss), n <= Len(tt),
         SamePrefix(ss, tt, n)
  PROVE  g[n] = h[n]
  <1> DEFINE T == {i \in 1 .. n : g[i] # h[i]}
  <1>1. SUFFICES ASSUME T # {} PROVE FALSE
    <2>1. n \in 1 .. n
      OBVIOUS
    <2>2. QED
      BY <2>1
  <1>2. PICK m \in T : \A i \in T : m <= i
    <2>1. T \subseteq Nat
      OBVIOUS
    <2> HIDE DEF T
    <2>2. QED
      BY <1>1, <2>1, LeastNatural
  <1>3. /\ m \in 1 .. Len(ss) /\ m \in 1 .. Len(tt) /\ m \in 1 .. n
        /\ m # 1 => m - 1 \in 1 .. n /\ m - 1 \notin T
    BY <1>2
  <1>4. /\ g[m] = IF m = 1 THEN ss[m] ELSE g[m - 1] \o ss[m]
        /\ h[m] = IF m = 1 THEN tt[m] ELSE h[m - 1] \o tt[m]
    BY <1>3 DEF Flattens
  <1>5. m # 1 => g[m - 1] = h[m - 1]
    BY <1>3
  <1>6. g[m] = h[m]
    BY <1>3, <1>4, <1>5 DEF SamePrefix
  <1>7. QED
    BY <1>6

\* FlattenSeq is the last value of any such function.
LEMMA FlattenIsLast ==
  ASSUME NEW S, NEW ss \in Seq(Seq(S)), Len(ss) # 0, NEW g, Flattens(g, ss)
  PROVE  FlattenSeq(ss) = g[Len(ss)]
  <1> DEFINE Eq(f) == [i \in 1 .. Len(ss) |-> IF i = 1 THEN ss[i] ELSE f[i - 1] \o ss[i]]
             h == CHOOSE f : f = Eq(f)
  <1>1. FlattenSeq(ss) = h[Len(ss)]
    BY DEF FlattenSeq
  <1>2. PICK e \in [1 .. Len(ss) -> Seq(S)] : Flattens(e, ss)
    BY FlattensExists
  <1>3. e = Eq(e)
    BY <1>2 DEF Flattens
  <1>4. h = Eq(h)
    <2> HIDE DEF Eq
    <2>1. QED
      BY <1>3
  <1>5. \A f : \A i \in 1 .. Len(ss) : Eq(f)[i] = IF i = 1 THEN ss[i] ELSE f[i - 1] \o ss[i]
    OBVIOUS
  <1> HIDE DEF h, Eq
  <1>6. Flattens(h, ss)
    BY <1>4, <1>5 DEF Flattens
  <1>7. Len(ss) \in Nat /\ Len(ss) \in 1 .. Len(ss)
    BY LenProperties
  <1>8. SamePrefix(ss, ss, Len(ss))
    BY DEF SamePrefix
  <1>9. QED
    BY <1>1, <1>6, <1>7, <1>8, FlattensAgree

LEMMA FlattenTyped ==
  ASSUME NEW S, NEW ss \in Seq(Seq(S))
  PROVE  FlattenSeq(ss) \in Seq(S)
  <1>0. Len(ss) \in Nat
    BY LenProperties
  <1>1. CASE Len(ss) = 0
    <2>1. ss = <<>>
      BY <1>1, EmptySeq
    <2>2. FlattenSeq(ss) = <<>>
      BY <1>1, <2>1 DEF FlattenSeq
    <2>3. QED
      BY <2>2, EmptySeq
  <1>2. CASE Len(ss) # 0
    <2>1. PICK g \in [1 .. Len(ss) -> Seq(S)] : Flattens(g, ss)
      BY FlattensExists
    <2>2. FlattenSeq(ss) = g[Len(ss)]
      BY <1>2, <2>1, FlattenIsLast
    <2>3. Len(ss) \in 1 .. Len(ss)
      BY <1>0, <1>2
    <2>4. QED
      BY <2>1, <2>2, <2>3
  <1>3. QED
    BY <1>1, <1>2

LEMMA FlattenEmpty == FlattenSeq(<<>>) = <<>>
  BY DEF FlattenSeq

LEMMA FlattenAppend ==
  ASSUME NEW S, NEW ss \in Seq(Seq(S)), NEW s \in Seq(S)
  PROVE  FlattenSeq(Append(ss, s)) = FlattenSeq(ss) \o s
  <1> DEFINE tt == Append(ss, s)  n == Len(ss)
  <1>1. /\ tt \in Seq(Seq(S)) /\ Len(tt) = n + 1 /\ n \in Nat
        /\ \A i \in 1 .. n : tt[i] = ss[i]
        /\ tt[n + 1] = s
    BY AppendProperties, LenProperties
  <1> HIDE DEF tt
  <1>0. n # 0 => \A h, g : Flattens(h, ss) /\ Flattens(g, tt) => h[n] = g[n]
    <2>1. n # 0 => n \in 1 .. Len(ss) /\ n <= Len(tt) /\ SamePrefix(ss, tt, n)
      BY <1>1 DEF SamePrefix
    <2>2. QED
      BY <1>1, <2>1, FlattensAgree
  <1>2. PICK g \in [1 .. Len(tt) -> Seq(S)] : Flattens(g, tt)
    BY <1>1, FlattensExists
  <1>3. FlattenSeq(tt) = g[n + 1]
    BY <1>1, <1>2, FlattenIsLast
  <1>4. g[n + 1] = IF n = 0 THEN s ELSE g[n] \o s
    <2>1. n + 1 \in 1 .. Len(tt) /\ (n + 1 = 1 <=> n = 0) /\ (n + 1) - 1 = n
      BY <1>1
    <2>2. g[n + 1] = IF n + 1 = 1 THEN tt[n + 1] ELSE g[(n + 1) - 1] \o tt[n + 1]
      BY <1>2, <2>1 DEF Flattens
    <2>3. QED
      BY <1>1, <2>1, <2>2
  <1>5. CASE n = 0
    <2>1. ss = <<>>
      BY <1>5, EmptySeq
    <2>2. FlattenSeq(ss) = <<>> /\ <<>> \o s = s
      BY <2>1, FlattenEmpty, ConcatEmptySeq
    <2>3. QED
      BY <1>3, <1>4, <1>5, <2>2 DEF tt
  <1>6. CASE n # 0
    <2>1. PICK h \in [1 .. n -> Seq(S)] : Flattens(h, ss)
      BY FlattensExists
    <2>2. FlattenSeq(ss) = h[n]
      BY <1>6, <2>1, FlattenIsLast
    <2>3. h[n] = g[n]
      BY <1>0, <1>2, <1>6, <2>1
    <2>4. QED
      BY <1>3, <1>4, <1>6, <2>2, <2>3 DEF tt
  <1>7. QED
    BY <1>5, <1>6

\* What the operations on sequences return.
LEMMA SeqTyped ==
  ASSUME NEW S
  PROVE  /\ <<>> \in Seq(S)
         /\ \A s, t \in Seq(S) : s \o t \in Seq(S)
         /\ \A s \in Seq(S), e \in S : Append(s, e) \in Seq(S)
         /\ \A s \in Seq(S) : s # <<>> => Head(s) \in S /\ Tail(s) \in Seq(S)
         /\ \A e \in S : <<e>> \in Seq(S) /\ Len(<<e>>) = 1
         /\ \A s \in Seq(S) : Len(s) \in Nat
  BY EmptySeq, ConcatProperties, AppendProperties, HeadTailProperties, LenProperties

LEMMA SubSeqTyped ==
  ASSUME NEW S, NEW s \in Seq(S), NEW n \in 0 .. Len(s)
  PROVE  SubSeq(s, 1, n) \in Seq(S) /\ SubSeq(s, n + 1, Len(s)) \in Seq(S)
  <1>1. Len(s) \in Nat /\ \A i \in 1 .. Len(s) : s[i] \in S
    BY LenProperties, ElementOfSeq
  <1>2. (\A i \in 1 .. n : s[i] \in S) /\ (\A i \in n + 1 .. Len(s) : s[i] \in S)
    BY <1>1
  <1>3. n \in Int /\ n + 1 \in Int /\ Len(s) \in Int /\ 1 \in Int
    BY <1>1
  <1>4. QED
    BY <1>2, <1>3, SubSeqProperties

-----------------------------------------------------------------------------
(* The types.                                                              *)

LEMMA TypeInit == Init => TypeOK
  <1>1. <<>> \in Seq(Frames) /\ <<>> \in Seq(Submaps) /\ Len(<<>>) = 0
    BY EmptySeq
  <1>2. 0 \in 0 .. MaxImu /\ 0 \in 0 .. MaxFrames /\ 0 \in 0 .. MaxKeyframes - 1
    BY SizeAssumption, BoundAssumption
  <1>3. SUFFICES ASSUME Init PROVE TypeOK
    OBVIOUS
  <1>4. /\ imu \in [pushed : 0 .. MaxImu, drained : 0 .. MaxImu, seen : 0 .. MaxImu]
        /\ imu.seen <= imu.drained /\ imu.drained <= imu.pushed
        /\ subImu \in [queued : BOOLEAN, drained : BOOLEAN]
    BY <1>2, <1>3 DEF Init
  <1>5. /\ hand \in [Pumps -> Seq(Frames)] /\ maps \in [Pumps -> Seq(Submaps)]
        /\ ppc \in [Pumps -> PumpPlaces]
    BY <1>1, <1>3 DEF Init, PumpPlaces
  <1>6. /\ frameQ = <<>> /\ raw = <<>> /\ active = <<>> /\ outMarg = <<>> /\ subQ = <<>>
        /\ batch = <<>> /\ delayed = <<>> /\ current = <<>>
        /\ built = <<>> /\ outSub = <<>> /\ delivered = <<>>
    BY <1>3 DEF Init
  <1>7. /\ phase \in Phases /\ opc \in OdomPlaces /\ spc \in SubPlaces
        /\ frames \in 0 .. MaxFrames /\ keys \in 0 .. MaxKeyframes - 1 /\ ready \in BOOLEAN
        /\ skipped \subseteq Frames
        /\ eos \subseteq {"odom", "sub", "global"}
    BY <1>2, <1>3 DEF Init, Phases, OdomPlaces, SubPlaces
  <1>8. QED
    BY <1>1, <1>4, <1>5, <1>6, <1>7 DEF TypeOK

\* The invariant in four parts, one per group of variables: an action disturbs
\* one or two of them.
FeedTypes ==
  /\ phase \in Phases /\ frames \in 0 .. MaxFrames /\ skipped \subseteq Frames
  /\ eos \subseteq {"odom", "sub", "global"}

OdomTypes ==
  /\ imu \in [pushed : 0 .. MaxImu, drained : 0 .. MaxImu, seen : 0 .. MaxImu]
  /\ imu.seen <= imu.drained /\ imu.drained <= imu.pushed
  /\ {frameQ, raw, active, outMarg} \subseteq Seq(Frames)
  /\ ready \in BOOLEAN /\ opc \in OdomPlaces

PumpTypes ==
  /\ hand \in [Pumps -> Seq(Frames)] /\ maps \in [Pumps -> Seq(Submaps)]
  /\ ppc \in [Pumps -> PumpPlaces] /\ delivered \in Seq(Submaps)

SubTypes ==
  /\ {subQ, batch, delayed, current} \subseteq Seq(Frames)
  /\ subImu \in [queued : BOOLEAN, drained : BOOLEAN]
  /\ Len(delayed) <= 1 /\ keys \in 0 .. MaxKeyframes - 1
  /\ {built, outSub} \subseteq Seq(Submaps) /\ spc \in SubPlaces

LEMMA TypeParts ==
  TypeOK <=> FeedTypes /\ OdomTypes /\ PumpTypes /\ SubTypes
  <1>1. TypeOK => FeedTypes /\ OdomTypes /\ PumpTypes /\ SubTypes
    BY DEF TypeOK, FeedTypes, OdomTypes, PumpTypes, SubTypes
  <1>2. FeedTypes /\ OdomTypes /\ PumpTypes /\ SubTypes => TypeOK
    BY DEF TypeOK, FeedTypes, OdomTypes, PumpTypes, SubTypes
  <1>3. QED
    BY <1>1, <1>2

LEMMA PartsUnchanged ==
  ASSUME TypeOK
  PROVE  /\ UNCHANGED <<feedVars, eos>> => FeedTypes'
         /\ UNCHANGED odomVars => OdomTypes'
         /\ UNCHANGED <<pumpVars, delivered>> => PumpTypes'
         /\ UNCHANGED subVars => SubTypes'
         /\ FeedTypes' /\ OdomTypes' /\ PumpTypes' /\ SubTypes' => TypeOK'
  <1>1. UNCHANGED <<feedVars, eos>> => FeedTypes'
    BY TypeParts DEF FeedTypes, feedVars
  <1>2. UNCHANGED odomVars => OdomTypes'
    BY TypeParts DEF OdomTypes, odomVars
  <1>3. UNCHANGED <<pumpVars, delivered>> => PumpTypes'
    BY TypeParts DEF PumpTypes, pumpVars
  <1>4. UNCHANGED subVars => SubTypes'
    BY TypeParts DEF SubTypes, subVars
  <1>5. FeedTypes' /\ OdomTypes' /\ PumpTypes' /\ SubTypes' => TypeOK'
    BY TypeParts, PTL
  <1>6. QED
    BY <1>1, <1>2, <1>3, <1>4, <1>5

LEMMA TypeFeed ==
  ASSUME TypeOK, InsertImu \/ InsertFrame \/ Stop \/ JoinOdometry \/ JoinSubMapping
                   \/ JoinGlobalMapping
  PROVE  TypeOK'
  <1>1. CASE InsertImu
    <2>0. imu.pushed + 1 \in 0 .. MaxImu
      <3>1. imu.pushed \in 0 .. MaxImu /\ imu.pushed < MaxImu
        BY <1>1, TypeParts DEF OdomTypes, InsertImu
      <3>2. QED
        BY <3>1, BoundAssumption
    <2>1. /\ imu'.pushed = imu.pushed + 1 /\ imu'.drained = imu.drained /\ imu'.seen = imu.seen
          /\ imu' \in [pushed : 0 .. MaxImu, drained : 0 .. MaxImu, seen : 0 .. MaxImu]
      <3> DEFINE n == imu.pushed + 1
      <3>1. imu' = [imu EXCEPT !.pushed = n]
        BY <1>1 DEF InsertImu
      <3> HIDE DEF n
      <3>2. QED
        BY <2>0, <3>1 DEF TypeOK, n
    <2>2. imu'.seen <= imu'.drained /\ imu'.drained <= imu'.pushed
      <3>1. /\ imu.seen <= imu.drained /\ imu.drained <= imu.pushed
            /\ imu.drained \in 0 .. MaxImu /\ imu.pushed \in 0 .. MaxImu
        BY TypeParts DEF OdomTypes
      <3>2. QED
        BY <2>1, <3>1, BoundAssumption
    <2>3. OdomTypes'
      BY <1>1, <2>1, <2>2, TypeParts DEF OdomTypes, InsertImu
    <2>4. SubTypes'
      BY <1>1, TypeParts DEF SubTypes, InsertImu
    <2>5. UNCHANGED <<feedVars, eos>> /\ UNCHANGED <<pumpVars, delivered>>
      BY <1>1 DEF InsertImu
    <2>6. QED
      BY <2>3, <2>4, <2>5, PartsUnchanged
  <1>2. CASE InsertFrame
    <2>1. frames + 1 \in Frames
      BY <1>2, BoundAssumption DEF TypeOK, InsertFrame, Frames
    <2>2. Append(frameQ, frames + 1) \in Seq(Frames)
      BY <2>1, SeqTyped DEF TypeOK
    <2>3. frames + 1 \in 0 .. MaxFrames
      BY <2>1, BoundAssumption DEF Frames
    <2>4. FeedTypes'
      BY <1>2, <2>3, TypeParts DEF FeedTypes, InsertFrame
    <2>5. OdomTypes'
      BY <1>2, <2>2, TypeParts DEF OdomTypes, InsertFrame
    <2>6. UNCHANGED <<pumpVars, delivered>> /\ UNCHANGED subVars
      BY <1>2 DEF InsertFrame
    <2>7. QED
      BY <2>4, <2>5, <2>6, PartsUnchanged
  <1>3. CASE Stop \/ JoinOdometry \/ JoinSubMapping \/ JoinGlobalMapping
    <2>1. FeedTypes'
      BY <1>3, TypeParts
      DEF FeedTypes, Stop, JoinOdometry, JoinSubMapping, JoinGlobalMapping, Phases
    <2>2. UNCHANGED odomVars /\ UNCHANGED <<pumpVars, delivered>> /\ UNCHANGED subVars
      BY <1>3 DEF Stop, JoinOdometry, JoinSubMapping, JoinGlobalMapping
    <2>3. QED
      BY <2>1, <2>2, PartsUnchanged
  <1>4. QED
    BY <1>1, <1>2, <1>3

LEMMA TypePump ==
  ASSUME TypeOK,
         (\E p \in Pumps : TimerCallback(p)) \/ HandOverRemaining \/ TakeLastSubmaps
  PROVE  TypeOK'
  <1>0. Feeder \in Pumps
    BY FeederAssumption
  <1>1. ASSUME NEW p \in Pumps, TakeResults(p),
               UNCHANGED <<feedVars, maps, subVars, eos, delivered>>
        PROVE  TypeOK'
    <2>1. <<>> \in Seq(Frames) /\ outMarg \in Seq(Frames)
      BY EmptySeq DEF TypeOK
    <2>2. OdomTypes'
      BY <1>1, <2>1, TypeParts DEF OdomTypes, TakeResults
    <2>3. PumpTypes'
      BY <1>1, <2>1, TypeParts DEF PumpTypes, TakeResults, PumpPlaces
    <2>4. QED
      BY <1>1, <2>2, <2>3, PartsUnchanged
  <1>2. ASSUME NEW p \in Pumps, InsertMarginalized(p)
        PROVE  TypeOK'
    <2>1. UNCHANGED <<feedVars, eos>> /\ UNCHANGED odomVars
      BY <1>2 DEF InsertMarginalized
    <2>2. CASE hand[p] = <<>>
      <3>1. PumpTypes'
        BY <1>2, <2>2, TypeParts DEF PumpTypes, InsertMarginalized, PumpPlaces
      <3>2. UNCHANGED subVars
        BY <1>2, <2>2 DEF InsertMarginalized, subVars
      <3>3. QED
        BY <2>1, <3>1, <3>2, PartsUnchanged
    <2>3. CASE hand[p] # <<>>
      <3>1. Head(hand[p]) \in Frames /\ Tail(hand[p]) \in Seq(Frames)
        BY <2>3, SeqTyped DEF TypeOK
      <3>2. Append(subQ, Head(hand[p])) \in Seq(Frames)
        BY <3>1, SeqTyped DEF TypeOK
      <3>3. PumpTypes'
        BY <1>2, <2>3, <3>1, TypeParts DEF PumpTypes, InsertMarginalized
      <3>4. SubTypes'
        BY <1>2, <2>3, <3>2, TypeParts DEF SubTypes, InsertMarginalized
      <3>5. QED
        BY <2>1, <3>3, <3>4, PartsUnchanged
    <2>4. QED
      BY <2>2, <2>3
  <1>3. ASSUME NEW p \in Pumps, TakeSubmaps(p),
               UNCHANGED <<feedVars, odomVars, eos, delivered>>
        PROVE  TypeOK'
    <2>1. <<>> \in Seq(Submaps) /\ outSub \in Seq(Submaps)
      BY EmptySeq DEF TypeOK
    <2>2. PumpTypes'
      BY <1>3, <2>1, TypeParts DEF PumpTypes, TakeSubmaps, PumpPlaces
    <2>3. SubTypes'
      BY <1>3, <2>1, TypeParts DEF SubTypes, TakeSubmaps
    <2>4. QED
      BY <1>3, <2>2, <2>3, PartsUnchanged
  <1>4. ASSUME NEW p \in Pumps, DeliverSubmap(p)
        PROVE  TypeOK'
    <2>1. UNCHANGED <<feedVars, eos>> /\ UNCHANGED odomVars /\ UNCHANGED subVars
      BY <1>4 DEF DeliverSubmap
    <2>2. CASE maps[p] = <<>>
      <3>1. PumpTypes'
        BY <1>4, <2>2, TypeParts DEF PumpTypes, DeliverSubmap, PumpPlaces
      <3>2. QED
        BY <2>1, <3>1, PartsUnchanged
    <2>3. CASE maps[p] # <<>>
      <3>1. Head(maps[p]) \in Submaps /\ Tail(maps[p]) \in Seq(Submaps)
        BY <2>3, SeqTyped DEF TypeOK
      <3>2. Append(delivered, Head(maps[p])) \in Seq(Submaps)
        BY <3>1, SeqTyped DEF TypeOK
      <3>3. PumpTypes'
        BY <1>4, <2>3, <3>1, <3>2, TypeParts DEF PumpTypes, DeliverSubmap
      <3>4. QED
        BY <2>1, <3>3, PartsUnchanged
    <2>4. QED
      BY <2>2, <2>3
  <1>5. QED
    BY <1>0, <1>1, <1>2, <1>3, <1>4 DEF TimerCallback, HandOverRemaining, TakeLastSubmaps

LEMMA TypeOdom ==
  ASSUME TypeOK, Odometry
  PROVE  TypeOK'
  <1>1. CASE DrainImu
    <2>1. /\ imu'.pushed = imu.pushed /\ imu'.drained = imu.pushed /\ imu'.seen = imu.seen
          /\ imu' \in [pushed : 0 .. MaxImu, drained : 0 .. MaxImu, seen : 0 .. MaxImu]
      BY <1>1 DEF TypeOK, DrainImu
    <2>2. imu'.seen <= imu'.drained /\ imu'.drained <= imu'.pushed
      BY <2>1, BoundAssumption DEF TypeOK
    <2>3. QED
      BY <1>1, <2>1, <2>2 DEF TypeOK, DrainImu, feedVars, pumpVars, subVars, OdomPlaces
  <1>2. CASE DrainFrames
    <2>1. <<>> \in Seq(Frames) /\ raw \o frameQ \in Seq(Frames)
      BY EmptySeq, ConcatProperties DEF TypeOK
    <2>2. QED
      <3>1. OdomTypes'
        BY <1>2, <2>1, TypeParts DEF OdomTypes, DrainFrames, OdomPlaces
      <3>2. UNCHANGED <<feedVars, eos>> /\ UNCHANGED <<pumpVars, delivered>> /\ UNCHANGED subVars
        BY <1>2 DEF DrainFrames
      <3>3. QED
        BY <3>1, <3>2, PartsUnchanged
  <1>3. CASE TestOdometry
    <2>1. <<>> \in Seq(Frames) /\ outMarg \o active \in Seq(Frames)
      BY EmptySeq, ConcatProperties DEF TypeOK
    <2>2. outMarg' \in Seq(Frames) /\ active' \in Seq(Frames) /\ opc' \in OdomPlaces
      BY <1>3, <2>1 DEF TypeOK, TestOdometry, OdomPlaces
    <2>3. imu' = imu \/ imu' = [imu EXCEPT !.seen = imu.drained]
      BY <1>3 DEF TestOdometry
    <2>4. /\ imu' \in [pushed : 0 .. MaxImu, drained : 0 .. MaxImu, seen : 0 .. MaxImu]
          /\ imu'.seen <= imu'.drained /\ imu'.drained <= imu'.pushed
      <3>1. CASE imu' = imu
        BY <3>1 DEF TypeOK
      <3>2. CASE imu' = [imu EXCEPT !.seen = imu.drained]
        <4>1. imu'.seen = imu.drained /\ imu'.drained = imu.drained /\ imu'.pushed = imu.pushed
          BY <3>2 DEF TypeOK
        <4>2. imu' \in [pushed : 0 .. MaxImu, drained : 0 .. MaxImu, seen : 0 .. MaxImu]
          BY <3>2 DEF TypeOK
        <4>3. imu.drained \in Int /\ imu.drained <= imu.pushed
          BY DEF TypeOK
        <4>4. QED
          BY <4>1, <4>2, <4>3
      <3>3. QED
        BY <2>3, <3>1, <3>2
    <2>5. UNCHANGED <<feedVars, frameQ, raw, ready, pumpVars, subVars, eos, delivered>>
      BY <1>3 DEF TestOdometry
    <2>6. QED
      BY <2>2, <2>4, <2>5 DEF TypeOK, feedVars, pumpVars, subVars
  <1>4. CASE InsertRawFrame
    <2>1. CASE raw = <<>> \/ Held(Head(raw))
      BY <1>4, <2>1 DEF TypeOK, InsertRawFrame, pumpVars, subVars, OdomPlaces
    <2>2. CASE ~(raw = <<>> \/ Held(Head(raw)))
      <3> DEFINE f == Head(raw)
      <3>1. f \in Frames /\ Tail(raw) \in Seq(Frames)
        BY <2>2, SeqTyped DEF TypeOK
      <3>2. skipped \cup {f} \subseteq Frames
        BY <3>1 DEF TypeOK
      <3>3. /\ ready' \in BOOLEAN /\ active' \in Seq(Frames) /\ outMarg' \in Seq(Frames)
            /\ skipped' \subseteq Frames
        <4>1. Estimate(f)
          BY <1>4, <2>2 DEF InsertRawFrame
        <4>2. CASE skipped' = skipped \cup {f} /\ UNCHANGED <<ready, active, outMarg>>
          BY <3>2, <4>2 DEF TypeOK
        <4>3. CASE ready' = TRUE /\ skipped' = skipped
          <5> DEFINE all == Append(active, f)
          <5>1. PICK n \in 0 .. Len(active) :
                  /\ active' = SubSeq(all, n + 1, Len(all))
                  /\ outMarg' = outMarg \o SubSeq(all, 1, n)
            BY <4>1, <4>3 DEF Estimate
          <5>2. all \in Seq(Frames) /\ n \in 0 .. Len(all)
            BY <3>1, AppendProperties, LenProperties DEF TypeOK
          <5> HIDE DEF all
          <5>3. SubSeq(all, 1, n) \in Seq(Frames) /\ SubSeq(all, n + 1, Len(all)) \in Seq(Frames)
            BY <5>2, SubSeqTyped
          <5>4. QED
            BY <4>3, <5>1, <5>3, SeqTyped DEF TypeOK
        <4>4. QED
          BY <4>1, <4>2, <4>3 DEF Estimate
      <3>4. QED
        BY <1>4, <2>2, <3>1, <3>2, <3>3 DEF TypeOK, InsertRawFrame, pumpVars, subVars
    <2>3. QED
      BY <2>1, <2>2
  <1>5. QED
    BY <1>1, <1>2, <1>3, <1>4 DEF Odometry

LEMMA TypeSub ==
  ASSUME TypeOK, SubMapping
  PROVE  TypeOK'
  <1>0. <<>> \in Seq(Frames) /\ <<>> \in Seq(Submaps) /\ <<>> \in Submaps /\ Len(<<>>) = 0
    BY EmptySeq DEF Submaps
  <1>1. CASE PublishSubmaps
    <2>1. outSub \o built \in Seq(Submaps)
      BY ConcatProperties DEF TypeOK
    <2>2. QED
      BY <1>0, <1>1, <2>1 DEF TypeOK, PublishSubmaps, feedVars, odomVars, pumpVars, SubPlaces
  <1>2. CASE DrainSubImu
    BY <1>2 DEF TypeOK, DrainSubImu, feedVars, odomVars, pumpVars, SubPlaces
  <1>3. CASE DrainSubFrames
    <2>1. SubTypes'
      BY <1>0, <1>3, TypeParts DEF SubTypes, DrainSubFrames, SubPlaces
    <2>2. /\ UNCHANGED <<feedVars, eos>> /\ UNCHANGED odomVars
          /\ UNCHANGED <<pumpVars, delivered>>
      BY <1>3 DEF DrainSubFrames
    <2>3. QED
      BY <2>1, <2>2, PartsUnchanged
  <1>4. CASE TestSubMapping
    <2>1. Append(outSub, current) \in Seq(Submaps)
      BY AppendProperties DEF TypeOK, Submaps
    <2>2. outSub' \in Seq(Submaps)
      BY <1>4, <2>1 DEF TypeOK, TestSubMapping, LastSubmap
    <2>3. QED
      BY <1>4, <2>2 DEF TypeOK, TestSubMapping, feedVars, odomVars, pumpVars, SubPlaces
  <1>5. CASE InsertSubFrame
    <2>1. CASE batch = <<>>
      BY <1>5, <2>1 DEF TypeOK, InsertSubFrame, feedVars, odomVars, pumpVars, SubPlaces
    <2>2. CASE batch # <<>>
      <3>1. Head(batch) \in Frames /\ Tail(batch) \in Seq(Frames)
        BY <2>2, HeadTailProperties DEF TypeOK
      <3>2. <<Head(batch)>> \in Seq(Frames) /\ Len(<<Head(batch)>>) = 1
        BY <3>1, SeqTyped
      <3>3. current' \in Seq(Frames) /\ built' \in Seq(Submaps) /\ keys' \in 0 .. MaxKeyframes - 1
        <4>1. CASE delayed = <<>>
          BY <1>5, <2>2, <4>1 DEF TypeOK, InsertSubFrame
        <4>2. CASE delayed # <<>>
          <5> DEFINE whole == Append(current, Head(delayed))
          <5>1. whole \in Submaps
            BY <4>2, HeadTailProperties, AppendProperties DEF TypeOK, Submaps
          <5>2. Append(built, whole) \in Seq(Submaps)
            BY <5>1, AppendProperties DEF TypeOK
          <5>3. PICK key \in BOOLEAN :
                  LET n == keys + (IF key THEN 1 ELSE 0)
                  IN IF n >= MaxKeyframes
                       THEN current' = <<>> /\ keys' = 0 /\ built' = Append(built, whole)
                       ELSE current' = whole /\ keys' = n /\ UNCHANGED built
            BY <1>5, <2>2, <4>2 DEF InsertSubFrame, Build
          <5> HIDE DEF whole
          <5>4. CASE keys + (IF key THEN 1 ELSE 0) >= MaxKeyframes
            <6>1. 0 \in 0 .. MaxKeyframes - 1
              BY SizeAssumption
            <6>2. QED
              BY <1>0, <5>2, <5>3, <5>4, <6>1
          <5>5. CASE ~(keys + (IF key THEN 1 ELSE 0) >= MaxKeyframes)
            <6>1. current' = whole /\ keys' = keys + (IF key THEN 1 ELSE 0) /\ built' = built
              BY <5>3, <5>5
            <6>2. keys \in 0 .. MaxKeyframes - 1 /\ MaxKeyframes \in Nat
              BY SizeAssumption DEF TypeOK
            <6>3. QED
              BY <5>1, <5>5, <6>1, <6>2 DEF TypeOK, Submaps
          <5>6. QED
            BY <5>4, <5>5
        <4>3. QED
          BY <4>1, <4>2
      <3>4. delayed' \in Seq(Frames) /\ Len(delayed') <= 1 /\ batch' \in Seq(Frames)
        <4>1. delayed' = <<Head(batch)>> /\ batch' = Tail(batch)
          BY <1>5, <2>2 DEF InsertSubFrame
        <4>2. QED
          BY <3>1, <3>2, <4>1
      <3>5. QED
        BY <1>5, <2>2, <3>3, <3>4
        DEF TypeOK, InsertSubFrame, feedVars, odomVars, pumpVars, SubPlaces
    <2>3. QED
      BY <2>1, <2>2
  <1>6. QED
    BY <1>1, <1>2, <1>3, <1>4, <1>5 DEF SubMapping

LEMMA TypeStep == TypeOK /\ [Next]_vars => TypeOK'
  <1> SUFFICES ASSUME TypeOK, [Next]_vars PROVE TypeOK'
    OBVIOUS
  <1>1. CASE Next
    BY <1>1, TypeFeed, TypePump, TypeOdom, TypeSub DEF Next, Wait
  <1>2. CASE UNCHANGED vars
    BY <1>2 DEF TypeOK, vars, feedVars, odomVars, pumpVars, subVars
  <1>3. QED
    BY <1>1, <1>2

(***************************************************************************)
(* Every variable keeps its type; the sub mapping thread holds at most one *)
(* frame back and closes a submap before it has too many keyframes.        *)
(***************************************************************************)
THEOREM TypeCorrect == Spec => []TypeOK
  BY TypeInit, TypeStep, PTL DEF Spec

-----------------------------------------------------------------------------
(* Where the threads stand, and what is empty there.                       *)

\* What a pump holds between two calls is empty outside of them.
PumpPlace ==
  \A p \in Pumps : /\ ppc[p] # "insert" => hand[p] = <<>>
                   /\ ppc[p] # "deliver" => maps[p] = <<>>

\* Once odometry is told to end, the feeder is the only pump that runs.
ClosingPlace ==
  /\ "odom" \in eos <=> phase \in {"join_odom", "join_sub", "done"}
  /\ "sub" \in eos <=> phase \in {"join_sub", "done"}
  /\ phase \in {"join_odom", "join_sub", "done"} => \A p \in Pumps \ {Feeder} : ppc[p] = "idle"
  /\ phase = "join_sub" => ppc[Feeder] \in {"submaps", "deliver", "idle"}
  /\ phase = "done" => ppc[Feeder] = "idle"

\* The odometry thread ends with nothing left, and the feeder goes on when it has.
OdomPlace ==
  /\ opc = "ended" => "odom" \in eos /\ raw = <<>> /\ active = <<>>
  /\ \/ phase = "join_odom" /\ ppc[Feeder] \in {"insert", "submaps"}
     \/ phase \in {"join_sub", "done"}
     => opc = "ended" /\ outMarg = <<>>

\* The same for sub mapping; a round leaves neither a batch nor a submap.
SubPlace ==
  /\ spc = "ended" => "sub" \in eos
  /\ spc \notin {"submaps", "insert"} => built = <<>>
  /\ spc \notin {"test", "insert"} => batch = <<>>
  /\ \/ phase = "join_sub" /\ ppc[Feeder] # "submaps"
     \/ phase = "done"
     => spc = "ended" /\ outSub = <<>>

Places == PumpPlace /\ ClosingPlace /\ OdomPlace /\ SubPlace

LEMMA PlacesInit == Init => Places
  BY FeederAssumption DEF Init, Places, PumpPlace, ClosingPlace, OdomPlace, SubPlace

LEMMA PlacesStep == TypeOK /\ Places /\ [Next]_vars => Places'
  <1> SUFFICES ASSUME TypeOK, Places, [Next]_vars PROVE Places'
    OBVIOUS
  <1> USE DEF Places, PumpPlace, ClosingPlace, OdomPlace, SubPlace
  <1>0. Feeder \in Pumps /\ eos \subseteq {"odom", "sub", "global"}
    BY FeederAssumption DEF TypeOK
  <1>1. CASE InsertImu \/ InsertFrame
    BY <1>1 DEF InsertImu, InsertFrame, feedVars, pumpVars, subVars
  <1>2. ASSUME NEW p \in Pumps, phase = "feed", TakeResults(p),
               UNCHANGED <<feedVars, maps, subVars, eos, delivered>>
        PROVE  Places'
    BY <1>0, <1>2 DEF TakeResults, feedVars, subVars, TypeOK
  <1>3. ASSUME NEW p \in Pumps, InsertMarginalized(p)
        PROVE  Places'
    BY <1>0, <1>3 DEF InsertMarginalized, feedVars, odomVars, TypeOK
  <1>4. ASSUME NEW p \in Pumps, phase \in {"feed", "stop"}, TakeSubmaps(p),
               UNCHANGED <<feedVars, odomVars, eos, delivered>>
        PROVE  Places'
    BY <1>0, <1>4 DEF TakeSubmaps, feedVars, odomVars, TypeOK
  <1>5. ASSUME NEW p \in Pumps, DeliverSubmap(p)
        PROVE  Places'
    <2>1. UNCHANGED <<feedVars, odomVars, hand, subVars, eos>> /\ ppc[p] = "deliver"
      BY <1>5 DEF DeliverSubmap
    <2>2. CASE maps[p] = <<>>
      <3>1. maps' = maps /\ ppc' = [ppc EXCEPT ![p] = "idle"] /\ ppc \in [Pumps -> PumpPlaces]
        BY <1>5, <2>2 DEF DeliverSubmap, TypeOK
      <3>2. QED
        BY <1>0, <2>1, <2>2, <3>1 DEF feedVars, odomVars, subVars
    <2>3. CASE maps[p] # <<>>
      <3>1. ppc' = ppc /\ maps' = [maps EXCEPT ![p] = Tail(@)]
            /\ maps \in [Pumps -> Seq(Submaps)]
        BY <1>5, <2>3 DEF DeliverSubmap, TypeOK
      <3>2. QED
        BY <1>0, <2>1, <3>1 DEF feedVars, odomVars, subVars
    <2>4. QED
      BY <2>2, <2>3
  <1>6. CASE Stop
    BY <1>0, <1>6 DEF Stop, Feeding, odomVars, pumpVars, subVars
  <1>7. CASE JoinOdometry
    BY <1>0, <1>7 DEF JoinOdometry, odomVars, pumpVars, subVars
  <1>8. CASE HandOverRemaining
    BY <1>0, <1>8 DEF HandOverRemaining, TakeResults, feedVars, subVars, TypeOK
  <1>9. CASE JoinSubMapping
    BY <1>0, <1>9 DEF JoinSubMapping, odomVars, pumpVars, subVars
  <1>10. CASE TakeLastSubmaps
    BY <1>0, <1>10 DEF TakeLastSubmaps, TakeSubmaps, feedVars, odomVars, TypeOK
  <1>11. CASE JoinGlobalMapping
    BY <1>0, <1>11 DEF JoinGlobalMapping, odomVars, pumpVars, subVars
  <1>12. CASE Odometry
    <2>1. opc # "ended" /\ UNCHANGED <<phase, eos, pumpVars, subVars>>
      BY <1>12 DEF Odometry, DrainImu, DrainFrames, TestOdometry, InsertRawFrame, feedVars
    <2>2. opc' = "ended" => "odom" \in eos /\ raw' = <<>> /\ active' = <<>>
      BY <1>12 DEF Odometry, DrainImu, DrainFrames, TestOdometry, InsertRawFrame
    <2>3. QED
      BY <1>0, <2>1, <2>2 DEF pumpVars, subVars
  <1>13. CASE SubMapping
    <2>1. spc # "ended" /\ UNCHANGED <<feedVars, odomVars, pumpVars, eos>>
      BY <1>13 DEF SubMapping, PublishSubmaps, DrainSubImu, DrainSubFrames, TestSubMapping,
         InsertSubFrame
    <2>2. /\ spc' = "ended" => "sub" \in eos
          /\ spc' \notin {"submaps", "insert"} => built' = <<>>
          /\ spc' \notin {"test", "insert"} => batch' = <<>>
      BY <1>13 DEF SubMapping, PublishSubmaps, DrainSubImu, DrainSubFrames, TestSubMapping,
         InsertSubFrame
    <2>3. QED
      BY <1>0, <2>1, <2>2 DEF feedVars, odomVars, pumpVars
  <1>14. CASE UNCHANGED vars
    BY <1>14 DEF vars, feedVars, odomVars, pumpVars, subVars
  <1>15. QED
    BY <1>1, <1>2, <1>3, <1>4, <1>5, <1>6, <1>7, <1>8, <1>9, <1>10, <1>11, <1>12, <1>13, <1>14
    DEF Next, Wait, TimerCallback

THEOREM PlacesCorrect == Spec => []Places
  BY TypeCorrect, PlacesInit, PlacesStep, PTL DEF Spec

-----------------------------------------------------------------------------
(* The shutdown.                                                           *)

\* The submaps that have left sub mapping, in order.
Handed == delivered \o maps[Feeder] \o outSub

\* The submap under construction leaves as the last one when the thread ends.
LastLeaves == spc = "ended" /\ current # <<>> => Handed # <<>> /\ Last(Handed) = current

LEMMA ConcatMoves ==
  ASSUME NEW S, NEW s \in Seq(S), NEW t \in Seq(S), t # <<>>
  PROVE  Append(s, Head(t)) \o Tail(t) = s \o t
  <1>1. Head(t) \in S /\ Tail(t) \in Seq(S) /\ <<Head(t)>> \in Seq(S)
    BY HeadTailProperties, SeqTyped
  <1>2. Append(s, Head(t)) = s \o <<Head(t)>>
    BY <1>1, AppendIsConcat
  <1>3. (s \o <<Head(t)>>) \o Tail(t) = s \o (<<Head(t)>> \o Tail(t))
    BY <1>1, ConcatAssociative
  <1>4. <<Head(t)>> \o Tail(t) = t
    <2>1. Len(t) \in Nat \ {0} /\ Len(Tail(t)) = Len(t) - 1 /\ Len(<<Head(t)>>) = 1
      BY <1>1, HeadTailProperties, EmptySeq, SeqTyped
    <2>2. <<Head(t)>> \o Tail(t) \in Seq(S) /\ Len(<<Head(t)>> \o Tail(t)) = Len(t)
      BY <1>1, <2>1, ConcatProperties
    <2>3. ASSUME NEW i \in 1 .. Len(<<Head(t)>> \o Tail(t))
          PROVE  (<<Head(t)>> \o Tail(t))[i] = t[i]
      <3>1. i \in 1 .. Len(<<Head(t)>>) + Len(Tail(t))
        BY <2>1, <2>2
      <3>2. (<<Head(t)>> \o Tail(t))[i] =
              IF i <= 1 THEN <<Head(t)>>[i] ELSE Tail(t)[i - 1]
        BY <1>1, <2>1, <3>1, ConcatProperties
      <3>3. CASE i = 1
        BY <3>2, <3>3
      <3>4. CASE i # 1
        <4>1. i - 1 \in 1 .. Len(Tail(t)) /\ ~(i <= 1) /\ (i - 1) + 1 = i
          BY <2>1, <2>2, <3>4
        <4>2. QED
          BY <3>2, <4>1, HeadTailProperties
      <3>5. QED
        BY <3>3, <3>4
    <2>4. QED
      BY <2>2, <2>3, SeqEqual
  <1>5. QED
    BY <1>2, <1>3, <1>4

\* A concatenation of which two neighbours exchange elements stays the same.
LEMMA ConcatPair ==
  ASSUME NEW S, NEW p \in Seq(S), NEW x \in Seq(S), NEW y \in Seq(S),
         NEW u \in Seq(S), NEW v \in Seq(S), x \o y = u \o v
  PROVE  (p \o x) \o y = (p \o u) \o v
  <1>1. p \in Seq(S) /\ x \in Seq(S) /\ y \in Seq(S)
    OBVIOUS
  <1>2. p \in Seq(S) /\ u \in Seq(S) /\ v \in Seq(S)
    OBVIOUS
  <1>3. (p \o x) \o y = p \o (x \o y)
    BY ONLY <1>1, ConcatAssociative, SMTT(30)
  <1>4. (p \o u) \o v = p \o (u \o v)
    BY ONLY <1>2, ConcatAssociative, SMTT(30)
  <1>5. QED
    BY <1>3, <1>4

\* The last element of a concatenation is that of its second part.
LEMMA LastOfAppend ==
  ASSUME NEW S, NEW s \in Seq(S), NEW e \in S
  PROVE  Append(s, e) # <<>> /\ Last(Append(s, e)) = e
  BY AppendProperties DEF Last

LEMMA HandedTyped ==
  ASSUME TypeOK
  PROVE  /\ delivered \in Seq(Submaps) /\ maps[Feeder] \in Seq(Submaps)
         /\ outSub \in Seq(Submaps) /\ built \in Seq(Submaps)
         /\ delivered \o maps[Feeder] \in Seq(Submaps)
         /\ Handed \in Seq(Submaps) /\ Handed \o built \in Seq(Submaps)
  <1>1. /\ delivered \in Seq(Submaps) /\ maps[Feeder] \in Seq(Submaps)
        /\ outSub \in Seq(Submaps) /\ built \in Seq(Submaps)
    BY FeederAssumption DEF TypeOK
  <1>2. delivered \o maps[Feeder] \in Seq(Submaps)
    BY <1>1, ConcatProperties
  <1>3. Handed \in Seq(Submaps)
    BY <1>1, <1>2, ConcatProperties DEF Handed
  <1>4. QED
    BY <1>1, <1>2, <1>3, ConcatProperties

\* The feeder moves submaps without changing their order.
LEMMA TakeKeepsHanded ==
  ASSUME TypeOK, Places, TakeSubmaps(Feeder), delivered' = delivered
  PROVE  Handed' = Handed
  <1>1. maps[Feeder] = <<>>
    BY FeederAssumption DEF Places, PumpPlace, TakeSubmaps
  <1>2. maps'[Feeder] = outSub /\ outSub' = <<>>
    BY FeederAssumption DEF TakeSubmaps, TypeOK
  <1>3. <<>> \in Seq(Submaps) /\ <<>> \o outSub = outSub \o <<>>
    BY HandedTyped, EmptySeq, ConcatEmptySeq
  <1>4. (delivered \o <<>>) \o outSub = (delivered \o outSub) \o <<>>
    BY <1>3, HandedTyped, ConcatPair
  <1>5. QED
    BY <1>1, <1>2, <1>4 DEF Handed

LEMMA DeliverKeepsHanded ==
  ASSUME TypeOK, DeliverSubmap(Feeder)
  PROVE  Handed' = Handed
  <1>1. CASE maps[Feeder] = <<>>
    BY <1>1 DEF DeliverSubmap, Handed, subVars
  <1>2. CASE maps[Feeder] # <<>>
    <2>1. /\ delivered' = Append(delivered, Head(maps[Feeder]))
          /\ maps'[Feeder] = Tail(maps[Feeder]) /\ outSub' = outSub
      BY <1>2, FeederAssumption DEF DeliverSubmap, subVars, TypeOK
    <2>2. delivered' \o maps'[Feeder] = delivered \o maps[Feeder]
      BY <1>2, <2>1, HandedTyped, ConcatMoves
    <2>3. QED
      BY <2>1, <2>2 DEF Handed
  <1>3. QED
    BY <1>1, <1>2

\* Only the feeder and sub mapping touch the submaps when no other pump runs.
LEMMA LastLeavesStep == TypeOK /\ Places /\ LastLeaves /\ [Next]_vars => LastLeaves'
  <1> SUFFICES ASSUME TypeOK, Places, LastLeaves, [Next]_vars, (spc = "ended")', (current # <<>>)'
               PROVE  (Handed # <<>> /\ Last(Handed) = current)'
    BY DEF LastLeaves
  <1>0. Feeder \in Pumps
    BY FeederAssumption
  <1>1. CASE spc # "ended"
    <2>1. TestSubMapping /\ spc' = "ended"
      BY <1>1 DEF Next, InsertImu, InsertFrame, TimerCallback, TakeResults, InsertMarginalized,
         TakeSubmaps, DeliverSubmap, Stop, Wait, JoinOdometry, HandOverRemaining,
         JoinSubMapping, TakeLastSubmaps, JoinGlobalMapping, Odometry, DrainImu, DrainFrames,
         TestOdometry, InsertRawFrame, SubMapping, PublishSubmaps, DrainSubImu,
         DrainSubFrames, InsertSubFrame, subVars, vars
    <2>2. /\ current' = current /\ delivered' = delivered /\ maps' = maps
          /\ outSub' = Append(outSub, current)
      BY <2>1 DEF TestSubMapping, LastSubmap, pumpVars
    <2>3. current \in Submaps /\ <<current>> \in Seq(Submaps)
      BY SeqTyped DEF TypeOK, Submaps
    <2> DEFINE d == delivered \o maps[Feeder]
    <2>4. d \o Append(outSub, current) = Append(d \o outSub, current)
      <3>1. Append(outSub, current) = outSub \o <<current>>
        BY <2>3, HandedTyped, AppendIsConcat
      <3>2. d \o (outSub \o <<current>>) = (d \o outSub) \o <<current>>
        <4>1. d \in Seq(Submaps) /\ outSub \in Seq(Submaps) /\ <<current>> \in Seq(Submaps)
          BY <2>3, HandedTyped
        <4> HIDE DEF d
        <4>2. QED
          BY ONLY <4>1, ConcatAssociative, SMTT(30)
      <3>3. (d \o outSub) \o <<current>> = Append(d \o outSub, current)
        BY <2>3, HandedTyped, AppendIsConcat DEF Handed
      <3>4. QED
        BY <3>1, <3>2, <3>3
    <2>5. Handed' = Append(Handed, current)
      BY <2>2, <2>4 DEF Handed
    <2>6. QED
      BY <2>2, <2>3, <2>5, HandedTyped, LastOfAppend
  <1>2. CASE spc = "ended"
    <2>0. /\ phase \in {"join_sub", "done"}
          /\ \A p \in Pumps \ {Feeder} : ppc[p] = "idle"
      BY <1>2 DEF Places, ClosingPlace, SubPlace
    <2>1. current' = current /\ Handed' = Handed
      <3>1. CASE InsertImu \/ InsertFrame \/ Stop \/ JoinOdometry \/ JoinSubMapping
                   \/ JoinGlobalMapping \/ Odometry \/ UNCHANGED vars
        BY <3>1 DEF InsertImu, InsertFrame, Stop, JoinOdometry, JoinSubMapping,
           JoinGlobalMapping, Odometry, DrainImu, DrainFrames, TestOdometry, InsertRawFrame,
           Handed, pumpVars, subVars, vars
      <3>2. CASE SubMapping
        BY <1>2, <3>2 DEF SubMapping, PublishSubmaps, DrainSubImu, DrainSubFrames,
           TestSubMapping, InsertSubFrame
      <3>3. CASE \E p \in Pumps : TimerCallback(p)
        <4>1. InsertMarginalized(Feeder) \/ DeliverSubmap(Feeder)
          BY <2>0, <3>3 DEF TimerCallback, InsertMarginalized, DeliverSubmap
        <4>2. CASE InsertMarginalized(Feeder)
          BY <4>2 DEF InsertMarginalized, Handed
        <4>3. CASE DeliverSubmap(Feeder)
          BY <4>3, DeliverKeepsHanded DEF DeliverSubmap, subVars
        <4>4. QED
          BY <4>1, <4>2, <4>3
      <3>4. CASE HandOverRemaining
        BY <2>0, <3>4 DEF HandOverRemaining
      <3>5. CASE TakeLastSubmaps
        BY <3>5, TakeKeepsHanded DEF TakeLastSubmaps, TakeSubmaps
      <3>6. QED
        BY <3>1, <3>2, <3>3, <3>4, <3>5 DEF Next, Wait
    <2>2. QED
      BY <1>2, <2>1 DEF LastLeaves
  <1>3. QED
    BY <1>1, <1>2

(***************************************************************************)
(* When wait() returns, everything is in global mapping but what sits in   *)
(* the two input queues whose thread has stopped, and the last frame sub   *)
(* mapping saw.                                                            *)
(***************************************************************************)
THEOREM HandsOver == Spec => []ShutdownHandsOver
  <1>1. Init => LastLeaves
    BY DEF Init, LastLeaves
  <1>2. TypeOK /\ Places /\ LastLeaves => ShutdownHandsOver
    <2> SUFFICES ASSUME TypeOK, Places, LastLeaves, phase = "done" PROVE ShutdownHandsOver
      BY DEF ShutdownHandsOver
    <2>1. /\ raw = <<>> /\ active = <<>> /\ outMarg = <<>> /\ batch = <<>>
          /\ built = <<>> /\ outSub = <<>> /\ spc = "ended"
      BY DEF Places, OdomPlace, SubPlace
    <2>2. \A p \in Pumps : ppc[p] = "idle"
      BY FeederAssumption DEF Places, ClosingPlace
    <2>3. \A p \in Pumps : hand[p] = <<>> /\ maps[p] = <<>>
      BY <2>2 DEF Places, PumpPlace
    <2>4. Handed = delivered
      <3>1. delivered \o <<>> = delivered
        BY HandedTyped, ConcatEmptySeq
      <3>2. QED
        BY <2>1, <2>3, <3>1, FeederAssumption DEF Handed
    <2>5. QED
      BY <2>1, <2>3, <2>4 DEF LastLeaves, ShutdownHandsOver
  <1>3. QED
    BY <1>1, <1>2, LastLeavesStep, TypeCorrect, PlacesCorrect, PTL DEF Spec

-----------------------------------------------------------------------------
(* Sequences in order.                                                     *)

Ordered(s) == \A i, j \in DOMAIN s : i < j => s[i] < s[j]

\* What stands at each place of s \o <<e>> \o t.
LEMMA ConcatThree ==
  ASSUME NEW S, NEW s \in Seq(S), NEW t \in Seq(S), NEW e \in S
  PROVE  LET m == Len(s)  n == Len(t)  c == (s \o <<e>>) \o t IN
         /\ m \in Nat /\ n \in Nat
         /\ c \in Seq(S) /\ DOMAIN c = 1 .. m + n + 1
         /\ s \o t \in Seq(S) /\ DOMAIN (s \o t) = 1 .. m + n
         /\ \A i \in 1 .. m : c[i] = (s \o t)[i]
         /\ c[m + 1] = e
         /\ \A i \in m + 1 .. m + n : c[i + 1] = (s \o t)[i]
  <1> DEFINE m == Len(s)  n == Len(t)  b == s \o <<e>>  c == b \o t  d == s \o t
  <1>1. m \in Nat /\ n \in Nat /\ <<e>> \in Seq(S) /\ Len(<<e>>) = 1 /\ <<e>>[1] = e
    BY LenProperties, SeqTyped
  <1>2. /\ b \in Seq(S) /\ Len(b) = m + 1
        /\ \A i \in 1 .. m + 1 : b[i] = IF i <= m THEN s[i] ELSE <<e>>[i - m]
    BY <1>1, ConcatProperties
  <1>3. /\ d \in Seq(S) /\ Len(d) = m + n
        /\ \A i \in 1 .. m + n : d[i] = IF i <= m THEN s[i] ELSE t[i - m]
    BY <1>1, ConcatProperties
  <1> HIDE DEF b
  <1>4. /\ c \in Seq(S) /\ Len(c) = m + 1 + n
        /\ \A i \in 1 .. m + 1 + n : c[i] = IF i <= m + 1 THEN b[i] ELSE t[i - (m + 1)]
    <2>1. b \in Seq(S) /\ t \in Seq(S) /\ Len(b) = m + 1 /\ Len(t) = n
      BY <1>2
    <2> HIDE DEF m, n, d
    <2>2. /\ c \in Seq(S) /\ Len(c) = Len(b) + Len(t)
          /\ \A i \in 1 .. Len(b) + Len(t) : c[i] = IF i <= Len(b) THEN b[i] ELSE t[i - Len(b)]
      BY ONLY <2>1, ConcatProperties
    <2> HIDE DEF c
    <2>3. QED
      BY ONLY <2>1, <2>2
  <1>5. DOMAIN c = 1 .. m + n + 1 /\ DOMAIN d = 1 .. m + n
    <2>1. DOMAIN c = 1 .. Len(c) /\ DOMAIN d = 1 .. Len(d) /\ m + 1 + n = m + n + 1
      BY <1>1, <1>3, <1>4, LenProperties
    <2>2. QED
      BY <1>3, <1>4, <2>1
  <1> HIDE DEF m, n, c, d
  <1>6. ASSUME NEW i \in 1 .. m PROVE c[i] = d[i]
    <2>1. i \in 1 .. m + 1 /\ i \in 1 .. m + n /\ i \in 1 .. m + 1 + n /\ i <= m /\ i <= m + 1
      BY <1>1
    <2>2. QED
      BY <1>2, <1>3, <1>4, <2>1
  <1>7. c[m + 1] = e
    <2>1. /\ m + 1 \in 1 .. m + 1 /\ m + 1 \in 1 .. m + 1 + n /\ m + 1 <= m + 1
          /\ ~(m + 1 <= m) /\ (m + 1) - m = 1
      BY <1>1
    <2>2. QED
      BY <1>1, <1>2, <1>4, <2>1
  <1>8. ASSUME NEW i \in m + 1 .. m + n PROVE c[i + 1] = d[i]
    <2>1. /\ i + 1 \in 1 .. m + 1 + n /\ ~(i + 1 <= m + 1) /\ (i + 1) - (m + 1) = i - m
          /\ i \in 1 .. m + n /\ ~(i <= m)
      BY <1>1
    <2>2. c[i + 1] = t[i - m]
      BY <1>4, <2>1
    <2>3. d[i] = t[i - m]
      BY <1>3, <2>1
    <2>4. QED
      BY <2>2, <2>3
  <1>9. QED
    BY <1>1, <1>3, <1>4, <1>5, <1>6, <1>7, <1>8 DEF m, n, c, d, b

\* An element taken out of an ordered sequence leaves the others in order.
LEMMA OrderedRemove ==
  ASSUME NEW S, S \subseteq Int, NEW s \in Seq(S), NEW t \in Seq(S), NEW e \in S,
         Ordered((s \o <<e>>) \o t)
  PROVE  /\ Ordered(s \o t)
         /\ Elems(s \o t) = Elems((s \o <<e>>) \o t) \ {e}
         /\ e \in Elems((s \o <<e>>) \o t)
  <1> DEFINE m == Len(s)  n == Len(t)  c == (s \o <<e>>) \o t  d == s \o t
             Up(i) == IF i <= m THEN i ELSE i + 1
  <1>1. /\ m \in Nat /\ n \in Nat
        /\ DOMAIN c = 1 .. m + n + 1 /\ DOMAIN d = 1 .. m + n
        /\ \A i \in 1 .. m : c[i] = d[i]
        /\ c[m + 1] = e
        /\ \A i \in m + 1 .. m + n : c[i + 1] = d[i]
        /\ c \in Seq(S)
    BY ConcatThree
  <1>2. Ordered(c)
    OBVIOUS
  <1> HIDE DEF m, n, c, d
  <1>3. ASSUME NEW i \in 1 .. m + n
        PROVE  Up(i) \in 1 .. m + n + 1 /\ Up(i) # m + 1 /\ c[Up(i)] = d[i]
    <2>1. CASE i <= m
      BY <1>1, <2>1
    <2>2. CASE ~(i <= m)
      <3>1. i \in m + 1 .. m + n
        BY <1>1, <2>2
      <3>2. QED
        BY <1>1, <2>2, <3>1
    <2>3. QED
      BY <2>1, <2>2
  <1>4. \A i, j \in 1 .. m + n : i < j => Up(i) < Up(j)
    BY <1>1
  <1>5. \A k \in 1 .. m + n + 1 : k # m + 1 => \E i \in 1 .. m + n : Up(i) = k
    <2> SUFFICES ASSUME NEW k \in 1 .. m + n + 1, k # m + 1
                 PROVE  \E i \in 1 .. m + n : Up(i) = k
      OBVIOUS
    <2>1. CASE k <= m
      <3>1. k \in 1 .. m + n /\ Up(k) = k
        BY <1>1, <2>1
      <3> HIDE DEF Up
      <3>2. QED
        BY <3>1
    <2>2. CASE ~(k <= m)
      <3>1. k - 1 \in 1 .. m + n /\ Up(k - 1) = k
        BY <1>1, <2>2
      <3> HIDE DEF Up
      <3>2. QED
        BY <3>1
    <2>3. QED
      BY <2>1, <2>2
  <1> HIDE DEF Up
  <1>6. Ordered(d)
    BY <1>1, <1>2, <1>3, <1>4 DEF Ordered
  <1>7. m + 1 \in 1 .. m + n + 1
    BY <1>1
  <1>8. \A k \in 1 .. m + n + 1 : c[k] = e => k = m + 1
    <2> SUFFICES ASSUME NEW k \in 1 .. m + n + 1, c[k] = e PROVE k = m + 1
      OBVIOUS
    <2>1. ~(e < e) /\ e \in Int /\ k \in Int /\ m + 1 \in Int
      BY <1>1
    <2>2. k < m + 1 => c[k] < c[m + 1]
      BY <1>1, <1>2, <1>7 DEF Ordered
    <2>3. m + 1 < k => c[m + 1] < c[k]
      BY <1>1, <1>2, <1>7 DEF Ordered
    <2>4. QED
      BY <1>1, <2>1, <2>2, <2>3
  <1>9. Elems(d) = Elems(c) \ {e}
    <2>1. ASSUME NEW x \in Elems(d) PROVE x \in Elems(c) \ {e}
      <3>1. PICK i \in 1 .. m + n : x = d[i]
        BY <1>1 DEF Elems
      <3>2. QED
        BY <1>1, <1>3, <1>8, <3>1 DEF Elems
    <2>2. ASSUME NEW x \in Elems(c), x # e PROVE x \in Elems(d)
      <3>1. PICK k \in 1 .. m + n + 1 : x = c[k]
        BY <1>1 DEF Elems
      <3>2. k # m + 1
        BY <1>1, <2>2, <3>1
      <3>3. PICK i \in 1 .. m + n : Up(i) = k
        BY <1>5, <3>2
      <3>4. QED
        BY <1>1, <1>3, <3>1, <3>3 DEF Elems
    <2>3. QED
      BY <2>1, <2>2
  <1>10. e \in Elems(c)
    BY <1>1, <1>7 DEF Elems
  <1>11. QED
    BY <1>6, <1>9, <1>10 DEF c, d

\* Every element of s is below e.
AllBelow(s, e) == \A x \in Elems(s) : x < e

\* A new greatest element is appended in order.
LEMMA OrderedAppend ==
  ASSUME NEW S \in SUBSET Int, NEW s \in Seq(S), NEW e \in S, Ordered(s), AllBelow(s, e)
  PROVE  Ordered(Append(s, e)) /\ Elems(Append(s, e)) = Elems(s) \cup {e}
  <1> DEFINE n == Len(s)  c == Append(s, e)
  <1>1. /\ n \in Nat /\ DOMAIN s = 1 .. n /\ DOMAIN c = 1 .. n + 1
        /\ \A i \in 1 .. n : c[i] = s[i]
        /\ c[n + 1] = e
    <2>1. c \in Seq(S) /\ Len(c) = n + 1
      BY AppendProperties
    <2>2. QED
      BY <2>1, AppendProperties, LenProperties
  <1> HIDE DEF c, n
  <1>2. \A i \in 1 .. n : i \in 1 .. n + 1
    BY <1>1
  <1>3. \A k \in 1 .. n + 1 : k \in 1 .. n \/ k = n + 1
    BY <1>1
  <1>4. n + 1 \in 1 .. n + 1
    BY <1>1
  <1>5. Ordered(c)
    <2> SUFFICES ASSUME NEW i \in 1 .. n + 1, NEW j \in 1 .. n + 1, i < j
                 PROVE  c[i] < c[j]
      BY <1>1 DEF Ordered
    <2>1. i \in 1 .. n
      BY <1>1
    <2>2. CASE j \in 1 .. n
      BY <1>1, <2>1, <2>2 DEF Ordered
    <2>3. CASE j = n + 1
      BY <1>1, <2>1, <2>3 DEF Elems, AllBelow
    <2>4. QED
      BY <1>3, <2>2, <2>3
  <1>6. Elems(c) = Elems(s) \cup {e}
    <2>1. ASSUME NEW x \in Elems(c) PROVE x \in Elems(s) \cup {e}
      BY <1>1, <1>3 DEF Elems
    <2>2. ASSUME NEW x \in Elems(s) \cup {e} PROVE x \in Elems(c)
      BY <1>1, <1>2, <1>4 DEF Elems
    <2>3. QED
      BY <2>1, <2>2
  <1>7. QED
    BY <1>5, <1>6 DEF c

-----------------------------------------------------------------------------
(* The frames under way.                                                   *)

\* The frames under way up to each place, from the farthest.
AtEnd == FlattenSeq(Handed \o built)
AtCurrent == AtEnd \o (IF spc = "ended" THEN <<>> ELSE current)
AtDelayed == AtCurrent \o delayed
AtBatch == AtDelayed \o batch
AtSubQ == AtBatch \o subQ
AtHand == AtSubQ \o hand[Feeder]
AtMarg == AtHand \o outMarg
AtActive == AtMarg \o active
AtRaw == AtActive \o raw

LEMMA UnderWayIs == UnderWay = AtRaw \o frameQ
  BY DEF UnderWay, AtRaw, AtActive, AtMarg, AtHand, AtSubQ, AtBatch, AtDelayed, AtCurrent,
     AtEnd, Handed

LEMMA UnderWayTyped ==
  ASSUME TypeOK
  PROVE  /\ {frameQ, raw, active, outMarg, subQ, batch, delayed, current} \subseteq Seq(Frames)
         /\ hand[Feeder] \in Seq(Frames)
         /\ AtEnd \in Seq(Frames) /\ AtCurrent \in Seq(Frames) /\ AtDelayed \in Seq(Frames)
         /\ AtBatch \in Seq(Frames) /\ AtSubQ \in Seq(Frames) /\ AtHand \in Seq(Frames)
         /\ AtMarg \in Seq(Frames) /\ AtActive \in Seq(Frames) /\ AtRaw \in Seq(Frames)
         /\ UnderWay \in Seq(Frames)
  <1>1. /\ {frameQ, raw, active, outMarg, subQ, batch, delayed, current} \subseteq Seq(Frames)
        /\ hand[Feeder] \in Seq(Frames)
    BY FeederAssumption DEF TypeOK
  <1>2. AtEnd \in Seq(Frames)
    BY HandedTyped, FlattenTyped DEF AtEnd, Submaps
  <1>3. AtCurrent \in Seq(Frames)
    BY <1>1, <1>2, ConcatProperties, EmptySeq DEF AtCurrent
  <1>4. AtDelayed \in Seq(Frames)
    BY <1>1, <1>3, ConcatProperties DEF AtDelayed
  <1>5. AtBatch \in Seq(Frames)
    BY <1>1, <1>4, ConcatProperties DEF AtBatch
  <1>6. AtSubQ \in Seq(Frames)
    BY <1>1, <1>5, ConcatProperties DEF AtSubQ
  <1>7. AtHand \in Seq(Frames)
    BY <1>1, <1>6, ConcatProperties DEF AtHand
  <1>8. AtMarg \in Seq(Frames)
    BY <1>1, <1>7, ConcatProperties DEF AtMarg
  <1>9. AtActive \in Seq(Frames)
    BY <1>1, <1>8, ConcatProperties DEF AtActive
  <1>10. AtRaw \in Seq(Frames)
    BY <1>1, <1>9, ConcatProperties DEF AtRaw
  <1>11. UnderWay \in Seq(Frames)
    BY <1>1, <1>10, ConcatProperties, UnderWayIs
  <1>12. QED
    BY <1>1, <1>2, <1>3, <1>4, <1>5, <1>6, <1>7, <1>8, <1>9, <1>10, <1>11

\* Two neighbours one of which is emptied into the other.
LEMMA ConcatShift ==
  ASSUME NEW S, NEW p \in Seq(S), NEW x \in Seq(S)
  PROVE  /\ (p \o x) \o <<>> = (p \o <<>>) \o x
         /\ (p \o x) \o <<>> = p \o x
  <1>1. p \o x \in Seq(S)
    BY ConcatProperties
  <1>2. (p \o x) \o <<>> = p \o x
    BY <1>1, ConcatEmptySeq
  <1>3. p \o <<>> = p
    BY ConcatEmptySeq
  <1>4. QED
    BY <1>2, <1>3

LEMMA ConcatAppend ==
  ASSUME NEW S, NEW p \in Seq(S), NEW s \in Seq(S), NEW e \in S
  PROVE  p \o Append(s, e) = Append(p \o s, e)
  <1>1. p \in Seq(S) /\ s \in Seq(S) /\ <<e>> \in Seq(S) /\ p \o s \in Seq(S)
    BY SeqTyped
  <1>2. Append(s, e) = s \o <<e>> /\ Append(p \o s, e) = (p \o s) \o <<e>>
    BY <1>1, AppendIsConcat
  <1>3. p \o (s \o <<e>>) = (p \o s) \o <<e>>
    BY ONLY <1>1, ConcatAssociative, SMTT(30)
  <1>4. QED
    BY <1>2, <1>3

\* The only pump passes frames and submaps on.
LEMMA KeptByPump ==
  ASSUME TypeOK, Places, Pumps = {Feeder},
         \/ \E p \in Pumps : TimerCallback(p)
         \/ HandOverRemaining \/ TakeLastSubmaps
  PROVE  UnderWay' = UnderWay /\ UNCHANGED <<frames, skipped>>
  <1>0. UnderWay = AtRaw \o frameQ /\ (UnderWay = AtRaw \o frameQ)'
    BY UnderWayIs, PTL
  <1>1. ASSUME TakeResults(Feeder), UNCHANGED <<feedVars, maps, subVars, eos, delivered>>
        PROVE  UnderWay' = UnderWay /\ UNCHANGED <<frames, skipped>>
    <2>1. hand[Feeder] = <<>> /\ hand'[Feeder] = outMarg /\ outMarg' = <<>>
      BY <1>1, FeederAssumption DEF TakeResults, TypeOK, Places, PumpPlace
    <2>2. AtSubQ' = AtSubQ
      BY <1>1 DEF AtSubQ, AtBatch, AtDelayed, AtCurrent, AtEnd, Handed, subVars
    <2>3. (AtSubQ \o outMarg) \o <<>> = (AtSubQ \o <<>>) \o outMarg
      BY UnderWayTyped, ConcatShift
    <2>4. AtMarg' = AtMarg
      BY <2>1, <2>2, <2>3 DEF AtMarg, AtHand
    <2>5. QED
      BY <1>0, <1>1, <2>4 DEF AtRaw, AtActive, TakeResults, feedVars
  <1>2. ASSUME InsertMarginalized(Feeder)
        PROVE  UnderWay' = UnderWay /\ UNCHANGED <<frames, skipped>>
    <2>1. AtBatch' = AtBatch
      BY <1>2 DEF InsertMarginalized, AtBatch, AtDelayed, AtCurrent, AtEnd, Handed
    <2>2. AtHand' = AtHand
      <3>1. CASE hand[Feeder] = <<>>
        BY <1>2, <2>1, <3>1 DEF InsertMarginalized, AtHand, AtSubQ
      <3>2. CASE hand[Feeder] # <<>>
        <4>1. subQ' = Append(subQ, Head(hand[Feeder])) /\ hand'[Feeder] = Tail(hand[Feeder])
          BY <1>2, <3>2, FeederAssumption DEF InsertMarginalized, TypeOK
        <4>2. subQ' \o hand'[Feeder] = subQ \o hand[Feeder]
          BY <3>2, <4>1, UnderWayTyped, ConcatMoves
        <4>3. subQ' \in Seq(Frames) /\ hand'[Feeder] \in Seq(Frames)
          BY <3>2, <4>1, UnderWayTyped, SeqTyped
        <4>4. (AtBatch \o subQ') \o hand'[Feeder] = (AtBatch \o subQ) \o hand[Feeder]
          <5> DEFINE x == hand[Feeder]  y == hand'[Feeder]  z == subQ'
          <5>1. /\ AtBatch \in Seq(Frames) /\ subQ \in Seq(Frames) /\ x \in Seq(Frames)
                /\ z \in Seq(Frames) /\ y \in Seq(Frames) /\ z \o y = subQ \o x
            BY <4>2, <4>3, UnderWayTyped
          <5> HIDE DEF x, y, z
          <5>2. (AtBatch \o z) \o y = AtBatch \o (z \o y)
            <6>1. AtBatch \in Seq(Frames) /\ z \in Seq(Frames) /\ y \in Seq(Frames)
              BY <5>1
            <6>2. QED
              BY ONLY <6>1, ConcatAssociative, SMTT(30)
          <5>3. (AtBatch \o subQ) \o x = AtBatch \o (subQ \o x)
            <6>1. AtBatch \in Seq(Frames) /\ subQ \in Seq(Frames) /\ x \in Seq(Frames)
              BY <5>1
            <6>2. QED
              BY ONLY <6>1, ConcatAssociative, SMTT(30)
          <5>4. QED
            BY <5>1, <5>2, <5>3 DEF x, y, z
        <4>5. QED
          BY <2>1, <4>4 DEF AtHand, AtSubQ
      <3>3. QED
        BY <3>1, <3>2
    <2>3. QED
      BY <1>0, <1>2, <2>2 DEF AtRaw, AtActive, AtMarg, InsertMarginalized, odomVars, feedVars
  <1>3. ASSUME Handed' = Handed, UNCHANGED <<feedVars, odomVars, hand>>,
               UNCHANGED <<subQ, batch, delayed, current, built, spc>>
        PROVE  UnderWay' = UnderWay /\ UNCHANGED <<frames, skipped>>
    BY <1>0, <1>3 DEF AtRaw, AtActive, AtMarg, AtHand, AtSubQ, AtBatch, AtDelayed,
       AtCurrent, AtEnd, odomVars, feedVars
  <1>4. ASSUME TakeSubmaps(Feeder), UNCHANGED <<feedVars, odomVars, eos, delivered>>
        PROVE  UnderWay' = UnderWay /\ UNCHANGED <<frames, skipped>>
    BY <1>3, <1>4, TakeKeepsHanded DEF TakeSubmaps
  <1>5. ASSUME DeliverSubmap(Feeder)
        PROVE  UnderWay' = UnderWay /\ UNCHANGED <<frames, skipped>>
    BY <1>3, <1>5, DeliverKeepsHanded DEF DeliverSubmap, subVars
  <1>6. QED
    BY <1>1, <1>2, <1>4, <1>5 DEF TimerCallback, HandOverRemaining, TakeLastSubmaps

\* No frame leaves the line in sub mapping, and none is overtaken.
LEMMA KeptBySub ==
  ASSUME TypeOK, Places, SubMapping
  PROVE  UnderWay' = UnderWay /\ UNCHANGED <<frames, skipped>>
  <1>0. UnderWay = AtRaw \o frameQ /\ (UnderWay = AtRaw \o frameQ)'
    BY UnderWayIs, PTL
  <1>1. UNCHANGED <<feedVars, odomVars, pumpVars, delivered>> /\ spc # "ended"
    BY DEF SubMapping, PublishSubmaps, DrainSubImu, DrainSubFrames, TestSubMapping,
       InsertSubFrame
  <1>2. ASSUME AtSubQ' = AtSubQ
        PROVE  UnderWay' = UnderWay /\ UNCHANGED <<frames, skipped>>
    BY <1>0, <1>1, <1>2 DEF AtRaw, AtActive, AtMarg, AtHand, odomVars, feedVars, pumpVars
  <1>3. CASE PublishSubmaps
    <2>1. outSub' = outSub \o built /\ built' = <<>> /\ spc' # "ended"
      BY <1>3 DEF PublishSubmaps
    <2> DEFINE d == delivered \o maps[Feeder]
    <2>2. d \in Seq(Submaps) /\ outSub \in Seq(Submaps) /\ built \in Seq(Submaps)
      BY HandedTyped
    <2>3. Handed' \o built' = Handed \o built
      <3>1. Handed' = d \o (outSub \o built) /\ Handed = d \o outSub
        BY <1>1, <2>1 DEF Handed, pumpVars
      <3> HIDE DEF d
      <3>2. d \o (outSub \o built) = (d \o outSub) \o built
        BY ONLY <2>2, ConcatAssociative, SMTT(30)
      <3>3. (d \o outSub) \o built \in Seq(Submaps)
        BY <2>2, ConcatProperties
      <3>4. QED
        BY <2>1, <3>1, <3>2, <3>3, ConcatEmptySeq
    <2>4. AtSubQ' = AtSubQ
      BY <1>1, <1>3, <2>1, <2>3 DEF AtSubQ, AtBatch, AtDelayed, AtCurrent, AtEnd, PublishSubmaps
    <2>5. QED
      BY <1>2, <2>4
  <1>4. CASE DrainSubImu
    BY <1>1, <1>2, <1>4 DEF AtSubQ, AtBatch, AtDelayed, AtCurrent, AtEnd, Handed, DrainSubImu,
       pumpVars
  <1>5. CASE DrainSubFrames
    <2>1. batch = <<>> /\ batch' = subQ /\ subQ' = <<>>
      BY <1>5 DEF DrainSubFrames, Places, SubPlace
    <2>2. AtDelayed' = AtDelayed
      BY <1>1, <1>5 DEF DrainSubFrames, AtDelayed, AtCurrent, AtEnd, Handed, pumpVars
    <2>3. (AtDelayed \o subQ) \o <<>> = (AtDelayed \o <<>>) \o subQ
      BY UnderWayTyped, ConcatShift
    <2>4. AtSubQ' = AtSubQ
      BY <2>1, <2>2, <2>3 DEF AtSubQ, AtBatch
    <2>5. QED
      BY <1>2, <2>4
  <1>6. CASE TestSubMapping
    <2>1. UNCHANGED <<subQ, batch, delayed, current, built>>
      BY <1>6 DEF TestSubMapping
    <2>2. AtCurrent' = AtCurrent
      <3>1. CASE spc' # "ended"
        BY <1>1, <1>6, <2>1, <3>1 DEF TestSubMapping, AtCurrent, AtEnd, Handed, pumpVars
      <3>2. CASE spc' = "ended"
        <4>1. /\ outSub' = IF current = <<>> THEN outSub ELSE Append(outSub, current)
              /\ built = <<>> /\ built' = <<>>
          BY <1>6, <2>1, <3>2 DEF TestSubMapping, LastSubmap, Places, SubPlace
        <4>2. /\ AtCurrent = AtEnd \o current /\ AtCurrent' = AtEnd' \o <<>>
          BY <1>1, <3>2 DEF AtCurrent
        <4>3. current \in Submaps /\ current \in Seq(Frames)
          BY DEF TypeOK, Submaps
        <4>4. CASE current = <<>>
          BY <1>1, <2>1, <4>1, <4>2, <4>4 DEF AtEnd, Handed, pumpVars
        <4>5. CASE current # <<>>
          <5>1. Handed' = Append(Handed, current)
            <6>1. Handed' = (delivered \o maps[Feeder]) \o Append(outSub, current)
              BY <1>1, <4>1, <4>5 DEF Handed, pumpVars
            <6>2. @ = Append(Handed, current)
              <7> DEFINE d == delivered \o maps[Feeder]
              <7>1. d \in Seq(Submaps) /\ outSub \in Seq(Submaps) /\ Handed = d \o outSub
                BY HandedTyped DEF Handed
              <7> HIDE DEF d
              <7>2. d \o Append(outSub, current) = Append(d \o outSub, current)
                BY <4>3, <7>1, ConcatAppend
              <7>3. QED
                BY <7>1, <7>2 DEF d
            <6>3. QED
              BY <6>1, <6>2
          <5>2. Append(Handed, current) \in Seq(Submaps)
            BY <4>3, HandedTyped, AppendProperties
          <5>3. AtEnd' = FlattenSeq(Append(Handed, current)) /\ AtEnd = FlattenSeq(Handed)
            BY <4>1, <5>1, <5>2, HandedTyped, ConcatEmptySeq DEF AtEnd
          <5>4. AtEnd' = AtEnd \o current
            BY <4>3, <5>3, HandedTyped, FlattenAppend DEF Submaps
          <5>5. AtEnd \o current \in Seq(Frames)
            BY <4>3, UnderWayTyped, ConcatProperties
          <5>6. QED
            BY <4>2, <5>4, <5>5, ConcatEmptySeq
        <4>6. QED
          BY <4>4, <4>5
      <3>3. QED
        BY <3>1, <3>2
    <2>3. QED
      BY <1>2, <2>1, <2>2 DEF AtSubQ, AtBatch, AtDelayed
  <1>7. CASE InsertSubFrame
    <2>1. AtBatch' = AtBatch
      <3>1. CASE batch = <<>>
        BY <1>1, <1>7, <3>1 DEF InsertSubFrame, AtBatch, AtDelayed, AtCurrent, AtEnd, Handed,
           pumpVars
      <3>2. CASE batch # <<>>
        <4>1. /\ delayed' = <<Head(batch)>> /\ batch' = Tail(batch) /\ outSub' = outSub
              /\ spc' = "insert"
          BY <1>7, <3>2 DEF InsertSubFrame
        <4>2. /\ Head(batch) \in Frames /\ batch' \in Seq(Frames) /\ delayed' \in Seq(Frames)
              /\ batch \in Seq(Frames) /\ <<>> \in Seq(Frames)
          BY <3>2, <4>1, UnderWayTyped, SeqTyped
        <4>3. delayed' \o batch' = batch
          <5>1. Append(<<>>, Head(batch)) \o Tail(batch) = <<>> \o batch
            BY <3>2, <4>2, ConcatMoves
          <5>2. Append(<<>>, Head(batch)) = <<>> \o <<Head(batch)>>
            BY <4>2, AppendIsConcat
          <5>3. <<>> \o <<Head(batch)>> = <<Head(batch)>> /\ <<>> \o batch = batch
            BY <4>1, <4>2, ConcatEmptySeq
          <5>4. QED
            BY <4>1, <5>1, <5>2, <5>3
        <4>4. AtCurrent' = AtDelayed
          <5>1. CASE delayed = <<>>
            <6>1. AtCurrent' = AtCurrent
              BY <1>1, <1>7, <3>2, <4>1, <5>1 DEF InsertSubFrame, AtCurrent, AtEnd, Handed,
                 pumpVars
            <6>2. QED
              BY <5>1, <6>1, UnderWayTyped, ConcatEmptySeq DEF AtDelayed
          <5>2. CASE delayed # <<>>
            <6> DEFINE d == Head(delayed)  whole == Append(current, d)
            <6>1. d \in Frames /\ delayed = <<d>>
              <7>1. delayed \in Seq(Frames) /\ Len(delayed) <= 1
                BY DEF TypeOK
              <7>2. Len(delayed) = 1 /\ d \in Frames /\ d = delayed[1]
                <8> DEFINE n == Len(delayed)
                <8>1. n \in Nat \ {0} /\ n <= 1
                  BY <5>2, <7>1, EmptySeq
                <8> HIDE DEF n
                <8>2. n = 1
                  BY <8>1
                <8> USE DEF n
                <8>3. d = delayed[1]
                  OBVIOUS
                <8>4. QED
                  BY <7>1, <8>2, <8>3, ElementOfSeq
              <7>3. <<d>> \in Seq(Frames) /\ Len(<<d>>) = 1 /\ <<d>>[1] = d
                BY <7>2, SeqTyped
              <7> HIDE DEF d
              <7>4. \A i \in 1 .. 1 : delayed[i] = <<d>>[i]
                BY <7>2, <7>3
              <7>5. QED
                BY <7>1, <7>2, <7>3, <7>4, SeqEqual
            <6>2. current \in Seq(Frames) /\ whole \in Seq(Frames) /\ whole = current \o <<d>>
              BY <6>1, UnderWayTyped, AppendProperties, AppendIsConcat
            <6>3. Build(d)
              BY <1>7, <3>2, <5>2 DEF InsertSubFrame
            <6>4. /\ AtCurrent = AtEnd \o current
                  /\ AtCurrent' = AtEnd' \o current'
                  /\ Handed' = Handed
              BY <1>1, <4>1 DEF AtCurrent, Handed, pumpVars
            <6>5. AtDelayed = AtEnd \o whole
              <7>1. AtEnd \in Seq(Frames) /\ current \in Seq(Frames) /\ <<d>> \in Seq(Frames)
                BY <6>1, <6>2, UnderWayTyped, SeqTyped
              <7> HIDE DEF d
              <7>2. (AtEnd \o current) \o <<d>> = AtEnd \o (current \o <<d>>)
                BY ONLY <7>1, ConcatAssociative, SMTT(30)
              <7>3. QED
                BY <6>1, <6>2, <6>4, <7>2 DEF AtDelayed
            <6>6. CASE current' = <<>> /\ built' = Append(built, whole)
              <7>1. Handed \o Append(built, whole) = Append(Handed \o built, whole)
                BY <6>2, HandedTyped, ConcatAppend, SMTT(30) DEF Submaps
              <7>2. FlattenSeq(Append(Handed \o built, whole)) = AtEnd \o whole
                BY <6>2, HandedTyped, FlattenAppend DEF Submaps, AtEnd
              <7>3. AtEnd' = AtEnd \o whole
                BY <6>4, <6>6, <7>1, <7>2 DEF AtEnd
              <7>4. AtEnd \o whole \in Seq(Frames)
                BY <6>2, UnderWayTyped, ConcatProperties
              <7>5. QED
                BY <6>4, <6>5, <6>6, <7>3, <7>4, ConcatEmptySeq
            <6>7. CASE current' = whole /\ built' = built
              BY <6>4, <6>5, <6>7 DEF AtEnd
            <6>8. QED
              BY <6>3, <6>6, <6>7 DEF Build
          <5>3. QED
            BY <5>1, <5>2
        <4>5. (AtDelayed \o delayed') \o batch' = AtDelayed \o (delayed' \o batch')
          <5>1. AtDelayed \in Seq(Frames) /\ delayed' \in Seq(Frames) /\ batch' \in Seq(Frames)
            BY <4>2, UnderWayTyped
          <5>2. QED
            BY ONLY <5>1, ConcatAssociative, SMTT(30)
        <4>6. QED
          BY <4>3, <4>4, <4>5 DEF AtBatch, AtDelayed
      <3>3. QED
        BY <3>1, <3>2
    <2>2. QED
      BY <1>2, <1>7, <2>1 DEF AtSubQ, InsertSubFrame
  <1>8. QED
    BY <1>3, <1>4, <1>5, <1>6, <1>7 DEF SubMapping

\* The odometry thread keeps the line too, but for a frame that the initial
\* state estimation uses up.
LEMMA KeptByOdom ==
  ASSUME TypeOK, Odometry
  PROVE  \/ UnderWay' = UnderWay /\ UNCHANGED <<frames, skipped>>
         \/ \E f \in Frames, t \in Seq(Frames) :
              /\ UnderWay = (AtActive \o <<f>>) \o t /\ UnderWay' = AtActive \o t
              /\ skipped' = skipped \cup {f} /\ frames' = frames
  <1>0. UnderWay = AtRaw \o frameQ /\ (UnderWay = AtRaw \o frameQ)'
    BY UnderWayIs, PTL
  <1>1. /\ UNCHANGED <<phase, frames, pumpVars, subVars, delivered>>
        /\ AtHand' = AtHand
    <2>1. UNCHANGED <<phase, frames, pumpVars, subVars, delivered>>
      BY DEF Odometry, DrainImu, DrainFrames, TestOdometry, InsertRawFrame, feedVars
    <2>2. QED
      BY <2>1 DEF AtHand, AtSubQ, AtBatch, AtDelayed, AtCurrent, AtEnd, Handed, pumpVars, subVars
  <1>2. CASE DrainImu
    BY <1>0, <1>1, <1>2 DEF DrainImu, AtRaw, AtActive, AtMarg, feedVars
  <1>3. CASE DrainFrames
    <2>1. raw' = raw \o frameQ /\ frameQ' = <<>> /\ AtActive' = AtActive /\ skipped' = skipped
      BY <1>1, <1>3 DEF DrainFrames, AtActive, AtMarg, feedVars
    <2>2. (AtActive \o raw) \o frameQ = AtActive \o (raw \o frameQ)
      <3>1. AtActive \in Seq(Frames) /\ raw \in Seq(Frames) /\ frameQ \in Seq(Frames)
        BY UnderWayTyped
      <3>2. QED
        BY ONLY <3>1, ConcatAssociative, SMTT(30)
    <2>3. UnderWay = AtActive \o raw'
      BY <1>0, <2>1, <2>2 DEF AtRaw
    <2>4. UnderWay' = UnderWay
      BY <1>0, <2>1, <2>3, UnderWayTyped, ConcatEmptySeq DEF AtRaw
    <2>5. QED
      BY <1>1, <2>1, <2>4
  <1>4. CASE TestOdometry
    <2>1. UNCHANGED <<skipped, frameQ, raw>>
      BY <1>4 DEF TestOdometry, feedVars
    <2>2. AtActive' = AtActive
      <3>1. CASE UNCHANGED <<outMarg, active>>
        BY <1>1, <3>1 DEF AtActive, AtMarg
      <3>2. CASE outMarg' = outMarg \o active /\ active' = <<>>
        <4>1. (AtHand \o outMarg) \o active = AtHand \o (outMarg \o active)
          <5>1. AtHand \in Seq(Frames) /\ outMarg \in Seq(Frames) /\ active \in Seq(Frames)
            BY UnderWayTyped
          <5>2. QED
            BY ONLY <5>1, ConcatAssociative, SMTT(30)
        <4>2. AtActive = AtHand \o outMarg' /\ AtActive' = (AtHand \o outMarg') \o <<>>
          BY <1>1, <3>2, <4>1 DEF AtActive, AtMarg
        <4>3. QED
          BY <4>2, UnderWayTyped, ConcatEmptySeq
      <3>3. QED
        BY <1>4, <3>1, <3>2 DEF TestOdometry
    <2>3. QED
      BY <1>0, <1>1, <2>1, <2>2 DEF AtRaw
  <1>5. CASE InsertRawFrame
    <2>1. CASE raw = <<>> \/ Held(Head(raw))
      BY <1>0, <1>1, <1>5, <2>1 DEF InsertRawFrame, AtRaw, AtActive, AtMarg
    <2>2. CASE ~(raw = <<>> \/ Held(Head(raw)))
      <3> DEFINE f == Head(raw)  r == Tail(raw)
      <3>1. raw' = r /\ Estimate(f) /\ frameQ' = frameQ
        BY <1>5, <2>2 DEF InsertRawFrame
      <3>2. f \in Frames /\ r \in Seq(Frames) /\ <<f>> \in Seq(Frames)
        BY <2>2, UnderWayTyped, SeqTyped
      <3>3. AtActive \o raw = (AtActive \o <<f>>) \o r
        <4>1. Append(AtActive, f) \o r = AtActive \o raw
          BY <2>2, UnderWayTyped, ConcatMoves
        <4>2. Append(AtActive, f) = AtActive \o <<f>>
          BY <3>2, UnderWayTyped, AppendIsConcat
        <4>3. QED
          BY <4>1, <4>2
      <3> HIDE DEF f, r
      <3>4. CASE skipped' = skipped \cup {f} /\ UNCHANGED <<ready, active, outMarg>>
        <4>1. AtActive' = AtActive
          BY <1>1, <3>4 DEF AtActive, AtMarg
        <4>2. r \o frameQ \in Seq(Frames) /\ AtActive \o <<f>> \in Seq(Frames)
          BY <3>2, UnderWayTyped, ConcatProperties
        <4>3. ((AtActive \o <<f>>) \o r) \o frameQ = (AtActive \o <<f>>) \o (r \o frameQ)
          <5> DEFINE a == AtActive \o <<f>>
          <5>1. a \in Seq(Frames) /\ r \in Seq(Frames) /\ frameQ \in Seq(Frames)
            BY <3>2, <4>2, UnderWayTyped
          <5> HIDE DEF a
          <5>2. (a \o r) \o frameQ = a \o (r \o frameQ)
            BY ONLY <5>1, ConcatAssociative, SMTT(30)
          <5>3. QED
            BY <5>2 DEF a
        <4>4. (AtActive \o r) \o frameQ = AtActive \o (r \o frameQ)
          <5>1. AtActive \in Seq(Frames) /\ r \in Seq(Frames) /\ frameQ \in Seq(Frames)
            BY <3>2, UnderWayTyped
          <5>2. QED
            BY ONLY <5>1, ConcatAssociative, SMTT(30)
        <4>5. UnderWay = (AtActive \o <<f>>) \o (r \o frameQ)
          BY <1>0, <3>3, <4>3 DEF AtRaw
        <4>6. UnderWay' = AtActive \o (r \o frameQ)
          BY <1>0, <3>1, <4>1, <4>4 DEF AtRaw
        <4>7. QED
          BY <1>1, <3>2, <3>4, <4>2, <4>5, <4>6
      <3>5. CASE ready' = TRUE /\ skipped' = skipped
        <4> DEFINE all == Append(active, f)
        <4>1. PICK n \in 0 .. Len(active) :
                /\ active' = SubSeq(all, n + 1, Len(all))
                /\ outMarg' = outMarg \o SubSeq(all, 1, n)
          BY <3>1, <3>5 DEF Estimate
        <4>2. all \in Seq(Frames) /\ n \in 0 .. Len(all) /\ all = active \o <<f>>
          <5>1. active \in Seq(Frames) /\ Len(active) \in Nat
            BY UnderWayTyped, LenProperties
          <5>2. all \in Seq(Frames) /\ Len(all) = Len(active) + 1
            BY <3>2, <5>1, AppendProperties
          <5>3. all = active \o <<f>>
            BY <3>2, <5>1, AppendIsConcat
          <5> HIDE DEF all
          <5>4. QED
            BY <4>1, <5>1, <5>2, <5>3
        <4> HIDE DEF all
        <4> DEFINE x == SubSeq(all, 1, n)  y == SubSeq(all, n + 1, Len(all))
        <4>3. x \in Seq(Frames) /\ y \in Seq(Frames)
          BY <4>2, SubSeqTyped
        <4>4. x \o y = all
          <5>1. Len(all) \in Nat
            BY <4>2, LenProperties
          <5>2. 1 \in 1 .. Len(all) + 1 /\ n \in 1 - 1 .. Len(all) /\ Len(all) \in n .. Len(all)
            BY <4>2, <5>1
          <5>3. x \o y = SubSeq(all, 1, Len(all))
            BY <4>2, <5>2, ConcatAdjacentSubSeq
          <5>4. QED
            BY <4>2, <5>3, SubSeqFull
        <4> HIDE DEF x, y
        <4>5. AtMarg' = AtMarg \o x
          <5>1. AtMarg' = AtHand \o (outMarg \o x)
            BY <1>1, <4>1 DEF AtMarg, x
          <5>2. AtHand \in Seq(Frames) /\ outMarg \in Seq(Frames) /\ x \in Seq(Frames)
            BY <4>3, UnderWayTyped
          <5>3. (AtHand \o outMarg) \o x = AtHand \o (outMarg \o x)
            BY ONLY <5>2, ConcatAssociative, SMTT(30)
          <5>4. QED
            BY <5>1, <5>3 DEF AtMarg
        <4>6. AtActive' = AtMarg \o all
          <5>1. AtActive' = (AtMarg \o x) \o y
            BY <4>1, <4>5 DEF AtActive, y
          <5>2. AtMarg \in Seq(Frames) /\ x \in Seq(Frames) /\ y \in Seq(Frames)
            BY <4>3, UnderWayTyped
          <5>3. (AtMarg \o x) \o y = AtMarg \o (x \o y)
            BY ONLY <5>2, ConcatAssociative, SMTT(30)
          <5>4. QED
            BY <4>4, <5>1, <5>3
        <4>7. AtActive \o <<f>> = AtMarg \o all
          <5>1. AtMarg \in Seq(Frames) /\ active \in Seq(Frames) /\ <<f>> \in Seq(Frames)
            BY <3>2, UnderWayTyped
          <5>2. (AtMarg \o active) \o <<f>> = AtMarg \o (active \o <<f>>)
            BY ONLY <5>1, ConcatAssociative, SMTT(30)
          <5>3. QED
            BY <4>2, <5>2 DEF AtActive
        <4>8. AtRaw' = AtRaw
          BY <3>1, <3>3, <4>6, <4>7 DEF AtRaw
        <4>9. QED
          BY <1>0, <1>1, <3>1, <3>5, <4>8
      <3>6. QED
        BY <3>1, <3>4, <3>5 DEF Estimate
    <2>3. QED
      BY <2>1, <2>2
  <1>6. QED
    BY <1>2, <1>3, <1>4, <1>5 DEF Odometry

\* The frames under way, and which frames can have been used up.
InLine ==
  Pumps = {Feeder} =>
    /\ Ordered(UnderWay)
    /\ Elems(UnderWay) = (1 .. frames) \ skipped
    /\ skipped \subseteq 1 .. frames

LEMMA InLineStep == TypeOK /\ Places /\ InLine /\ [Next]_vars => InLine'
  <1> SUFFICES ASSUME TypeOK, Places, InLine, [Next]_vars, Pumps = {Feeder}
               PROVE  /\ Ordered(UnderWay') /\ Elems(UnderWay') = (1 .. frames') \ skipped'
                      /\ skipped' \subseteq 1 .. frames'
    BY DEF InLine, Ordered, Elems
  <1>0. /\ Ordered(UnderWay) /\ Elems(UnderWay) = (1 .. frames) \ skipped
        /\ skipped \subseteq 1 .. frames
        /\ UnderWay \in Seq(Frames) /\ Frames \subseteq Int /\ frames \in Nat
    <2>1. /\ Ordered(UnderWay) /\ Elems(UnderWay) = (1 .. frames) \ skipped
          /\ skipped \subseteq 1 .. frames
      BY DEF InLine
    <2>2. UnderWay \in Seq(Frames)
      BY UnderWayTyped
    <2>3. Frames \subseteq Int /\ frames \in Nat
      BY BoundAssumption DEF TypeOK, Frames
    <2>4. QED
      BY <2>1, <2>2, <2>3
  <1>a. UnderWay = AtRaw \o frameQ /\ (UnderWay = AtRaw \o frameQ)'
    BY UnderWayIs, PTL
  <1>1. CASE UnderWay' = UnderWay /\ UNCHANGED <<frames, skipped>>
    BY <1>0, <1>1
  <1>2. CASE InsertFrame
    <2>1. frames + 1 \in Frames
      BY <1>2, BoundAssumption DEF TypeOK, InsertFrame, Frames
    <2>2. /\ frameQ' = Append(frameQ, frames + 1) /\ frames' = frames + 1 /\ skipped' = skipped
          /\ AtRaw' = AtRaw
      BY <1>2 DEF InsertFrame, AtRaw, AtActive, AtMarg, AtHand, AtSubQ, AtBatch, AtDelayed,
         AtCurrent, AtEnd, Handed, pumpVars, subVars
    <2>3. UnderWay' = Append(UnderWay, frames + 1)
      <3>1. AtRaw \in Seq(Frames) /\ frameQ \in Seq(Frames)
        BY UnderWayTyped
      <3>2. AtRaw \o Append(frameQ, frames + 1) = Append(AtRaw \o frameQ, frames + 1)
        BY <2>1, <3>1, ConcatAppend
      <3>3. QED
        BY <1>a, <2>2, <3>2
    <2>4. AllBelow(UnderWay, frames + 1)
      BY <1>0 DEF AllBelow
    <2>5. /\ Ordered(Append(UnderWay, frames + 1))
          /\ Elems(Append(UnderWay, frames + 1)) = Elems(UnderWay) \cup {frames + 1}
      <3> DEFINE u == UnderWay
                 e == frames + 1
      <3>1. /\ Frames \in SUBSET Int /\ u \in Seq(Frames) /\ e \in Frames
            /\ Ordered(u) /\ AllBelow(u, e)
        BY <1>0, <2>1, <2>4
      <3> HIDE DEF u, e
      <3>2. Ordered(Append(u, e)) /\ Elems(Append(u, e)) = Elems(u) \cup {e}
        BY ONLY <3>1, OrderedAppend
      <3>3. QED
        BY ONLY <3>2 DEF u, e
    <2>6. 1 .. frames + 1 = (1 .. frames) \cup {frames + 1} /\ frames + 1 \notin 1 .. frames
      BY <1>0
    <2>7. QED
      BY <1>0, <2>2, <2>3, <2>5, <2>6
  <1>3. CASE Odometry
    <2>1. SUFFICES ASSUME NEW f \in Frames, NEW t \in Seq(Frames),
                          UnderWay = (AtActive \o <<f>>) \o t, UnderWay' = AtActive \o t,
                          skipped' = skipped \cup {f}, frames' = frames
                   PROVE  /\ Ordered(UnderWay') /\ Elems(UnderWay') = (1 .. frames') \ skipped'
                          /\ skipped' \subseteq 1 .. frames'
      BY <1>1, <1>3, KeptByOdom
    <2>2. /\ Ordered(AtActive \o t) /\ Elems(AtActive \o t) = Elems(UnderWay) \ {f}
          /\ f \in Elems(UnderWay)
      <3>1. /\ Frames \subseteq Int /\ AtActive \in Seq(Frames) /\ t \in Seq(Frames)
            /\ f \in Frames /\ Ordered((AtActive \o <<f>>) \o t)
        BY <1>0, <2>1, UnderWayTyped
      <3>2. /\ Ordered(AtActive \o t)
            /\ Elems(AtActive \o t) = Elems((AtActive \o <<f>>) \o t) \ {f}
            /\ f \in Elems((AtActive \o <<f>>) \o t)
        BY ONLY <3>1, OrderedRemove
      <3>3. QED
        BY <2>1, <3>2
    <2>3. QED
      BY <1>0, <2>1, <2>2
  <1>4. CASE (\E p \in Pumps : TimerCallback(p)) \/ HandOverRemaining \/ TakeLastSubmaps
    BY <1>1, <1>4, KeptByPump
  <1>5. CASE SubMapping
    BY <1>1, <1>5, KeptBySub
  <1>6. CASE InsertImu \/ Stop \/ JoinOdometry \/ JoinSubMapping \/ JoinGlobalMapping
               \/ UNCHANGED vars
    <2>1. UNCHANGED <<frames, skipped, frameQ, raw, active, outMarg, hand, maps, subQ, batch,
                      delayed, current, spc, built, outSub, delivered>>
      BY <1>6 DEF InsertImu, Stop, JoinOdometry, JoinSubMapping, JoinGlobalMapping,
         feedVars, odomVars, pumpVars, subVars, vars
    <2>2. UnderWay' = UnderWay
      BY <2>1 DEF UnderWay
    <2>3. QED
      BY <1>1, <2>1, <2>2
  <1>7. QED
    BY <1>2, <1>3, <1>4, <1>5, <1>6 DEF Next, Wait

(***************************************************************************)
(* Through five queues and three threads no frame is lost, none is         *)
(* duplicated and none overtakes another: the frames under way are all     *)
(* those the initial state estimation has not used up, in order.           *)
(***************************************************************************)
THEOREM Conserved == Spec => []ConservedInOrder
  <1>1. Init => InLine
    <2> SUFFICES ASSUME Init PROVE InLine
      OBVIOUS
    <2>1. UnderWay = <<>>
      <3>1. <<>> \o <<>> = <<>>
        BY EmptySeq, ConcatEmptySeq
      <3>2. QED
        BY <3>1, FlattenEmpty, FeederAssumption DEF Init, UnderWay
    <2>2. DOMAIN <<>> = {}
      OBVIOUS
    <2>3. QED
      BY <2>1, <2>2 DEF Init, InLine, Ordered, Elems
  <1>2. InLine => ConservedInOrder
    BY DEF InLine, Ordered, ConservedInOrder
  <1>3. QED
    BY <1>1, <1>2, InLineStep, TypeCorrect, PlacesCorrect, PTL DEF Spec
=============================================================================
