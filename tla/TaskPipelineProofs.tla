--------------------------- MODULE TaskPipelineProofs ---------------------------
(***************************************************************************)
(* What the motors are told while the controller is in NORMAL. The first    *)
(* part is about the encodings of SpgProtocol: they lose nothing but what   *)
(* rounding costs. The second carries the content of the state and command  *)
(* segments, torn or not, from the publication to the frames.               *)
(***************************************************************************)
EXTENDS TaskPipeline, FiniteSetTheorems, TLAPS

(* Halves rounded away from zero are off by at most half a unit.            *)
LEMMA RoundingError ==
    ASSUME NEW n \in Nat, NEW d \in Nat, d > 0
    PROVE  /\ RoundHalfAway(n, d) \in Nat
           /\ 2 * (RoundHalfAway(n, d) * d - n) <= d
           /\ -(2 * (RoundHalfAway(n, d) * d - n)) <= d
<1> DEFINE q == (2 * n + d) \div (2 * d)
           r == (2 * n + d) % (2 * d)
<1>1. q \in Int /\ r \in 0..(2 * d - 1) /\ 2 * n + d = (2 * d) * q + r
  OBVIOUS
<1>2. q >= 0
  BY <1>1
<1>3. (2 * d) * q = 2 * (q * d)
  BY <1>1
<1>4. RoundHalfAway(n, d) = q
  BY DEF RoundHalfAway
<1>5. q * d \in Int
  BY <1>1
<1> QED
  BY <1>1, <1>2, <1>3, <1>4, <1>5

(* The widths of the fields. *)
U8  == {n \in Nat : n <= 255}
U12 == {n \in Nat : n <= 4095}
U16 == {n \in Nat : n <= 65535}

(* The firmware recovers the five fields of a MIT control frame exactly     *)
(* (_pack_mit_payload against decode_mit_control_frame).                    *)
THEOREM FieldsSurvive ==
    ASSUME NEW p \in U16, NEW v \in U12, NEW kp \in U12, NEW kd \in U8, NEW t \in U8
    PROVE  UnpackMit(PackMit(p, v, kp, kd, t)) =
             [p |-> p, v |-> v, kp |-> kp, kd |-> kd, t |-> t]
<1>0. /\ p \in Int /\ v \in Int /\ kp \in Int
      /\ 0 <= kp /\ kp < 4096
  BY SMT DEF U8, U12, U16
<1> DEFINE f == PackMit(p, v, kp, kd, t)
<1>1. /\ f[2] = p \div 256 /\ f[3] = p % 256 /\ f[4] = v \div 16
      /\ f[5] = (v % 16) * 16 + (kp \div 256) /\ f[6] = kp % 256
      /\ f[7] = kd /\ f[8] = t
  BY DEF PackMit
<1> HIDE DEF f
<1>2. (p \div 256) * 256 + (p % 256) = p
  BY <1>0, SMT
<1>3. ((v % 16) * 16 + (kp \div 256)) \div 16 = v % 16
  BY <1>0, SMT
<1>4. ((v % 16) * 16 + (kp \div 256)) % 16 = kp \div 256
  BY <1>0, SMT
<1>5. (v \div 16) * 16 + (v % 16) = v
  BY <1>0, SMT
<1>6. (kp \div 256) * 256 + (kp % 256) = kp
  BY <1>0, SMT
<1> QED
  BY <1>1, <1>2, <1>3, <1>4, <1>5, <1>6 DEF UnpackMit, f

(* A quantity in range is encoded in its field's width and decoded within   *)
(* half a step (float_to_uint against uint_to_float).                       *)
THEOREM FieldResolves ==
    ASSUME NEW lo \in Int, NEW hi \in Int, NEW x \in lo..hi, lo < hi,
           NEW maxInt \in Nat
    PROVE  /\ FloatToUint(x, lo, hi, maxInt) \in 0..maxInt
           /\ Resolves(FloatToUint(x, lo, hi, maxInt), x, lo, hi, maxInt)
<1> DEFINE n == (x - lo) * maxInt
           d == hi - lo
           u == RoundHalfAway(n, d)
<1>1. n \in Nat /\ d \in Nat /\ d > 0
  OBVIOUS
<1>2. n <= d * maxInt
  OBVIOUS
<1>3. u \in Nat /\ 2 * (u * d - n) <= d /\ -(2 * (u * d - n)) <= d
  <2> HIDE DEF n, d
  <2> QED BY <1>1, RoundingError
<1>4. u <= maxInt
  <2> HIDE DEF n, d, u
  <2>1. SUFFICES ASSUME u >= maxInt + 1 PROVE FALSE
    BY <1>3
  <2>2. u * d >= (maxInt + 1) * d
    BY <1>1, <1>3, <2>1
  <2>3. (maxInt + 1) * d = maxInt * d + d
    BY <1>1
  <2>4. d * maxInt = maxInt * d
    BY <1>1
  <2> QED
    BY <1>1, <1>2, <1>3, <2>2, <2>3, <2>4
<1> QED
  BY <1>3, <1>4 DEF FloatToUint, Resolves

(* A signed 16-bit field comes back whatever its sign.                      *)
LEMMA I16Survives ==
    ASSUME NEW x \in Int, -32768 <= x, x <= 32767
    PROVE  ReadI16(x % 256, (x \div 256) % 256) = x
<1>1. PICK h \in Int, b \in Int : /\ h = x \div 256 /\ b = x % 256
                                 /\ x = 256 * h + b /\ 0 <= b /\ b < 256
                                 /\ -128 <= h /\ h <= 127
  BY SMT
<1>2. CASE h >= 0
  <2>1. h % 256 = h
    BY <1>1, <1>2, SMT
  <2> QED
    BY <1>1, <1>2, <2>1, SMT DEF ReadI16
<1>3. CASE h < 0
  <2>1. h % 256 = h + 256
    BY <1>1, <1>3, SMT
  <2> QED
    BY <1>1, <1>3, <2>1, SMT DEF ReadI16
<1> QED
  BY <1>1, <1>2, <1>3, SMT

(* The zero offset the firmware applies, and the one read from the          *)
(* acknowledge, is the one asked for (_pack_mit_set_zero_payload).          *)
THEOREM ZeroOffsetSurvives ==
    ASSUME NEW c \in Int, -32768 <= c, c <= 32767
    PROVE  ZeroOffset(ZeroFrame(c)) = c
<1>1. ZeroFrame(c)[7] = c % 256 /\ ZeroFrame(c)[8] = (c \div 256) % 256
  BY DEF ZeroFrame, I16Bytes
<1>2. ZeroOffset(ZeroFrame(c)) = ReadI16(c % 256, (c \div 256) % 256)
  BY <1>1 DEF ZeroOffset
<1> QED
  BY <1>2, I16Survives

(* What saturates is in range. *)
LEMMA ClampedInRange ==
    ASSUME NEW x \in Int, NEW lo \in Int, NEW hi \in Int, lo <= hi
    PROVE  /\ Clamped(x, lo, hi) \in Int
           /\ lo <= Clamped(x, lo, hi) /\ Clamped(x, lo, hi) <= hi
BY DEF Clamped

(* The position a motor reports fits its field at both ends of the range,   *)
(* and is off by at most half a step where the range holds it               *)
(* (make_mit_status_frame).                                                 *)
THEOREM PositionFits ==
    ASSUME NEW x \in Int, NEW max \in Nat, max > 0
    PROVE  /\ PositionCount(x, max) \in Int
           /\ -32767 <= PositionCount(x, max) /\ PositionCount(x, max) <= 32767
           /\ (-max <= x /\ x <= max) =>
                 /\ 2 * (PositionCount(x, max) * max - x * 32767) <= max
                 /\ -(2 * (PositionCount(x, max) * max - x * 32767)) <= max
<1>1. PICK c \in Int : c = Clamped(x, -max, max)
  BY SMT DEF Clamped
<1>2. -max <= c /\ c <= max /\ ((-max <= x /\ x <= max) => c = x)
  BY <1>1 DEF Clamped
<1>3. PositionCount(x, max) = RoundHalfAway(c * 32767, max)
  BY <1>1 DEF PositionCount
<1>4. ASSUME NEW n \in Nat, n <= 32767 * max
      PROVE  /\ RoundHalfAway(n, max) \in Nat /\ RoundHalfAway(n, max) <= 32767
             /\ 2 * (RoundHalfAway(n, max) * max - n) <= max
             /\ -(2 * (RoundHalfAway(n, max) * max - n)) <= max
  <2> DEFINE u == RoundHalfAway(n, max)
  <2>1. u \in Nat /\ 2 * (u * max - n) <= max /\ -(2 * (u * max - n)) <= max
    BY RoundingError
  <2> HIDE DEF u
  <2>2. ASSUME u >= 32768 PROVE FALSE
    <3>1. u * max >= 32768 * max
      BY <2>1, <2>2
    <3> QED
      BY <1>4, <2>1, <3>1
  <2> QED
    BY <2>1, <2>2 DEF u
<1>5. CASE c >= 0
  <2>1. PICK n \in Nat : n = c * 32767 /\ n <= 32767 * max
    BY <1>2, <1>5
  <2>2. PICK u \in Nat : u = RoundHalfAway(n, max)
    BY <1>4, <2>1
  <2>3. u <= 32767 /\ 2 * (u * max - n) <= max /\ -(2 * (u * max - n)) <= max
    BY <1>4, <2>1, <2>2
  <2>4. PositionCount(x, max) = u
    BY <1>3, <2>1, <2>2
  <2> QED
    BY <1>2, <2>1, <2>3, <2>4
<1>6. CASE c < 0
  <2>1. PICK n \in Nat : n = (-c) * 32767 /\ n <= 32767 * max /\ n > 0
    BY <1>2, <1>6
  <2>2. RoundHalfAway(c * 32767, max) = -RoundHalfAway(n, max)
    BY <2>1, <1>6 DEF RoundHalfAway
  <2>3. PICK u \in Nat : u = RoundHalfAway(n, max)
    BY <1>4, <2>1
  <2>4. u <= 32767 /\ 2 * (u * max - n) <= max /\ -(2 * (u * max - n)) <= max
    BY <1>4, <2>1, <2>3
  <2>5. PositionCount(x, max) = -u
    BY <1>3, <2>2, <2>3
  <2>6. (-u) * max - c * 32767 = -(u * max - n)
    BY <2>1
  <2> QED
    BY <1>2, <2>4, <2>5, <2>6
<1> QED
  BY <1>5, <1>6

(* The host reads every field of a status frame as the motor saturated it,  *)
(* negative ones included (_parse_mit_status_v14).                          *)
THEOREM StatusSurvives ==
    ASSUME NEW temp \in Int, NEW iq \in Int, NEW speed \in Int,
           NEW at \in Int, -32768 <= at, at <= 32767
    PROVE  MitStatus(StatusFrame(temp, iq, speed, at)) =
             [temp  |-> Clamped(temp, -128, 127),
              iq    |-> Clamped(iq, -32768, 32767),
              speed |-> Clamped(speed, -32768, 32767),
              pos   |-> at]
<1>1. PICK t \in Int : t = Clamped(temp, -128, 127)
  BY SMT DEF Clamped
<1>2. PICK i \in Int : i = Clamped(iq, -32768, 32767)
  BY SMT DEF Clamped
<1>3. PICK s \in Int : s = Clamped(speed, -32768, 32767)
  BY SMT DEF Clamped
<1>4. /\ -128 <= t /\ t <= 127 /\ -32768 <= i /\ i <= 32767
      /\ -32768 <= s /\ s <= 32767
  BY <1>1, <1>2, <1>3, ClampedInRange
<1> DEFINE f == StatusFrame(temp, iq, speed, at)
<1>5. /\ f[2] = t % 256
      /\ f[3] = i % 256 /\ f[4] = (i \div 256) % 256
      /\ f[5] = s % 256 /\ f[6] = (s \div 256) % 256
      /\ f[7] = at % 256 /\ f[8] = (at \div 256) % 256
  BY <1>1, <1>2, <1>3 DEF StatusFrame, I16Bytes
<1>6. (IF (t % 256) >= 128 THEN (t % 256) - 256 ELSE t % 256) = t
  BY <1>4, SMT
<1>7. /\ ReadI16(i % 256, (i \div 256) % 256) = i
      /\ ReadI16(s % 256, (s \div 256) % 256) = s
      /\ ReadI16(at % 256, (at \div 256) % 256) = at
  BY <1>4, I16Survives
<1> HIDE DEF f
<1> QED
  BY <1>1, <1>2, <1>3, <1>5, <1>6, <1>7 DEF MitStatus, f

(* A count that differs from a by whole turns is a again. *)
LEMMA WholeTurns ==
    ASSUME NEW a \in Int, 0 <= a, a < 16384, NEW k \in Int, NEW n \in Int,
           n = 16384 * k + a
    PROVE  n % 16384 = a
OBVIOUS

(* With the offset written, the encoder shows the position asked for        *)
(* (encode_set_current_position_as_rad_frame).                              *)
THEOREM OffsetShowsDesired ==
    ASSUME NEW original \in Nat,
           NEW desired \in Int, 0 <= desired, desired < EncMod
    PROVE  (original + EncoderOffset(original, desired)) % EncMod = desired
<1>1. PICK a \in Int, k \in Int : /\ a = original % 16384
                                 /\ original = 16384 * k + a
  BY SMT
<1>2. PICK r \in Int, q \in Int : /\ r = (desired - a) % 16384
                                 /\ desired - a = 16384 * q + r
  BY SMT
<1>3. original + r = 16384 * (k - q) + desired
  BY <1>1, <1>2, SMT
<1>4. (original + r) % 16384 = desired
  BY <1>3, WholeTurns DEF EncMod
<1> QED
  BY <1>1, <1>2, <1>4 DEF EncoderOffset, EncMod

(* The shortest way from one encoder count to another is at most half a     *)
(* turn and leads there (shortest_delta_u14).                               *)
THEOREM DeltaIsShortest ==
    ASSUME NEW curr \in Nat, NEW prev \in Nat
    PROVE  /\ ShortestDelta(curr, prev) <= EncHalf
           /\ -EncHalf <= ShortestDelta(curr, prev)
           /\ (prev + ShortestDelta(curr, prev)) % EncMod = curr % EncMod
<1>1. PICK a \in Int : a = curr % 16384
  BY SMT
<1>2. PICK b \in Int : b = prev % 16384
  BY SMT
<1>3. PICK k \in Int : k = prev \div 16384
  BY SMT
<1>4. 0 <= a /\ a < 16384 /\ 0 <= b /\ b < 16384 /\ prev = 16384 * k + b
  BY <1>1, <1>2, <1>3, SMT
<1>5. PICK s : s = ShortestDelta(curr, prev)
  OBVIOUS
<1>6. s = IF (a - b) > 8192 THEN (a - b) - 16384
          ELSE IF (a - b) < -8192 THEN (a - b) + 16384 ELSE a - b
  BY <1>1, <1>2, <1>5, SMT DEF ShortestDelta, EncMod, EncHalf
<1>7. s \in Int /\ s <= 8192 /\ -8192 <= s
  BY <1>4, <1>6, SMT
<1>8. \/ prev + s = 16384 * (k - 1) + a
      \/ prev + s = 16384 * (k + 1) + a
      \/ prev + s = 16384 * k + a
  BY <1>4, <1>6, SMT
<1>9. (prev + s) % 16384 = a
  <2>1. prev + s \in Int /\ k - 1 \in Int /\ k + 1 \in Int
    BY <1>7
  <2>2. CASE prev + s = 16384 * (k - 1) + a
    BY <1>4, <2>1, <2>2, WholeTurns
  <2>3. CASE prev + s = 16384 * (k + 1) + a
    BY <1>4, <2>1, <2>3, WholeTurns
  <2>4. CASE prev + s = 16384 * k + a
    BY <1>4, <2>1, <2>4, WholeTurns
  <2> QED
    BY <1>8, <2>2, <2>3, <2>4
<1> QED
  BY <1>1, <1>5, <1>7, <1>9, SMT DEF EncMod, EncHalf

-------------------------------------------------------------------------------
(* The segments' content *)

(* The constants, as the steps below use them. *)
LEMMA JointFacts ==
    /\ Len(Ids) \in Nat /\ Joints = 1..Len(Ids)
    /\ \A j \in Joints : Ids[j] \in Nat \ {0}
    /\ \A j \in Joints : Ids[j] \in Motors /\ JointOf(Ids[j]) = j
    /\ \A m \in Motors : JointOf(m) \in Joints /\ Ids[JointOf(m)] = m
<1>1. Ids \in Seq(Nat \ {0})
  BY JointAssumption
<1>2. Len(Ids) \in Nat /\ Joints = 1..Len(Ids) /\ \A j \in Joints : Ids[j] \in Nat \ {0}
  BY <1>1 DEF Joints
<1>3. \A j \in Joints : Ids[j] \in Motors /\ JointOf(Ids[j]) = j
  BY JointAssumption DEF Motors, JointOf
<1>4. \A m \in Motors : JointOf(m) \in Joints /\ Ids[JointOf(m)] = m
  BY DEF Motors, JointOf
<1> QED
  BY <1>2, <1>3, <1>4

(* There are no more motors than joints. *)
LEMMA MotorsFinite ==
    IsFiniteSet(Motors) /\ Cardinality(Motors) \in Nat /\ Cardinality(Motors) <= Len(Ids)
<1>1. IsFiniteSet(Joints) /\ Cardinality(Joints) = Len(Ids)
  BY JointFacts, FS_Interval
<1> DEFINE f == [j \in Joints |-> Ids[j]]
<1>2. f \in Surjection(Joints, Motors)
  BY DEF Surjection, Motors
<1>3. IsFiniteSet(Motors) /\ Cardinality(Motors) <= Cardinality(Joints)
  BY <1>1, <1>2, FS_Surjection
<1> QED
  BY <1>1, <1>3, FS_CardinalityType

(* Every motor has a record of its own: ranks of motors are positions of    *)
(* the block and no two motors share one (the sort of _make_snapshot).      *)
LEMMA EveryMotorHasARecord ==
    ASSUME NEW m \in Motors
    PROVE  \E i \in Joints : SortedIds[i] = m
<1> DEFINE Below(n) == {k \in Motors : k <= n}
<1>1. \A n \in Motors : n \in Nat
  BY JointFacts DEF Motors
<1>2. ASSUME NEW n
      PROVE  /\ IsFiniteSet(Below(n)) /\ Cardinality(Below(n)) \in Nat
             /\ Cardinality(Below(n)) <= Len(Ids)
  <2>1. Below(n) \in SUBSET Motors
    OBVIOUS
  <2> HIDE DEF Below
  <2>2. IsFiniteSet(Below(n)) /\ Cardinality(Below(n)) <= Cardinality(Motors)
    BY <2>1, MotorsFinite, FS_Subset
  <2>3. Cardinality(Below(n)) \in Nat
    BY <2>2, FS_CardinalityType
  <2> QED
    BY <2>2, <2>3, MotorsFinite, JointFacts
<1>3. Rank(m) \in Joints
  <2>1. m \in Below(m)
    BY <1>1
  <2>2. Rank(m) = Cardinality(Below(m))
    BY DEF Rank
  <2> HIDE DEF Below
  <2>3. Cardinality(Below(m)) # 0
    BY <2>1, <1>2, FS_EmptySet
  <2> QED
    BY <2>2, <2>3, <1>2, JointFacts
<1>4. ASSUME NEW a \in Motors, NEW b \in Motors, a < b
      PROVE  Rank(a) # Rank(b)
  <2>1. Below(a) \in SUBSET Below(b) /\ b \in Below(b) /\ b \notin Below(a)
    BY <1>1, <1>4
  <2>2. Rank(a) = Cardinality(Below(a)) /\ Rank(b) = Cardinality(Below(b))
    BY DEF Rank
  <2> HIDE DEF Below
  <2>3. Cardinality(Below(a)) < Cardinality(Below(b))
    BY <1>2, <2>1, FS_Subset
  <2> QED
    BY <1>2, <2>2, <2>3
<1>5. \A n \in Motors : Rank(n) = Rank(m) => n = m
  BY <1>1, <1>4
<1>6. SortedIds[Rank(m)] = m
  BY <1>3, <1>5 DEF SortedIds
<1> QED
  BY <1>3, <1>6

(* What a publication leaves in control_state. *)
RobotStates == {RobotState(p) : p \in Postures}

(* What the runner leaves in mit_command: every joint's own target, or NaN. *)
OwnArrays ==
    {q \in [Joints -> Int] : \A j \in Joints : q[j] = NaN \/ q[j] \in OwnTargets(j)}

TargetBlock(q) ==
    [num |-> Len(Ids), id |-> Ids, target |-> [i \in Joints |-> [q |-> q[i], kp |-> Gain]]]

TargetBlocks == {TargetBlock(q) : q \in OwnArrays}

(* Whole blocks only are begun and ended; a segment is empty until the      *)
(* first of them.                                                           *)
StateSegment ==
    /\ state \in [cur : {EmptyState} \cup RobotStates,
                  new : {{}} \cup {{b} : b \in RobotStates}]
    /\ ctl = "written" => state.new # {}

CommandSegment ==
    /\ cmd \in [cur : {EmptyTargets} \cup TargetBlocks,
                new : {{}} \cup {{b} : b \in TargetBlocks}]
    /\ pc = "write" => cmd.new # {}

PositionsSeen == pc = "compute" => pos \in Seen

IInv == StateSegment /\ CommandSegment /\ PositionsSeen /\ BatchComplete /\ EachJointItsOwn

(* An element of a copy is that of some array it was taken from. *)
LEMMA MixedElements ==
    ASSUME NEW A, NEW w \in Mixed(A)
    PROVE  \A i \in Joints : \E a \in A : w[i] = a[i]
<1>1. PICK from \in [Joints -> A] : w = [i \in Joints |-> from[i][i]]
  BY DEF Mixed
<1>2. \A i \in Joints : from[i] \in A /\ w[i] = from[i][i]
  BY <1>1
<1> QED
  BY <1>2

(* Once a state was published, every copy lists every motor and has an      *)
(* attitude, torn between publications or not (read_relaxed).               *)
LEMMA PublishedIsUsable ==
    ASSUME NEW S \in SUBSET RobotStates, NEW b \in StateCopies(S)
    PROVE  ~Unusable(b)
<1>1. b.count \in {x.count : x \in S} /\ b.quat \in {x.quat : x \in S}
      /\ b.rec \in Mixed({x.rec : x \in S})
  BY DEF StateCopies
<1>2. b.count = Len(Ids) /\ b.quat = 1
  BY <1>1 DEF RobotStates, RobotState
<1>3. \A i \in Joints : b.rec[i].id = SortedIds[i]
  <2> TAKE i \in Joints
  <2>1. PICK x \in S : b.rec[i] = x.rec[i]
    BY <1>1, MixedElements
  <2>2. PICK p \in Postures : x = RobotState(p)
    BY DEF RobotStates
  <2> QED
    BY <2>1, <2>2 DEF RobotState
<1>4. Listed(b) = Joints
  BY <1>1, <1>2, JointFacts DEF Listed
<1>5. \A m \in Motors : \E i \in Listed(b) : b.rec[i].id = m
  BY <1>1, <1>3, <1>4, EveryMotorHasARecord
<1> QED
  BY <1>1, <1>2, <1>5 DEF Unusable

(* The positions of a usable copy are each that of one publication, even    *)
(* across the first one: a record that names the motor was published.       *)
LEMMA UsableIsSeen ==
    ASSUME NEW S \in SUBSET ({EmptyState} \cup RobotStates),
           NEW b \in StateCopies(S), ~Unusable(b)
    PROVE  DofPos(b) \in Seen
<1>1. b.count \in {x.count : x \in S} /\ b.quat \in {x.quat : x \in S}
      /\ b.rec \in Mixed({x.rec : x \in S})
  BY DEF StateCopies
<1>2. ASSUME NEW j \in Joints
      PROVE  \E p \in Postures : DofPos(b)[j] = p[j]
  <2> DEFINE i == CHOOSE i \in Listed(b) : b.rec[i].id = Ids[j]
  <2>1. \E k \in Listed(b) : b.rec[k].id = Ids[j]
    BY JointFacts DEF Unusable
  <2>2. i \in Listed(b) /\ b.rec[i].id = Ids[j]
    BY <2>1
  <2>3. DofPos(b)[j] = b.rec[i].pos
    BY DEF DofPos
  <2> HIDE DEF i
  <2>4. i \in Joints
    BY <2>2 DEF Listed
  <2>5. PICK x \in S : b.rec[i] = x.rec[i]
    BY <1>1, <2>4, MixedElements
  <2>7. x # EmptyState
    BY <2>2, <2>4, <2>5, JointFacts DEF EmptyState
  <2>8. PICK p \in Postures : x = RobotState(p)
    BY <2>7 DEF RobotStates
  <2>9. x.rec[i].id = SortedIds[i] /\ x.rec[i].pos = p[JointOf(SortedIds[i])]
    BY <2>4, <2>8 DEF RobotState
  <2>10. DofPos(b)[j] = p[j]
    BY <2>2, <2>3, <2>5, <2>9, JointFacts
  <2> QED
    BY <2>10
<1>3. DofPos(b) = [j \in Joints |-> DofPos(b)[j]]
  BY DEF DofPos
<1> DEFINE from == [j \in Joints |-> CHOOSE p \in Postures : DofPos(b)[j] = p[j]]
<1>4. from \in [Joints -> Postures] /\ \A j \in Joints : DofPos(b)[j] = from[j][j]
  BY <1>2
<1> HIDE DEF from
<1>5. DofPos(b) = [j \in Joints |-> from[j][j]]
  BY <1>3, <1>4
<1> QED
  BY <1>4, <1>5 DEF Seen, Mixed

(* The way of an action through the clip, the scale and both conversions    *)
(* ends at the joint whose deviation its slot held (compute_action).        *)
LEMMA QTargetIsOwn ==
    ASSUME NEW p \in Seen, NEW raw \in Net(DeltaDofPos(p)), NEW mode
    PROVE  QTarget(raw, mode) \in OwnArrays
<1>1. raw \in [Joints -> Int]
  BY NetAssumption
<1>2. ASSUME NEW j \in Joints
      PROVE  /\ QTarget(raw, mode)[j] \in Int
             /\ QTarget(raw, mode)[j] = NaN \/ QTarget(raw, mode)[j] \in OwnTargets(j)
  <2>1. PICK k \in Joints : k = Output[j] /\ Input[k] = j
    BY JointAssumption
  <2>2. PICK a \in Int : a = raw[k]
    BY <1>1
  <2>3. PICK c \in Int : /\ c = ClipAction(a)
                         /\ a = NaN => c = NaN
                         /\ a # NaN => -500 <= c /\ c <= 500
    BY SMT DEF ClipAction, NaN, ActionClip
  <2>4. QTarget(raw, mode)[j] =
          LET s == IF c = NaN THEN NaN ELSE c \div ScaleDiv
          IN  IF s = NaN THEN NaN ELSE s * ModeFactor(mode) + Default[j]
    BY <2>1, <2>2, <2>3 DEF QTarget, ScaledActions
  <2>5. CASE a = NaN
    BY <2>3, <2>4, <2>5 DEF NaN
  <2>6. CASE a # NaN
    <3>1. c # NaN /\ c \div ScaleDiv \in Int /\ c \div ScaleDiv # NaN
      BY <2>3, <2>6, SMT DEF NaN, ScaleDiv
    <3>2. ModeFactor(mode) \in OwnFactors /\ ModeFactor(mode) \in Int /\ Default[j] \in Int
      BY JointAssumption DEF ModeFactor, OwnFactors
    <3>3. a \in OwnActions(j)
      BY <2>1, <2>2, <2>6 DEF OwnActions, Outputs
    <3>4. QTarget(raw, mode)[j] = (c \div ScaleDiv) * ModeFactor(mode) + Default[j]
      BY <2>4, <3>1
    <3>5. PICK s \in Int, f \in OwnFactors, d \in Int :
            s = c \div ScaleDiv /\ f = ModeFactor(mode) /\ d = Default[j] /\ f \in Int
      BY <3>1, <3>2
    <3>6. QTarget(raw, mode)[j] = d + s * f /\ QTarget(raw, mode)[j] \in Int
      BY <3>4, <3>5
    <3>7. d + s * f \in OwnTargets(j)
      BY <2>3, <3>3, <3>5 DEF OwnTargets
    <3> QED
      BY <3>6, <3>7
  <2> QED
    BY <2>5, <2>6
<1>3. QTarget(raw, mode) = [j \in Joints |-> QTarget(raw, mode)[j]]
  BY DEF QTarget
<1> QED
  BY <1>2, <1>3 DEF OwnArrays

(* A copy taken across complete writes is complete and each of its targets  *)
(* is its joint's own, whichever write it comes from (read_relaxed).        *)
LEMMA CopiesAreComplete ==
    ASSUME NEW S \in SUBSET TargetBlocks, NEW c \in TargetCopies(S)
    PROVE  /\ Sendable(c) = Joints
           /\ \A i \in Joints : c.id[i] = Ids[i]
           /\ \A i \in Joints : \E q \in Int :
                 /\ c.target[i] = [q |-> q, kp |-> Gain]
                 /\ q = NaN \/ q \in OwnTargets(i)
<1>1. c.num \in {b.num : b \in S} /\ c.id \in Mixed({b.id : b \in S})
      /\ c.target \in Mixed({b.target : b \in S})
  BY DEF TargetCopies
<1>2. c.num = Len(Ids)
  BY <1>1 DEF TargetBlocks, TargetBlock
<1>3. \A i \in Joints : c.id[i] = Ids[i]
  <2> TAKE i \in Joints
  <2>1. PICK x \in S : c.id[i] = x.id[i]
    BY <1>1, MixedElements
  <2> QED
    BY <2>1 DEF TargetBlocks, TargetBlock
<1>4. ASSUME NEW i \in Joints
      PROVE  \E q \in Int : c.target[i] = [q |-> q, kp |-> Gain] /\ (q = NaN \/ q \in OwnTargets(i))
  <2>1. PICK x \in S : c.target[i] = x.target[i]
    BY <1>1, MixedElements
  <2>2. PICK q \in OwnArrays : x = TargetBlock(q)
    BY DEF TargetBlocks
  <2>3. c.target[i] = [q |-> q[i], kp |-> Gain]
    BY <2>1, <2>2 DEF TargetBlock
  <2>4. q[i] \in Int /\ (q[i] = NaN \/ q[i] \in OwnTargets(i))
    BY DEF OwnArrays
  <2> QED
    BY <2>3, <2>4
<1>5. Sendable(c) = Joints
  BY <1>1, <1>2, <1>3, JointFacts DEF Sendable
<1> QED
  BY <1>1, <1>3, <1>4, <1>5

(* A target that is not rejected comes out of its frame to half a step, and *)
(* so does the gain (_pack_mit_payload).                                    *)
LEMMA FrameResolves ==
    ASSUME NEW q \in Int, ~Rejected([q |-> q, kp |-> Gain])
    PROVE  LET u == UnpackMit(Frame([q |-> q, kp |-> Gain]))
           IN  /\ Resolves(u.p, q, -PMax, PMax, 65535)
               /\ Resolves(u.kp, Gain, 0, KpMax, 4095)
<1> DEFINE min == -PMax
           zero == 0
           n8  == 255
           n12 == 4095
           n16 == 65535
           vlo == -450
           vhi == 450
           tlo == -330
           thi == 330
           p   == FloatToUint(q, min, PMax, n16)
           v   == FloatToUint(zero, vlo, vhi, n12)
           k   == FloatToUint(Gain, zero, KpMax, n12)
           t   == FloatToUint(zero, tlo, thi, n8)
<1>1. n8 \in Nat /\ n12 \in Nat /\ n16 \in Nat
  OBVIOUS
<1>2. q \in min..PMax /\ min < PMax /\ min \in Int /\ PMax \in Int
  BY DEF Rejected, PMax
<1>3. Gain \in zero..KpMax /\ zero < KpMax /\ zero \in Int /\ KpMax \in Int
  BY DEF Gain, KpMax
<1>4. /\ zero \in vlo..vhi /\ vlo < vhi /\ vlo \in Int /\ vhi \in Int
      /\ zero \in tlo..thi /\ tlo < thi /\ tlo \in Int /\ thi \in Int
  OBVIOUS
<1>5. /\ p \in 0..n16 /\ Resolves(p, q, min, PMax, n16)
      /\ k \in 0..n12 /\ Resolves(k, Gain, zero, KpMax, n12)
      /\ v \in 0..n12 /\ t \in 0..n8
  <2> HIDE DEF min, zero, n8, n12, n16, vlo, vhi, tlo, thi
  <2>1. p \in 0..n16 /\ Resolves(p, q, min, PMax, n16)
    BY <1>1, <1>2, FieldResolves
  <2>2. k \in 0..n12 /\ Resolves(k, Gain, zero, KpMax, n12)
    BY <1>1, <1>3, FieldResolves
  <2>3. v \in 0..n12
    BY <1>1, <1>3, <1>4, FieldResolves
  <2>4. t \in 0..n8
    BY <1>1, <1>3, <1>4, FieldResolves
  <2> QED
    BY <2>1, <2>2, <2>3, <2>4
<1>6. Frame([q |-> q, kp |-> Gain]) = PackMit(p, v, k, 0, t)
  BY DEF Frame
<1> HIDE DEF p, v, k, t
<1>7. p \in U16 /\ v \in U12 /\ k \in U12 /\ 0 \in U8 /\ t \in U8
  <2>1. n8 = 255 /\ n12 = 4095 /\ n16 = 65535
    OBVIOUS
  <2> HIDE DEF min, zero, n8, n12, n16
  <2>2. /\ p \in Nat /\ v \in Nat /\ k \in Nat /\ t \in Nat
        /\ p <= n16 /\ v <= n12 /\ k <= n12 /\ t <= n8
    BY <1>1, <1>5
  <2> QED
    BY <2>1, <2>2 DEF U8, U12, U16
<1>8. UnpackMit(PackMit(p, v, k, 0, t)) = [p |-> p, v |-> v, kp |-> k, kd |-> 0, t |-> t]
  BY <1>7, FieldsSurvive, Zenon
<1>9. min = -PMax /\ zero = 0 /\ n12 = 4095 /\ n16 = 65535
  OBVIOUS
<1> HIDE DEF min, zero, n8, n12, n16, vlo, vhi, tlo, thi
<1>10. Resolves(p, q, min, PMax, n16) /\ Resolves(k, Gain, zero, KpMax, n12)
  BY <1>5
<1>11. Resolves(p, q, -PMax, PMax, 65535) /\ Resolves(k, Gain, 0, KpMax, 4095)
  BY <1>9, <1>10
<1> QED
  BY <1>6, <1>8, <1>11

(* What a batch holds, copied across complete writes. *)
LEMMA BatchIsOwn ==
    ASSUME NEW S \in SUBSET TargetBlocks, NEW c \in TargetCopies(S)
    PROVE  /\ SentRecords(c) = Sendable(c) => DOMAIN Batch(c) = Motors
           /\ \A m \in DOMAIN Batch(c) :
                 /\ m \in Motors
                 /\ Resolves(UnpackMit(Batch(c)[m]).kp, Gain, 0, KpMax, 4095)
                 /\ \E q \in OwnTargets(JointOf(m)) :
                       Resolves(UnpackMit(Batch(c)[m]).p, q, -PMax, PMax, 65535)
<1>1. SentRecords(c) \in SUBSET Joints
  BY CopiesAreComplete DEF SentRecords
<1>2. DOMAIN Batch(c) = {Ids[i] : i \in SentRecords(c)}
  BY <1>1, CopiesAreComplete DEF Batch
<1>3. SentRecords(c) = Sendable(c) => DOMAIN Batch(c) = Motors
  BY <1>2, CopiesAreComplete DEF Motors
<1>4. ASSUME NEW m \in DOMAIN Batch(c)
      PROVE  /\ m \in Motors
             /\ Resolves(UnpackMit(Batch(c)[m]).kp, Gain, 0, KpMax, 4095)
             /\ \E q \in OwnTargets(JointOf(m)) :
                   Resolves(UnpackMit(Batch(c)[m]).p, q, -PMax, PMax, 65535)
  <2>1. PICK j \in SentRecords(c) : m = Ids[j]
    BY <1>2
  <2>2. j \in Joints /\ m \in Motors /\ JointOf(m) = j
    BY <1>1, <2>1, JointFacts
  <2>3. \A i \in SentRecords(c) : c.id[i] = m => i = j
    BY <1>1, <2>1, JointFacts, CopiesAreComplete
  <2>4. c.id[j] = m
    BY <2>1, <2>2, CopiesAreComplete
  <2>5. Batch(c)[m] = Frame(c.target[j])
    BY <2>1, <2>3, <2>4 DEF Batch
  <2>6. PICK q \in Int : /\ c.target[j] = [q |-> q, kp |-> Gain]
                         /\ q = NaN \/ q \in OwnTargets(j)
    BY <2>2, CopiesAreComplete
  <2>7. ~Rejected(c.target[j])
    <3>1. j \in Sendable(c) /\ \A k \in Sendable(c) : k <= j => ~Rejected(c.target[k])
      BY <2>1 DEF SentRecords
    <3>2. j <= j
      BY <2>2, JointFacts
    <3> QED
      BY <3>1, <3>2
  <2>8. q # NaN
    BY <2>6, <2>7 DEF Rejected, NaN, PMax
  <2>9. q \in OwnTargets(JointOf(m))
    BY <2>2, <2>6, <2>8
  <2> QED
    BY <2>2, <2>5, <2>6, <2>7, <2>9, FrameResolves
<1> QED
  BY <1>3, <1>4

(* The segments, seen from a step that leaves the runner's program alone.   *)
LEMMA BlocksStay ==
    ASSUME runner' = runner
    PROVE  TargetBlocks' = TargetBlocks /\ \A j : OwnTargets(j)' = OwnTargets(j)
BY DEF TargetBlocks, OwnArrays, OwnTargets, OwnFactors

(* Nothing is begun and nothing is sent at the start. *)
LEMMA InitIInv == Init => IInv
<1> SUFFICES ASSUME Init PROVE IInv
  OBVIOUS
<1>1. StateSegment
  BY DEF Init, StateSegment, Segment
<1>2. CommandSegment
  BY DEF Init, CommandSegment, Segment
<1>3. PositionsSeen /\ BatchComplete /\ EachJointItsOwn
  BY DEF Init, PositionsSeen, BatchComplete, EachJointItsOwn
<1> QED
  BY <1>1, <1>2, <1>3 DEF IInv

(* No step begins or ends anything but a whole block.                       *)
LEMMA SegmentsStep ==
    ASSUME StateSegment, CommandSegment, PositionsSeen, [Next]_vars
    PROVE  StateSegment' /\ CommandSegment' /\ PositionsSeen'
<1>1. runner' = runner
  BY DEF Next, vars, auxVars, taskVars, ctlVars, Controller, AuxReader, Runner, Publish,
     Published, SkipPublish, SendPolicyCommand, AuxStart, AuxEvent, AuxWritten, AuxEnds,
     Hold, TaskWaits, TaskState, TaskCompute, TaskWritten, TaskEnds
<1>2. TargetBlocks' = TargetBlocks
  BY <1>1, BlocksStay
<1>3. CASE Publish
  <2>1. PICK p \in Postures : state' = Begin(state, RobotState(p))
    BY <1>3 DEF Publish
  <2>2. StateSegment'
    BY <2>1 DEF StateSegment, Begin, RobotStates
  <2> QED
    BY <1>2, <1>3, <2>2 DEF Publish, CommandSegment, PositionsSeen, taskVars
<1>4. CASE Published
  <2>1. PICK b \in RobotStates : state.new = {b}
    BY <1>4 DEF StateSegment, Published
  <2>2. state' = [cur |-> b, new |-> {}]
    BY <1>4, <2>1 DEF Published, End
  <2>3. StateSegment'
    BY <1>4, <2>2 DEF StateSegment, Published
  <2> QED
    BY <1>2, <1>4, <2>3 DEF Published, CommandSegment, PositionsSeen, taskVars
<1>5. CASE SkipPublish
  BY <1>2, <1>5 DEF SkipPublish, StateSegment, CommandSegment, PositionsSeen, taskVars
<1>6. CASE SendPolicyCommand
  BY <1>2, <1>6 DEF SendPolicyCommand, StateSegment, CommandSegment, PositionsSeen, taskVars
<1>7. CASE AuxStart \/ AuxEvent \/ AuxWritten \/ AuxEnds \/ Hold
  BY <1>2, <1>7 DEF AuxStart, AuxEvent, AuxWritten, AuxEnds, Hold, StateSegment,
     CommandSegment, PositionsSeen, taskVars, ctlVars
<1>8. CASE TaskWaits
  BY <1>2, <1>8 DEF TaskWaits, StateSegment, CommandSegment, PositionsSeen, ctlVars
<1>9. CASE TaskEnds
  BY <1>2, <1>9 DEF TaskEnds, StateSegment, CommandSegment, PositionsSeen, ctlVars
<1>10. CASE TaskState
  <2>1. StateSegment' /\ CommandSegment'
    BY <1>2, <1>10 DEF TaskState, StateSegment, CommandSegment, ctlVars
  <2>2. ASSUME pc' = "compute" PROVE pos' \in Seen
    <3>1. PICK b \in StateCopies(Met(state)) : ~Unusable(b) /\ pos' = DofPos(b)
      BY <1>10, <2>2 DEF TaskState
    <3>2. Met(state) \in SUBSET ({EmptyState} \cup RobotStates)
      BY DEF Met, StateSegment
    <3> QED
      BY <3>1, <3>2, UsableIsSeen
  <2> QED
    BY <2>1, <2>2 DEF PositionsSeen
<1>11. CASE TaskCompute
  <2>1. PICK a \in {b.a : b \in Met(aux)}, raw \in Net(DeltaDofPos(pos)) :
          cmd' = WriteTargets(QTarget(raw, a))
    BY <1>11 DEF TaskCompute
  <2>2. QTarget(raw, a) \in OwnArrays
    BY <1>11, QTargetIsOwn DEF TaskCompute, PositionsSeen
  <2>3. PICK b \in TargetBlocks : cmd' = [cmd EXCEPT !.new = {b}]
    BY <2>1, <2>2 DEF WriteTargets, Begin, TargetBlocks, TargetBlock
  <2>4. CommandSegment'
    BY <1>2, <2>3 DEF CommandSegment
  <2> QED
    BY <1>11, <2>4 DEF TaskCompute, StateSegment, PositionsSeen, ctlVars
<1>12. CASE TaskWritten
  <2>1. PICK b \in TargetBlocks : cmd.new = {b}
    BY <1>12 DEF CommandSegment, TaskWritten
  <2>2. cmd' = [cur |-> b, new |-> {}]
    BY <1>12, <2>1 DEF TaskWritten, End
  <2>3. CommandSegment'
    BY <1>2, <1>12, <2>2 DEF CommandSegment, TaskWritten
  <2> QED
    BY <1>12, <2>3 DEF TaskWritten, StateSegment, PositionsSeen, ctlVars
<1>13. CASE UNCHANGED vars
  BY <1>2, <1>13 DEF vars, taskVars, ctlVars, StateSegment, CommandSegment, PositionsSeen
<1> QED
  BY <1>3, <1>4, <1>5, <1>6, <1>7, <1>8, <1>9, <1>10, <1>11, <1>12, <1>13
     DEF Next, Controller, AuxReader, Runner

(* A batch is sent from a copy across complete writes, or counted as not    *)
(* whole.                                                                   *)
LEMMA BatchStep ==
    ASSUME StateSegment, CommandSegment, BatchComplete, EachJointItsOwn, [Next]_vars
    PROVE  BatchComplete' /\ EachJointItsOwn'
<1>1. CASE Publish \/ SkipPublish
  BY <1>1 DEF Publish, SkipPublish, BatchComplete, EachJointItsOwn
<1>2. CASE SendPolicyCommand
  <2>1. SUFFICES ASSUME whole' PROVE BatchComplete' /\ EachJointItsOwn'
    BY DEF BatchComplete, EachJointItsOwn
  <2>2. Met(cmd) \in SUBSET TargetBlocks
    BY <1>2, <2>1 DEF SendPolicyCommand, CommandSegment, Met
  <2>3. PICK c \in TargetCopies(Met(cmd)) :
           sent' = Batch(c) /\ (ctl' = "stopped" \/ SentRecords(c) = Sendable(c))
    BY <1>2 DEF SendPolicyCommand
  <2>4. BatchComplete'
    BY <2>2, <2>3, BatchIsOwn DEF BatchComplete
  <2>5. \A j : OwnTargets(j)' = OwnTargets(j)
    BY <1>2, BlocksStay DEF SendPolicyCommand
  <2>6. EachJointItsOwn'
    BY <2>2, <2>3, <2>5, BatchIsOwn DEF EachJointItsOwn
  <2> QED
    BY <2>4, <2>6
<1>3. CASE Published \/ AuxReader \/ AuxEnds \/ Hold \/ Runner \/ TaskEnds \/ UNCHANGED vars
  <2>1. /\ runner' = runner /\ sent' = sent /\ whole' = whole
        /\ ctl = "stopped" => ctl' = "stopped"
    BY <1>3 DEF Published, AuxReader, AuxStart, AuxEvent, AuxWritten, AuxEnds, Hold, Runner,
       TaskWaits, TaskState, TaskCompute, TaskWritten, TaskEnds, vars, ctlVars
  <2>2. \A j : OwnTargets(j)' = OwnTargets(j)
    BY <2>1, BlocksStay
  <2>3. BatchComplete'
    BY <2>1 DEF BatchComplete
  <2> QED
    BY <2>1, <2>2, <2>3 DEF EachJointItsOwn
<1> QED
  BY <1>1, <1>2, <1>3 DEF Next, Controller

(* IInv is inductive. *)
LEMMA Inductive == IInv /\ [Next]_vars => IInv'
BY SegmentsStep, BatchStep DEF IInv

(* Every batch after the runner's first complete write names every motor    *)
(* with the configured gain, whatever writes the copy is taken across, or   *)
(* the controller has stopped (_send_policy_command).                       *)
THEOREM BatchesAreComplete == Spec => []BatchComplete
<1>1. Spec => []IInv
  BY InitIInv, Inductive, PTL DEF Spec
<1> QED
  BY <1>1, PTL DEF IInv

(* A motor is told its own joint's target, to half a step, through both     *)
(* index conversions, the slot and the frame (compute_action,               *)
(* _pack_mit_payload).                                                      *)
THEOREM JointsGetTheirOwn == Spec => []EachJointItsOwn
<1>1. Spec => []IInv
  BY InitIInv, Inductive, PTL DEF Spec
<1> QED
  BY <1>1, PTL DEF IInv

(* The runner raises on no state block but one copied across the first      *)
(* publication (main loop of the task controller).                          *)
THEOREM RaisesAreEarly == Spec => RaisesOnlyOnFirstState
<1>1. ASSUME StateSegment, [Next]_vars, pc # "dead", pc' = "dead"
      PROVE  state.cur = EmptyState
  <2>1. TaskState
    BY <1>1 DEF Next, vars, Controller, AuxReader, Runner, Publish, Published, SkipPublish,
       SendPolicyCommand, AuxStart, AuxEvent, AuxWritten, AuxEnds, Hold, TaskWaits,
       TaskCompute, TaskWritten, TaskEnds, taskVars
  <2>2. PICK b \in StateCopies(Met(state)) : Unusable(b)
    BY <1>1, <2>1 DEF TaskState
  <2>3. SUFFICES ASSUME state.cur # EmptyState PROVE FALSE
    OBVIOUS
  <2>4. Met(state) \in SUBSET RobotStates
    BY <1>1, <2>3 DEF StateSegment, Met
  <2> QED
    BY <2>2, <2>4, PublishedIsUsable
<1>2. Spec => []IInv
  BY InitIInv, Inductive, PTL DEF Spec
<1>3. IInv => StateSegment
  BY DEF IInv
<1>4. StateSegment /\ [Next]_vars => [pc # "dead" /\ pc' = "dead" => state.cur = EmptyState]_vars
  BY <1>1
<1> QED
  BY <1>2, <1>3, <1>4, PTL DEF Spec, RaisesOnlyOnFirstState
===============================================================================
