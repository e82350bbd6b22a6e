------------------------------ MODULE SpgProtocol ------------------------------
(***************************************************************************)
(* The fixed-point encodings of SPGActuatorProtocol and their inverses in  *)
(* the motor's firmware. A physical quantity is an integer number of units, *)
(* a quotient of two quantities a pair that is rounded at the end, and a    *)
(* frame the sequence of its eight bytes.                                   *)
(***************************************************************************)
EXTENDS Integers, Sequences

CMD_MIT_CONTROL  == 192
CMD_MIT_SET_ZERO == 195

-------------------------------------------------------------------------------
(* Rounding and quantisation *)

(* n / d, halves away from zero. *)
RoundHalfAway(n, d) ==
    IF n >= 0 THEN (2 * n + d) \div (2 * d) ELSE -((d - 2 * n) \div (2 * d))

(* float_to_uint with max_int = 2^bits - 1. *)
FloatToUint(x, lo, hi, maxInt) == RoundHalfAway((x - lo) * maxInt, hi - lo)

(* uint_to_float of u is within half a step of x, steps being               *)
(* (hi - lo) / maxInt.                                                      *)
Resolves(u, x, lo, hi, maxInt) ==
    LET err == u * (hi - lo) - (x - lo) * maxInt
    IN  2 * err <= hi - lo /\ -(2 * err) <= hi - lo

-------------------------------------------------------------------------------
(* The MIT control frame: position 16 bits, velocity 12, kp 12, kd 8 and    *)
(* torque 8, the two 12-bit fields sharing a byte.                          *)

PackMit(p, v, kp, kd, t) ==
    <<CMD_MIT_CONTROL, p \div 256, p % 256, v \div 16,
      (v % 16) * 16 + (kp \div 256), kp % 256, kd, t>>

UnpackMit(f) ==
    [p |-> f[2] * 256 + f[3], v |-> f[4] * 16 + (f[5] \div 16),
     kp |-> (f[5] % 16) * 256 + f[6], kd |-> f[7], t |-> f[8]]

-------------------------------------------------------------------------------
(* Signed 16-bit fields, little endian *)

I16Bytes(x) == <<x % 256, (x \div 256) % 256>>

ReadI16(lo, hi) ==
    LET u == hi * 256 + lo IN IF u >= 32768 THEN u - 65536 ELSE u

(* A set-zero offset in hundredths of a degree, and what the firmware, the  *)
(* acknowledge's decoder and the monitors read of it.                       *)
ZeroFrame(count) ==
    <<CMD_MIT_SET_ZERO, 0, 0, 0, 0, 0, I16Bytes(count)[1], I16Bytes(count)[2]>>

ZeroOffset(f) == ReadI16(f[7], f[8])

(* The status frame: temperature in 8 bits, current, speed and position in  *)
(* 16, each saturated by the firmware; full scale of the position is max.   *)
Clamped(x, lo, hi) == IF x < lo THEN lo ELSE IF x > hi THEN hi ELSE x

PositionCount(x, max) == RoundHalfAway(Clamped(x, -max, max) * 32767, max)

StatusFrame(temp, iq, speed, pos) ==
    LET i == I16Bytes(Clamped(iq, -32768, 32767))
        s == I16Bytes(Clamped(speed, -32768, 32767))
        p == I16Bytes(pos)
    IN  <<CMD_MIT_CONTROL, Clamped(temp, -128, 127) % 256,
          i[1], i[2], s[1], s[2], p[1], p[2]>>

MitStatus(f) ==
    [temp  |-> IF f[2] >= 128 THEN f[2] - 256 ELSE f[2],
     iq    |-> ReadI16(f[3], f[4]),
     speed |-> ReadI16(f[5], f[6]),
     pos   |-> ReadI16(f[7], f[8])]

-------------------------------------------------------------------------------
(* The 14-bit encoder *)

EncMod  == 16384
EncHalf == 8192

(* shortest_delta_u14. *)
ShortestDelta(curr, prev) ==
    LET delta == (curr % EncMod) - (prev % EncMod)
    IN  IF delta > EncHalf THEN delta - EncMod
        ELSE IF delta < -EncHalf THEN delta + EncMod ELSE delta

(* encode_set_current_position_as_rad_frame: the offset it writes. *)
EncoderOffset(original, desired) == (desired - (original % EncMod)) % EncMod
===============================================================================
