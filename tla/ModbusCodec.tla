----------------------------- MODULE ModbusCodec -----------------------------
(***************************************************************************)
(* Numbers on their way between Modbus registers and DNP3: the types of a  *)
(* point (Config.cpp), how registers become a value and a command's value  *)
(* becomes registers (Modbus.cpp), and what the variations of opendnp3     *)
(* make of a value.  Widths are those of the code.                         *)
(*                                                                         *)
(* The value of a command, a double, is given in halves where it is        *)
(* rounded to an integer, so that it can lie between two integers, and by  *)
(* its fields where it is narrowed to a float.  A float is its 32 bits,    *)
(* which the code copies to and from registers; making it a double again   *)
(* after a read loses nothing.                                             *)
(***************************************************************************)
EXTENDS Integers, Sequences

Word == 65536
Long == 4294967296

HoldingTypes ==
    {"HoldingInt16", "HoldingUInt16", "HoldingInt32", "HoldingUInt32", "HoldingFloat32"}
InputTypes ==
    {"InputInt16", "InputUInt16", "InputInt32", "InputUInt32", "InputFloat32"}
BitTypes == {"CoilStatusBool", "InputStatusBool"}

ReadValueType == HoldingTypes \cup InputTypes \cup BitTypes

Int16Types == {"HoldingInt16", "InputInt16"}
UInt16Types == {"HoldingUInt16", "InputUInt16"}
Int32Types == {"HoldingInt32", "InputInt32"}
UInt32Types == {"HoldingUInt32", "InputUInt32"}
FloatTypes == {"HoldingFloat32", "InputFloat32"}

RegisterCountForType(t) ==
    IF t \in Int32Types \cup UInt32Types \cup FloatTypes THEN 2 ELSE 1

(***************************************************************************)
(* The two tokens of a line of the configuration file that give the type,  *)
(* trimmed and in lower case.                                              *)
(***************************************************************************)
Invalid == "invalid"

BitData == {"bool", "boolean", "bit", "0_1"}

ParseReadValueType(reg, data) ==
    LET Bit(t) == IF data \in BitData THEN t ELSE Invalid
        Numeric(i16, u16, i32, u32, f32) ==
            CASE data \in {"int16", "short"}            -> i16
              [] data \in {"uint16", "word"}            -> u16
              [] data \in {"int32", "long"}             -> i32
              [] data \in {"uint32", "dword"}           -> u32
              [] data \in {"float", "float32", "real"}  -> f32
              [] OTHER                                  -> Invalid
    IN  CASE reg \in {"coil", "coil_status", "coils", "0x"} -> Bit("CoilStatusBool")
          [] reg \in {"input_status", "discrete_input", "discrete", "1x"} ->
               Bit("InputStatusBool")
          [] reg \in {"holding", "hr", "4x", "holding_register"} ->
               Numeric("HoldingInt16", "HoldingUInt16", "HoldingInt32", "HoldingUInt32",
                       "HoldingFloat32")
          [] reg \in {"input", "ir", "3x", "input_register"} ->
               Numeric("InputInt16", "InputUInt16", "InputInt32", "InputUInt32",
                       "InputFloat32")
          [] OTHER -> Invalid

ReadValueTypeRegisterKind(t) ==
    CASE t = "CoilStatusBool"  -> "coil_status"
      [] t = "InputStatusBool" -> "input_status"
      [] t \in HoldingTypes    -> "holding"
      [] OTHER                 -> "input_register"

ReadValueTypeDataType(t) ==
    CASE t \in BitTypes    -> "bool"
      [] t \in Int16Types  -> "int16"
      [] t \in UInt16Types -> "uint16"
      [] t \in Int32Types  -> "int32"
      [] t \in UInt32Types -> "uint32"
      [] t \in FloatTypes  -> "float32"

(***************************************************************************)
(* Registers.                                                              *)
(***************************************************************************)
Below(n) == {i \in Nat : i < n}

Registers == Below(Word)

\* What a read of a point of type t can return.
Contents(t) ==
    IF t \in BitTypes THEN {<<0>>, <<1>>} ELSE [1 .. RegisterCountForType(t) -> Registers]

\* static_cast of an unsigned integer below m to the signed type of its width
Signed(x, m) == IF x < m \div 2 THEN x ELSE x - m

Raw(regs) == Word * regs[1] + regs[2]

\* ReadModbusPoint, once the registers are read
ReadValue(t, regs) ==
    CASE t \in BitTypes    -> IF regs[1] # 0 THEN 1 ELSE 0
      [] t \in Int16Types  -> Signed(regs[1], Word)
      [] t \in UInt16Types -> regs[1]
      [] t \in Int32Types  -> Signed(Raw(regs), Long)
      [] t \in UInt32Types \cup FloatTypes -> Raw(regs)

\* std::llround: to the nearest integer, halves away from zero
Llround(h) == IF h >= 0 THEN (h + 1) \div 2 ELSE -((1 - h) \div 2)

(***************************************************************************)
(* Floats and doubles (IEEE 754).                                          *)
(***************************************************************************)
Mantissa == 8388608      \* 2^23: a float has 23 bits below its exponent
Dropped == 536870912     \* 2^29: a double has 29 bits more

\* A double is (-1)^neg * (1 + (man + rest / Dropped) / Mantissa) * 2^(exp - 1023);
\* exp is 0 for zero and what is next to it, and 2047 for infinities and NaNs.
Doubles ==
    [neg : BOOLEAN, exp : Below(2048), man : Below(Mantissa), rest : Below(Dropped)]

SignBit == 2147483648
Infinity == 255 * Mantissa

\* The integer nearest to q + r / u, the even one of two
HalfEven(q, r, u) == IF 2 * r > u \/ (2 * r = u /\ q % 2 = 1) THEN q + 1 ELSE q

\* The mantissa of a float with the least exponent, which has no leading 1: that of
\* the double, with it, is shifted to the right.
Subnormal(d) ==
    LET m == Mantissa + d.man
        shift == 2 ^ (897 - d.exp)
    IN  HalfEven(m \div shift, (m % shift) * Dropped + d.rest, shift * Dropped)

\* static_cast<float>: the nearest float; a mantissa that is rounded up carries into
\* the exponent, and what is too large becomes infinite.
Magnitude(d) ==
    CASE d.exp = 2047 ->
           IF d.man = 0 /\ d.rest = 0 THEN Infinity
           ELSE Infinity + (Mantissa \div 2) + (d.man % (Mantissa \div 2))
      [] d.exp > 1150 /\ d.exp < 2047 -> Infinity
      [] d.exp > 896 /\ d.exp < 1151 -> (d.exp - 896) * Mantissa + HalfEven(d.man, d.rest, Dropped)
      [] d.exp > 872 /\ d.exp < 897 -> Subnormal(d)
      [] d.exp < 873 -> 0

Narrow(d) == IF d.neg THEN SignBit + Magnitude(d) ELSE Magnitude(d)

\* static_cast<double> of a float that is zero or normal
Widen(bits) ==
    LET b == bits % SignBit
    IN  [neg |-> bits >= SignBit,
         exp |-> IF b = 0 THEN 0 ELSE b \div Mantissa + 896,
         man |-> b % Mantissa,
         rest |-> 0]

Split(raw) == <<(raw \div Word) % Word, raw % Word>>

Refused(status) == [status |-> status, regs |-> <<>>]

Payload(regs) == [status |-> "SUCCESS", regs |-> regs]

\* value is in halves or, for a float point, a member of Doubles
BuildHoldingRegisterWritePayload(t, value) ==
    LET v == Llround(value)
    IN  CASE t = "HoldingInt16" ->
               IF v < -32768 \/ v > 32767 THEN Refused("OUT_OF_RANGE")
               ELSE Payload(<<v % Word>>)
          [] t = "HoldingUInt16" ->
               IF v < 0 \/ v > 65535 THEN Refused("OUT_OF_RANGE") ELSE Payload(<<v>>)
          [] t = "HoldingInt32" ->
               IF v < -2147483648 \/ v > 2147483647 THEN Refused("OUT_OF_RANGE")
               ELSE Payload(Split(v % Long))
          [] t = "HoldingUInt32" ->
               IF v < 0 \/ v > 4294967295 THEN Refused("OUT_OF_RANGE") ELSE Payload(Split(v))
          [] t = "HoldingFloat32" -> Payload(Split(Narrow(value)))
          [] OTHER -> Refused("NOT_SUPPORTED")

(***************************************************************************)
(* Variations.                                                             *)
(***************************************************************************)
StaticVariationForType(t) ==
    CASE t \in FloatTypes               -> "Group30Var5"
      [] t \in Int16Types \cup UInt16Types -> "Group30Var2"
      [] OTHER                          -> "Group30Var1"

\* What the panel says about the point.
Dnp3StaticVariationNumber(t) ==
    CASE t \in BitTypes                     -> 2
      [] t \in FloatTypes                   -> 5
      [] t \in Int32Types \cup UInt32Types  -> 1
      [] OTHER                              -> 2

\* DownSampling::Apply, with the flag that ConvertQVRangeCheck sets
DownSample(v, min, max) ==
    CASE v > max -> [value |-> max, overrange |-> TRUE]
      [] v < min -> [value |-> min, overrange |-> TRUE]
      [] OTHER   -> [value |-> v, overrange |-> FALSE]

Reported(variation, v) ==
    CASE variation = "Group30Var5" -> [value |-> v, overrange |-> FALSE]
      [] variation = "Group30Var2" -> DownSample(v, -32768, 32767)
      [] variation \in {"Group30Var1", "Group32Var1"} ->
           DownSample(v, -2147483648, 2147483647)

\* Answer to a static read of a point
StaticReport(t, v) == Reported(StaticVariationForType(t), v)

\* Its event, whose variation ConfigureDatabase leaves at the default
EventOf(v) == Reported("Group32Var1", v)
=============================================================================
