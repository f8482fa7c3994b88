-------------------------- MODULE ModbusCodecProofs --------------------------
(***************************************************************************)
(* Theorems about ModbusCodec.                                             *)
(***************************************************************************)
EXTENDS ModbusCodec, TLAPS

IntegerHolding == HoldingTypes \ FloatTypes

Longs == {n \in Nat : n < Long}

\* The sets of types, to be expanded in a proof by cases on a type.
LEMMA IntegerHoldingTypes ==
    ASSUME NEW t \in IntegerHolding
    PROVE  t \in {"HoldingInt16", "HoldingUInt16", "HoldingInt32", "HoldingUInt32"}
BY SMT DEF IntegerHolding, HoldingTypes, FloatTypes

\* Split cuts 32 bits into two registers that Raw puts together again.
LEMMA SplitFacts ==
    ASSUME NEW raw \in Longs
    PROVE  Split(raw) \in [1 .. 2 -> Registers] /\ Raw(Split(raw)) = raw
<1> DEFINE hi == raw \div Word
           lo == raw % Word
<1>1. raw \in Int /\ raw >= 0 /\ raw < 4294967296
  BY SMT DEF Longs, Long
<1>2. hi \in Int /\ hi >= 0 /\ hi < 65536
  BY SMT, <1>1 DEF Word
<1>3. lo \in Int /\ lo >= 0 /\ lo < 65536 /\ Word * hi + lo = raw
  BY SMT, <1>1 DEF Word
<1>4. hi % Word = hi
  BY SMT, <1>2 DEF Word
<1>5. Split(raw) = <<hi, lo>>
  BY SMT, <1>4 DEF Split
<1>6. hi \in Registers /\ lo \in Registers
  BY SMT, <1>2, <1>3 DEF Registers, Below, Word
<1> HIDE DEF hi, lo
<1>7. <<hi, lo>> \in [1 .. 2 -> Registers]
  BY SMT, <1>6
<1>8. Raw(<<hi, lo>>) = Word * hi + lo
  BY SMT DEF Raw
<1> QED
  BY SMT, <1>3, <1>5, <1>7, <1>8

\* Raw loses nothing of its two registers.
LEMMA RawFacts ==
    ASSUME NEW a \in [1 .. 2 -> Registers]
    PROVE  Raw(a) \in Longs /\ a[1] = Raw(a) \div Word /\ a[2] = Raw(a) % Word
<1> DEFINE x == a[1]
           y == a[2]
<1>1. x \in Int /\ x >= 0 /\ x < 65536 /\ y \in Int /\ y >= 0 /\ y < 65536
  BY SMT DEF Registers, Below, Word
<1>2. Raw(a) = 65536 * x + y
  BY SMT DEF Raw, Word
<1> HIDE DEF x, y
<1>3. Raw(a) \in Int /\ Raw(a) >= 0 /\ Raw(a) < 4294967296
  BY SMT, <1>1, <1>2
<1>4. Raw(a) \in Longs
  BY SMT, <1>3 DEF Longs, Long
<1>5. x = Raw(a) \div Word /\ y = Raw(a) % Word
  BY SMT, <1>1, <1>2 DEF Word
<1> QED
  BY SMT, <1>4, <1>5 DEF x, y

\* A signed value survives the cast to its unsigned type and back.
LEMMA Signed16 ==
    ASSUME NEW v \in Int, v >= -32768, v <= 32767
    PROVE  v % Word \in Registers /\ Signed(v % Word, Word) = v
BY SMT DEF Signed, Word, Registers, Below

LEMMA Signed32 ==
    ASSUME NEW v \in Int, v >= -2147483648, v <= 2147483647
    PROVE  v % Long \in Longs /\ Signed(v % Long, Long) = v
BY SMT DEF Signed, Long, Longs

\* ... and an unsigned one the cast to the signed type.
LEMMA Unsigned16 ==
    ASSUME NEW x \in Registers
    PROVE  /\ Signed(x, Word) \in Int
           /\ Signed(x, Word) >= -32768 /\ Signed(x, Word) <= 32767
           /\ Signed(x, Word) % Word = x
BY SMT DEF Signed, Word, Registers, Below

LEMMA Unsigned32 ==
    ASSUME NEW x \in Longs
    PROVE  /\ Signed(x, Long) \in Int
           /\ Signed(x, Long) >= -2147483648 /\ Signed(x, Long) <= 2147483647
           /\ Signed(x, Long) % Long = x
BY SMT DEF Signed, Long, Longs

LEMMA RoundType ==
    ASSUME NEW h \in Int
    PROVE  Llround(h) \in Int
BY SMT DEF Llround

\* What a read of one register makes of it.
LEMMA OneRegister ==
    ASSUME NEW t \in Int16Types \cup UInt16Types
    PROVE  /\ Contents(t) = [1 .. 1 -> Registers]
           /\ \A regs : ReadValue(t, regs) =
                  IF t \in Int16Types THEN Signed(regs[1], Word) ELSE regs[1]
<1>1. t \notin BitTypes \cup Int32Types \cup UInt32Types \cup FloatTypes
  BY SMT DEF BitTypes, Int16Types, UInt16Types, Int32Types, UInt32Types, FloatTypes
<1>2. Contents(t) = [1 .. 1 -> Registers]
  <2>1. RegisterCountForType(t) = 1
    BY SMT, <1>1 DEF RegisterCountForType
  <2> QED
    BY <1>1, <2>1, Zenon DEF Contents
<1>3. ASSUME NEW regs
      PROVE  ReadValue(t, regs) = IF t \in Int16Types THEN Signed(regs[1], Word) ELSE regs[1]
  <2>1. t \in Int16Types => ReadValue(t, regs) = Signed(regs[1], Word)
    BY SMT, <1>1 DEF ReadValue, Int16Types, UInt16Types
  <2>2. t \notin Int16Types => ReadValue(t, regs) = regs[1]
    BY SMT, <1>1 DEF ReadValue, Int16Types, UInt16Types
  <2> QED
    BY <2>1, <2>2
<1> QED
  BY <1>2, <1>3

\* What a read of two registers makes of them.
LEMMA TwoRegisters ==
    ASSUME NEW t \in Int32Types \cup UInt32Types \cup FloatTypes
    PROVE  /\ Contents(t) = [1 .. 2 -> Registers]
           /\ \A regs : ReadValue(t, regs) =
                  IF t \in Int32Types THEN Signed(Raw(regs), Long) ELSE Raw(regs)
<1>1. t \notin BitTypes \cup Int16Types \cup UInt16Types
  BY SMT DEF BitTypes, Int16Types, UInt16Types, Int32Types, UInt32Types, FloatTypes
<1>2. Contents(t) = [1 .. 2 -> Registers]
  BY SMT, <1>1 DEF Contents, RegisterCountForType
<1>3. ASSUME NEW regs
      PROVE  ReadValue(t, regs) = IF t \in Int32Types THEN Signed(Raw(regs), Long) ELSE Raw(regs)
  <2>1. t \in Int32Types => ReadValue(t, regs) = Signed(Raw(regs), Long)
    BY SMT, <1>1 DEF ReadValue, Int32Types, UInt32Types, FloatTypes
  <2>2. t \notin Int32Types => ReadValue(t, regs) = Raw(regs)
    BY SMT, <1>1 DEF ReadValue, Int32Types, UInt32Types, FloatTypes
  <2> QED
    BY <2>1, <2>2
<1> QED
  BY <1>2, <1>3

\* A command is written as the integer nearest to its value (std::llround in
\* BuildHoldingRegisterWritePayload); its value is h/2.
THEOREM NearestInteger ==
    ASSUME NEW h \in Int
    PROVE  2 * Llround(h) - h \in -1 .. 1
BY SMT DEF Llround

\* A mantissa is rounded by at most half of its last digit.
LEMMA HalfEvenFacts ==
    ASSUME NEW q \in Below(Mantissa), NEW r \in Below(Dropped)
    PROVE  LET h == HalfEven(q, r, Dropped)
           IN  /\ h \in Int /\ h >= 0 /\ h <= Mantissa
               /\ (h - q) * Dropped - r <= 268435456
               /\ (h - q) * Dropped - r >= -268435456
<1> DEFINE h == HalfEven(q, r, Dropped)
<1>1. q \in Int /\ q >= 0 /\ q < 8388608 /\ r \in Int /\ r >= 0 /\ r < 536870912
  BY SMT DEF Mantissa, Dropped, Below
<1>2. \/ h = q + 1 /\ 2 * r >= 536870912
      \/ h = q /\ 2 * r <= 536870912
  BY SMT, <1>1 DEF HalfEven, Dropped
<1> HIDE DEF h
<1>3. \/ h = q + 1 /\ (h - q) * 536870912 = 536870912
      \/ h = q /\ (h - q) * 536870912 = 0
  BY SMT, <1>1, <1>2
<1>4. /\ h \in Int /\ h >= 0 /\ h <= 8388608
      /\ (h - q) * 536870912 - r <= 268435456
      /\ (h - q) * 536870912 - r >= -268435456
  BY SMT, <1>1, <1>2, <1>3
<1> QED
  BY SMT, <1>4 DEF Mantissa, Dropped, h

LEMMA DoubleFields ==
    ASSUME NEW d \in Doubles
    PROVE  /\ d.neg \in BOOLEAN
           /\ d.exp \in Int /\ d.exp >= 0 /\ d.exp < 2048
           /\ d.man \in Below(Mantissa) /\ d.man \in Int /\ d.man >= 0
           /\ d.rest \in Below(Dropped) /\ d.rest \in Int
<1>1. /\ d.neg \in BOOLEAN /\ d.exp \in Below(2048)
      /\ d.man \in Below(Mantissa) /\ d.rest \in Below(Dropped)
  BY SMT DEF Doubles
<1> QED
  BY SMT, <1>1 DEF Below

LEMMA NormalMagnitude ==
    ASSUME NEW d \in Doubles, d.exp > 896 /\ d.exp < 1151
    PROVE  Magnitude(d) = (d.exp - 896) * Mantissa + HalfEven(d.man, d.rest, Dropped)
BY SMT, DoubleFields DEF Magnitude

\* The magnitude of a double, where no part of the float's mantissa is cut off by
\* its least exponent.
LEMMA MagnitudeFacts ==
    ASSUME NEW d \in Doubles, d.exp < 873 \/ d.exp > 896
    PROVE  Magnitude(d) \in Int /\ Magnitude(d) >= 0 /\ Magnitude(d) < SignBit
<1>1. /\ d.exp \in Int /\ d.exp >= 0 /\ d.exp < 2048
      /\ d.man \in Below(Mantissa) /\ d.man \in Int /\ d.man >= 0
      /\ d.rest \in Below(Dropped)
  BY SMT, DoubleFields
<1>2. CASE d.exp > 896 /\ d.exp < 1151
  <2> DEFINE h == HalfEven(d.man, d.rest, Dropped)
  <2>1. Magnitude(d) = (d.exp - 896) * 8388608 + h
    BY SMT, <1>2, NormalMagnitude DEF Mantissa
  <2>2. h \in Int /\ h >= 0 /\ h <= 8388608
    <3>1. h \in Int /\ h >= 0 /\ h <= Mantissa
      BY SMT, <1>1, HalfEvenFacts
    <3> QED
      BY SMT, <3>1 DEF Mantissa
  <2> HIDE DEF h
  <2> QED
    BY SMT, <1>1, <1>2, <2>1, <2>2 DEF SignBit
<1>3. CASE d.exp = 2047
  <2> DEFINE x == d.man % 4194304
  <2>1. x \in Int /\ x >= 0 /\ x < 4194304
    BY SMT, <1>1 DEF Mantissa
  <2>2. Magnitude(d) = IF d.man = 0 /\ d.rest = 0 THEN Infinity
                       ELSE Infinity + (Mantissa \div 2) + (d.man % (Mantissa \div 2))
    BY SMT, <1>1, <1>3 DEF Magnitude
  <2>3. Mantissa \div 2 = 4194304 /\ Infinity = 2139095040
    BY SMT DEF Mantissa, Infinity
  <2>4. Magnitude(d) = 2139095040 \/ Magnitude(d) = 2139095040 + 4194304 + x
    BY SMT, <2>2, <2>3
  <2> HIDE DEF x
  <2> QED
    BY SMT, <2>1, <2>4 DEF SignBit
<1>4. CASE d.exp > 1150 /\ d.exp < 2047
  <2>1. Magnitude(d) = Infinity
    BY SMT, <1>1, <1>4 DEF Magnitude
  <2> QED
    BY SMT, <2>1 DEF Infinity, Mantissa, SignBit
<1>5. CASE d.exp < 873
  <2>1. Magnitude(d) = 0
    BY SMT, <1>1, <1>5 DEF Magnitude
  <2> QED
    BY SMT, <2>1 DEF SignBit
<1> QED
  BY SMT, <1>1, <1>2, <1>3, <1>4, <1>5

\* Every command to a float point is taken, and read back as the float it is cast to:
\* the memcpy of BuildHoldingRegisterWritePayload and that of ReadModbusPoint undo
\* each other.  (Magnitudes from 2^-150 up to 2^-126, whose floats have fewer digits,
\* are not covered.)
THEOREM FloatIsReadBack ==
    ASSUME NEW d \in Doubles, d.exp < 873 \/ d.exp > 896
    PROVE  LET p == BuildHoldingRegisterWritePayload("HoldingFloat32", d)
           IN  /\ p.status = "SUCCESS"
               /\ p.regs \in Contents("HoldingFloat32")
               /\ ReadValue("HoldingFloat32", p.regs) = Narrow(d)
<1> DEFINE p == BuildHoldingRegisterWritePayload("HoldingFloat32", d)
           bits == Narrow(d)
<1>1. bits \in Longs
  <2>1. Magnitude(d) \in Int /\ Magnitude(d) >= 0 /\ Magnitude(d) < SignBit
    BY SMT, MagnitudeFacts
  <2> QED
    BY SMT, <2>1 DEF Narrow, Longs, Long, SignBit
<1>2. p = Payload(Split(bits))
  BY SMT DEF BuildHoldingRegisterWritePayload
<1> HIDE DEF bits
<1>3. p.status = "SUCCESS" /\ p.regs = Split(bits)
  BY SMT, <1>2 DEF Payload
<1>4. Split(bits) \in [1 .. 2 -> Registers] /\ Raw(Split(bits)) = bits
  BY SMT, <1>1, SplitFacts
<1>5. "HoldingFloat32" \in FloatTypes /\ "HoldingFloat32" \notin Int32Types
  BY SMT DEF FloatTypes, Int32Types
<1>6. /\ Contents("HoldingFloat32") = [1 .. 2 -> Registers]
      /\ ReadValue("HoldingFloat32", Split(bits)) = Raw(Split(bits))
  BY SMT, <1>5, TwoRegisters
<1> QED
  BY SMT, <1>3, <1>4, <1>6 DEF bits

\* In the range of normal floats the float that is written is the nearest one: its
\* exponent and mantissa, taken as one number, differ from those of the command by
\* at most half of the last digit, Dropped / 2 of the digits it leaves out
\* (static_cast<float> in BuildHoldingRegisterWritePayload).
THEOREM FloatIsNearest ==
    ASSUME NEW d \in Doubles, d.exp > 896 /\ d.exp < 1151
    PROVE  LET digits == Magnitude(d) - ((d.exp - 896) * Mantissa + d.man)
               error  == digits * Dropped - d.rest
           IN  error <= 268435456 /\ error >= -268435456
<1> DEFINE h == HalfEven(d.man, d.rest, Dropped)
<1>1. /\ d.exp \in Int /\ d.man \in Below(Mantissa) /\ d.man \in Int
      /\ d.rest \in Below(Dropped)
  BY SMT, DoubleFields
<1>2. Magnitude(d) = (d.exp - 896) * Mantissa + h
  BY SMT, NormalMagnitude
<1>3. /\ h \in Int
      /\ (h - d.man) * Dropped - d.rest <= 268435456
      /\ (h - d.man) * Dropped - d.rest >= -268435456
  BY SMT, <1>1, HalfEvenFacts
<1> HIDE DEF h
<1>4. Magnitude(d) - ((d.exp - 896) * Mantissa + d.man) = h - d.man
  <2>1. (d.exp - 896) * Mantissa \in Int
    BY SMT, <1>1 DEF Mantissa
  <2> QED
    BY SMT, <1>1, <1>2, <1>3, <2>1
<1> QED
  BY SMT, <1>3, <1>4

\* A command that is a float, zero or normal, is written as that float
\* (AnalogOutputFloat32, cast to double and back).
THEOREM FloatCommandIsExact ==
    ASSUME NEW bits \in Longs,
           bits % SignBit = 0 \/ (bits % SignBit) \div Mantissa \in 1 .. 254
    PROVE  Widen(bits) \in Doubles /\ Narrow(Widen(bits)) = bits
<1> DEFINE b == bits % SignBit
           e == b \div Mantissa
           m == b % Mantissa
           d == Widen(bits)
<1>1. bits \in Int /\ bits >= 0 /\ bits < 4294967296
  BY SMT DEF Longs, Long
<1>2. /\ b \in Int /\ b >= 0 /\ b < 2147483648
      /\ bits = IF bits >= 2147483648 THEN 2147483648 + b ELSE b
  BY SMT, <1>1 DEF SignBit
<1>3. e \in Int /\ m \in Int /\ m >= 0 /\ m < 8388608 /\ b = 8388608 * e + m
  BY SMT, <1>2 DEF Mantissa
<1>4. b = 0 \/ e \in 1 .. 254
  BY SMT
<1>5. d = [neg |-> bits >= SignBit, exp |-> IF b = 0 THEN 0 ELSE e + 896,
           man |-> m, rest |-> 0]
  BY SMT DEF Widen
<1> HIDE DEF b, e, m, d
<1>6. /\ d.neg = (bits >= SignBit) /\ d.man = m /\ d.rest = 0
      /\ d.exp = IF b = 0 THEN 0 ELSE e + 896
  BY SMT, <1>5
<1>7. d \in Doubles
  <2>1. (IF b = 0 THEN 0 ELSE e + 896) \in Below(2048)
    BY SMT, <1>4 DEF Below
  <2>2. m \in Below(Mantissa) /\ 0 \in Below(Dropped)
    BY SMT, <1>3 DEF Mantissa, Dropped, Below
  <2>3. (bits >= SignBit) \in BOOLEAN
    BY SMT, <1>1 DEF SignBit
  <2> QED
    BY SMT, <1>5, <2>1, <2>2, <2>3 DEF Doubles
<1>8. Magnitude(d) = b
  <2>1. CASE b = 0
    <3>1. d.exp = 0
      BY SMT, <1>6, <2>1
    <3> QED
      BY SMT, <2>1, <3>1 DEF Magnitude
  <2>2. CASE b # 0
    <3>1. d.exp = e + 896 /\ d.exp > 896 /\ d.exp < 1151
      BY SMT, <1>4, <1>6, <2>2
    <3>2. Magnitude(d) = (d.exp - 896) * Mantissa + HalfEven(d.man, d.rest, Dropped)
      BY SMT, <1>7, <3>1, NormalMagnitude
    <3>3. HalfEven(m, 0, Dropped) = m
      BY SMT, <1>3 DEF HalfEven, Dropped
    <3>4. Magnitude(d) = (d.exp - 896) * Mantissa + m
      BY SMT, <1>6, <3>2, <3>3
    <3> QED
      BY SMT, <1>3, <1>4, <2>2, <3>1, <3>4 DEF Mantissa
  <2> QED
    BY SMT, <2>1, <2>2
<1>9. Narrow(d) = bits
  <2>1. CASE d.neg
    <3>1. Narrow(d) = SignBit + b
      BY SMT, <1>8, <2>1 DEF Narrow
    <3>2. bits >= SignBit
      BY <1>6, <2>1, Zenon
    <3> QED
      BY SMT, <1>2, <3>1, <3>2 DEF SignBit
  <2>2. CASE ~d.neg
    <3>1. Narrow(d) = b
      BY SMT, <1>8, <2>2 DEF Narrow
    <3>2. ~(bits >= SignBit)
      BY <1>6, <2>2, Zenon
    <3> QED
      BY SMT, <1>2, <3>1, <3>2 DEF SignBit
  <2> QED
    BY SMT, <2>1, <2>2
<1> QED
  BY SMT, <1>7, <1>9 DEF d

\* Other commands are taken as well and changed without notice: what is too large
\* for a float is written as infinity, and 16777217, which an AnalogOutputInt32 can
\* ask for, is written as 16777216.
THEOREM FloatCommandMayChange ==
    /\ \A d \in Doubles : d.exp > 1150 /\ d.exp < 2047 => Magnitude(d) = Infinity
    /\ LET asked   == [neg |-> FALSE, exp |-> 1047, man |-> 0, rest |-> 268435456]
           written == [neg |-> FALSE, exp |-> 1047, man |-> 0, rest |-> 0]
       IN  Narrow(asked) = Narrow(written)
<1>1. ASSUME NEW d \in Doubles, d.exp > 1150 /\ d.exp < 2047
      PROVE  Magnitude(d) = Infinity
  BY SMT, <1>1, DoubleFields DEF Magnitude
<1> DEFINE asked == [neg |-> FALSE, exp |-> 1047, man |-> 0, rest |-> 268435456]
           written == [neg |-> FALSE, exp |-> 1047, man |-> 0, rest |-> 0]
<1>2. /\ asked.exp = 1047 /\ asked.man = 0 /\ asked.rest = 268435456 /\ asked.neg = FALSE
      /\ written.exp = 1047 /\ written.man = 0 /\ written.rest = 0 /\ written.neg = FALSE
  BY SMT
<1>3. asked \in Doubles /\ written \in Doubles
  BY SMT DEF Doubles, Below, Mantissa, Dropped
<1> HIDE DEF asked, written
<1>4. /\ Magnitude(asked) = (asked.exp - 896) * Mantissa + HalfEven(asked.man, asked.rest, Dropped)
      /\ Magnitude(written) = (written.exp - 896) * Mantissa + HalfEven(written.man, written.rest, Dropped)
  BY SMT, <1>2, <1>3, NormalMagnitude
<1>5. HalfEven(0, 268435456, Dropped) = 0 /\ HalfEven(0, 0, Dropped) = 0
  BY SMT DEF HalfEven, Dropped
<1>6. Magnitude(asked) = Magnitude(written)
  BY SMT, <1>2, <1>4, <1>5
<1>7. Narrow(asked) = Narrow(written)
  BY SMT, <1>2, <1>6 DEF Narrow
<1> QED
  BY SMT, <1>1, <1>7 DEF asked, written

\* A command that the gateway takes is read back as what was commanded: the
\* registers built by BuildHoldingRegisterWritePayload are as many as
\* ReadModbusPoint reads of that type, and it makes the rounded value of them.
THEOREM CommandIsReadBack ==
    ASSUME NEW t \in IntegerHolding, NEW h \in Int,
           BuildHoldingRegisterWritePayload(t, h).status = "SUCCESS"
    PROVE  /\ BuildHoldingRegisterWritePayload(t, h).regs \in Contents(t)
           /\ ReadValue(t, BuildHoldingRegisterWritePayload(t, h).regs) = Llround(h)
<1> DEFINE v == Llround(h)
           p == BuildHoldingRegisterWritePayload(t, h)
<1>1. v \in Int
  BY SMT, RoundType
<1>2. CASE t = "HoldingInt16"
  <2>1. t \in Int16Types
    BY SMT, <1>2 DEF Int16Types
  <2>2. p = IF v < -32768 \/ v > 32767 THEN Refused("OUT_OF_RANGE") ELSE Payload(<<v % Word>>)
    BY SMT, <1>2 DEF BuildHoldingRegisterWritePayload
  <2> HIDE DEF v
  <2>3. v >= -32768 /\ v <= 32767 /\ p.regs = <<v % Word>>
    BY SMT, <1>1, <2>2 DEF Payload, Refused, Word, Long
  <2>4. v % Word \in Registers /\ Signed(v % Word, Word) = v
    BY SMT, <1>1, <2>3, Signed16
  <2> DEFINE w == v % Word
  <2>5. p.regs = <<w>> /\ w \in Registers /\ Signed(w, Word) = v
    BY SMT, <2>3, <2>4
  <2> HIDE DEF w, p
  <2>6. p.regs \in [1 .. 1 -> Registers] /\ p.regs[1] = w
    BY SMT, <2>5
  <2>7. Contents(t) = [1 .. 1 -> Registers] /\ ReadValue(t, p.regs) = Signed(p.regs[1], Word)
    BY SMT, <2>1, OneRegister
  <2> QED
    BY SMT, <2>5, <2>6, <2>7 DEF p, v
<1>3. CASE t = "HoldingUInt16"
  <2>1. t \in UInt16Types /\ t \notin Int16Types
    BY SMT, <1>3 DEF Int16Types, UInt16Types
  <2>2. p = IF v < 0 \/ v > 65535 THEN Refused("OUT_OF_RANGE") ELSE Payload(<<v>>)
    BY SMT, <1>3 DEF BuildHoldingRegisterWritePayload
  <2> HIDE DEF v
  <2>3. v >= 0 /\ v < Word /\ p.regs = <<v>>
    BY SMT, <1>1, <2>2 DEF Payload, Refused, Word, Long
  <2>4. v \in Registers
    BY SMT, <1>1, <2>3 DEF Registers, Below
  <2> HIDE DEF p
  <2>6. p.regs \in [1 .. 1 -> Registers] /\ p.regs[1] = v
    BY SMT, <2>3, <2>4
  <2>7. Contents(t) = [1 .. 1 -> Registers] /\ ReadValue(t, p.regs) = p.regs[1]
    BY SMT, <2>1, OneRegister
  <2> QED
    BY SMT, <2>6, <2>7 DEF p, v
<1>4. CASE t = "HoldingInt32"
  <2>1. t \in Int32Types
    BY SMT, <1>4 DEF Int32Types
  <2>2. p = IF v < -2147483648 \/ v > 2147483647 THEN Refused("OUT_OF_RANGE")
            ELSE Payload(Split(v % Long))
    BY SMT, <1>4 DEF BuildHoldingRegisterWritePayload
  <2> HIDE DEF v
  <2>3. v >= -2147483648 /\ v <= 2147483647 /\ p.regs = Split(v % Long)
    BY SMT, <1>1, <2>2 DEF Payload, Refused, Word, Long
  <2>4. v % Long \in Longs /\ Signed(v % Long, Long) = v
    BY SMT, <1>1, <2>3, Signed32
  <2>5. p.regs \in [1 .. 2 -> Registers] /\ Raw(p.regs) = v % Long
    BY SMT, <2>3, <2>4, SplitFacts
  <2>6. Contents(t) = [1 .. 2 -> Registers] /\ ReadValue(t, p.regs) = Signed(Raw(p.regs), Long)
    BY SMT, <2>1, TwoRegisters
  <2> HIDE DEF p
  <2> QED
    BY SMT, <2>4, <2>5, <2>6 DEF p, v
<1>5. CASE t = "HoldingUInt32"
  <2>1. t \in UInt32Types /\ t \notin Int32Types
    BY SMT, <1>5 DEF Int32Types, UInt32Types
  <2>2. p = IF v < 0 \/ v > 4294967295 THEN Refused("OUT_OF_RANGE") ELSE Payload(Split(v))
    BY SMT, <1>5 DEF BuildHoldingRegisterWritePayload
  <2> HIDE DEF v
  <2>3. v >= 0 /\ v < Long /\ p.regs = Split(v)
    BY SMT, <1>1, <2>2 DEF Payload, Refused, Word, Long
  <2>4. v \in Longs
    BY SMT, <1>1, <2>3 DEF Longs
  <2>5. p.regs \in [1 .. 2 -> Registers] /\ Raw(p.regs) = v
    BY SMT, <2>3, <2>4, SplitFacts
  <2>6. Contents(t) = [1 .. 2 -> Registers] /\ ReadValue(t, p.regs) = Raw(p.regs)
    BY SMT, <2>1, TwoRegisters
  <2> HIDE DEF p
  <2> QED
    BY SMT, <2>5, <2>6 DEF p, v
<1> QED
  BY SMT, <1>2, <1>3, <1>4, <1>5, IntegerHoldingTypes

\* The values that the registers of a type can hold.
LEMMA Range16 ==
    ASSUME NEW t \in Int16Types \cup UInt16Types, NEW regs \in Contents(t)
    PROVE  LET v == ReadValue(t, regs)
           IN  /\ v \in Int
               /\ t \in Int16Types => v >= -32768 /\ v <= 32767
               /\ t \notin Int16Types => v >= 0 /\ v <= 65535
<1> DEFINE x == regs[1]
<1>1. regs \in [1 .. 1 -> Registers]
  BY SMT, OneRegister
<1>2. x \in Registers
  BY SMT, <1>1
<1>3. ReadValue(t, regs) = IF t \in Int16Types THEN Signed(x, Word) ELSE x
  BY SMT, OneRegister
<1> HIDE DEF x
<1>4. Signed(x, Word) \in Int /\ Signed(x, Word) >= -32768 /\ Signed(x, Word) <= 32767
  BY SMT, <1>2, Unsigned16
<1>5. x \in Int /\ x >= 0 /\ x <= 65535
  BY SMT, <1>2 DEF Registers, Below, Word
<1> QED
  BY SMT, <1>3, <1>4, <1>5

LEMMA Range32 ==
    ASSUME NEW t \in Int32Types \cup UInt32Types \cup FloatTypes, NEW regs \in Contents(t)
    PROVE  LET v == ReadValue(t, regs)
           IN  /\ v \in Int
               /\ t \in Int32Types => v >= -2147483648 /\ v <= 2147483647
               /\ t \notin Int32Types => v >= 0 /\ v <= 4294967295
<1> DEFINE x == Raw(regs)
<1>1. regs \in [1 .. 2 -> Registers]
  BY SMT, TwoRegisters
<1>2. x \in Longs
  BY SMT, <1>1, RawFacts
<1>3. ReadValue(t, regs) = IF t \in Int32Types THEN Signed(x, Long) ELSE x
  BY SMT, TwoRegisters
<1> HIDE DEF x
<1>4. Signed(x, Long) \in Int /\ Signed(x, Long) >= -2147483648 /\ Signed(x, Long) <= 2147483647
  BY SMT, <1>2, Unsigned32
<1>5. x \in Int /\ x >= 0 /\ x <= 4294967295
  BY SMT, <1>2 DEF Longs, Long
<1> QED
  BY SMT, <1>3, <1>4, <1>5

\* The gateway refuses a command (OUT_OF_RANGE) only if no contents of the
\* registers would be read as its rounded value: the limits tested in
\* BuildHoldingRegisterWritePayload are exactly those of the type.
THEOREM RefusedOnlyOutOfRange ==
    ASSUME NEW t \in IntegerHolding, NEW h \in Int
    PROVE  LET p == BuildHoldingRegisterWritePayload(t, h)
           IN  p.status = "SUCCESS" <=> \E regs \in Contents(t) : ReadValue(t, regs) = Llround(h)
<1> DEFINE v == Llround(h)
           p == BuildHoldingRegisterWritePayload(t, h)
<1>1. v \in Int
  BY SMT, RoundType
<1>2. ASSUME p.status = "SUCCESS"
      PROVE  \E regs \in Contents(t) : ReadValue(t, regs) = v
  <2>1. p.regs \in Contents(t) /\ ReadValue(t, p.regs) = v
    BY SMT, <1>2, CommandIsReadBack
  <2> HIDE DEF p, v
  <2> QED
    BY SMT, <2>1
<1>3. ASSUME NEW regs \in Contents(t), ReadValue(t, regs) = v
      PROVE  p.status = "SUCCESS"
  <2>1. CASE t = "HoldingInt16"
    <3>1. t \in Int16Types
      BY SMT, <2>1 DEF Int16Types
    <3>2. v >= -32768 /\ v <= 32767
      BY SMT, <1>3, <3>1, Range16
    <3>3. p = IF v < -32768 \/ v > 32767 THEN Refused("OUT_OF_RANGE") ELSE Payload(<<v % Word>>)
      BY SMT, <2>1 DEF BuildHoldingRegisterWritePayload
    <3> HIDE DEF v
    <3> QED
      BY SMT, <1>1, <3>2, <3>3 DEF Payload
  <2>2. CASE t = "HoldingUInt16"
    <3>1. t \in UInt16Types /\ t \notin Int16Types
      BY SMT, <2>2 DEF Int16Types, UInt16Types
    <3>2. v >= 0 /\ v <= 65535
      BY SMT, <1>3, <3>1, Range16
    <3>3. p = IF v < 0 \/ v > 65535 THEN Refused("OUT_OF_RANGE") ELSE Payload(<<v>>)
      BY SMT, <2>2 DEF BuildHoldingRegisterWritePayload
    <3> HIDE DEF v
    <3> QED
      BY SMT, <1>1, <3>2, <3>3 DEF Payload
  <2>3. CASE t = "HoldingInt32"
    <3>1. t \in Int32Types
      BY SMT, <2>3 DEF Int32Types
    <3>2. v >= -2147483648 /\ v <= 2147483647
      BY SMT, <1>3, <3>1, Range32
    <3>3. p = IF v < -2147483648 \/ v > 2147483647 THEN Refused("OUT_OF_RANGE")
              ELSE Payload(Split(v % Long))
      BY SMT, <2>3 DEF BuildHoldingRegisterWritePayload
    <3> HIDE DEF v
    <3> QED
      BY SMT, <1>1, <3>2, <3>3 DEF Payload
  <2>4. CASE t = "HoldingUInt32"
    <3>1. t \in UInt32Types /\ t \notin Int32Types
      BY SMT, <2>4 DEF Int32Types, UInt32Types
    <3>2. v >= 0 /\ v <= 4294967295
      BY SMT, <1>3, <3>1, Range32
    <3>3. p = IF v < 0 \/ v > 4294967295 THEN Refused("OUT_OF_RANGE") ELSE Payload(Split(v))
      BY SMT, <2>4 DEF BuildHoldingRegisterWritePayload
    <3> HIDE DEF v
    <3> QED
      BY SMT, <1>1, <3>2, <3>3 DEF Payload
  <2> QED
    BY SMT, <2>1, <2>2, <2>3, <2>4, IntegerHoldingTypes
<1> HIDE DEF p, v
<1> QED
  BY SMT, <1>2, <1>3 DEF p, v

\* Two states of a device that differ are published as different values: no
\* read type loses a bit of the registers (ReadModbusPoint).
THEOREM ReadIsInjective ==
    ASSUME NEW t \in ReadValueType, NEW a \in Contents(t), NEW b \in Contents(t),
           ReadValue(t, a) = ReadValue(t, b)
    PROVE  a = b
<1>1. CASE t \in BitTypes
  <2>1. a \in {<<0>>, <<1>>} /\ b \in {<<0>>, <<1>>}
    BY SMT, <1>1 DEF Contents
  <2>2. ReadValue(t, <<0>>) = 0 /\ ReadValue(t, <<1>>) = 1
    BY SMT, <1>1 DEF ReadValue, BitTypes, Int16Types, UInt16Types, Int32Types, UInt32Types,
       FloatTypes
  <2> QED
    BY SMT, <2>1, <2>2
<1>2. CASE t \in Int16Types \cup UInt16Types
  <2> DEFINE x == a[1]
             y == b[1]
  <2>1. a \in [1 .. 1 -> Registers] /\ b \in [1 .. 1 -> Registers]
    BY SMT, <1>2, OneRegister
  <2>2. x \in Registers /\ y \in Registers
    BY SMT, <2>1
  <2>3. (IF t \in Int16Types THEN Signed(x, Word) ELSE x) =
        (IF t \in Int16Types THEN Signed(y, Word) ELSE y)
    BY SMT, <1>2, OneRegister
  <2> HIDE DEF x, y
  <2>4. x = y
    BY SMT, <2>2, <2>3, Unsigned16
  <2> QED
    BY SMT, <2>1, <2>4 DEF x, y
<1>3. CASE t \in Int32Types \cup UInt32Types \cup FloatTypes
  <2> DEFINE x == Raw(a)
             y == Raw(b)
  <2>1. a \in [1 .. 2 -> Registers] /\ b \in [1 .. 2 -> Registers]
    BY SMT, <1>3, TwoRegisters
  <2>2. x \in Longs /\ y \in Longs
    BY SMT, <2>1, RawFacts
  <2>3. (IF t \in Int32Types THEN Signed(x, Long) ELSE x) =
        (IF t \in Int32Types THEN Signed(y, Long) ELSE y)
    BY SMT, <1>3, TwoRegisters
  <2>4. a[1] = x \div Word /\ a[2] = x % Word /\ b[1] = y \div Word /\ b[2] = y % Word
    BY SMT, <2>1, RawFacts
  <2> HIDE DEF x, y
  <2>5. x = y
    BY SMT, <2>2, <2>3, Unsigned32
  <2> QED
    BY SMT, <2>1, <2>4, <2>5
<1> QED
  BY SMT, <1>1, <1>2, <1>3 DEF ReadValueType, HoldingTypes, InputTypes, BitTypes, Int16Types,
     UInt16Types, Int32Types, UInt32Types, FloatTypes

\* What the master is told of a signed point is what the device holds, in the
\* answer to a static read and in the event alike, and is never flagged.
THEOREM SignedPointsAreExact ==
    ASSUME NEW t \in Int16Types \cup Int32Types, NEW regs \in Contents(t)
    PROVE  LET v == ReadValue(t, regs)
           IN  /\ StaticReport(t, v) = [value |-> v, overrange |-> FALSE]
               /\ EventOf(v) = [value |-> v, overrange |-> FALSE]
<1> DEFINE v == ReadValue(t, regs)
<1>1. CASE t \in Int16Types
  <2>1. v \in Int /\ v >= -32768 /\ v <= 32767
    BY SMT, <1>1, Range16
  <2>2. StaticVariationForType(t) = "Group30Var2"
    BY SMT, <1>1 DEF StaticVariationForType, FloatTypes, Int16Types, UInt16Types
  <2> HIDE DEF v
  <2> QED
    BY SMT, <2>1, <2>2 DEF StaticReport, EventOf, Reported, DownSample, v
<1>2. CASE t \in Int32Types
  <2>1. v \in Int /\ v >= -2147483648 /\ v <= 2147483647
    BY SMT, <1>2, Range32
  <2>2. StaticVariationForType(t) = "Group30Var1"
    BY SMT, <1>2 DEF StaticVariationForType, FloatTypes, Int16Types, UInt16Types, Int32Types
  <2> HIDE DEF v
  <2> QED
    BY SMT, <2>1, <2>2 DEF StaticReport, EventOf, Reported, DownSample, v
<1> QED
  BY SMT, <1>1, <1>2

\* The upper half of an unsigned point's values does not fit the static
\* variation that StaticVariationForType chooses for it: the master is told
\* the largest signed value, flagged OVERRANGE.  The event of a 16-bit point
\* is exact all the same, so that the two answers of the outstation about one
\* state of the device differ; that of a 32-bit point is clipped as well.
THEOREM UnsignedPointsAreClipped ==
    ASSUME NEW t \in UInt16Types \cup UInt32Types, NEW regs \in Contents(t)
    PROVE  LET v == ReadValue(t, regs)
               max == IF t \in UInt16Types THEN 32767 ELSE 2147483647
           IN  /\ StaticReport(t, v) = IF v <= max THEN [value |-> v, overrange |-> FALSE]
                                       ELSE [value |-> max, overrange |-> TRUE]
               /\ t \in UInt16Types => EventOf(v) = [value |-> v, overrange |-> FALSE]
               /\ t \in UInt32Types => EventOf(v) = StaticReport(t, v)
<1> DEFINE v == ReadValue(t, regs)
<1>1. CASE t \in UInt16Types
  <2>1. t \notin Int16Types /\ t \notin UInt32Types
    BY SMT, <1>1 DEF Int16Types, UInt16Types, UInt32Types
  <2>2. v \in Int /\ v >= 0 /\ v <= 65535
    BY SMT, <1>1, <2>1, Range16
  <2>3. StaticVariationForType(t) = "Group30Var2"
    BY SMT, <1>1 DEF StaticVariationForType, FloatTypes, Int16Types, UInt16Types
  <2> HIDE DEF v
  <2>4. /\ StaticReport(t, v) = IF v <= 32767 THEN [value |-> v, overrange |-> FALSE]
                                ELSE [value |-> 32767, overrange |-> TRUE]
        /\ EventOf(v) = [value |-> v, overrange |-> FALSE]
    BY SMT, <2>2, <2>3 DEF StaticReport, EventOf, Reported, DownSample
  <2> QED
    BY SMT, <1>1, <2>1, <2>4 DEF v
<1>2. CASE t \in UInt32Types
  <2>1. t \notin Int32Types /\ t \notin UInt16Types
    BY SMT, <1>2 DEF Int32Types, UInt16Types, UInt32Types
  <2>2. v \in Int /\ v >= 0 /\ v <= 4294967295
    BY SMT, <1>2, <2>1, Range32
  <2>3. StaticVariationForType(t) = "Group30Var1"
    BY SMT, <1>2 DEF StaticVariationForType, FloatTypes, Int16Types, UInt16Types, UInt32Types
  <2> HIDE DEF v
  <2>4. /\ StaticReport(t, v) = IF v <= 2147483647 THEN [value |-> v, overrange |-> FALSE]
                                ELSE [value |-> 2147483647, overrange |-> TRUE]
        /\ EventOf(v) = StaticReport(t, v)
    BY SMT, <2>2, <2>3 DEF StaticReport, EventOf, Reported, DownSample
  <2> QED
    BY SMT, <1>2, <2>1, <2>4 DEF v
<1> QED
  BY SMT, <1>1, <1>2

\* The variation that the panel shows for an analog point is the one the
\* outstation answers with (Dnp3StaticVariationNumber and
\* StaticVariationForType are written apart).
THEOREM PanelShowsTheVariation ==
    ASSUME NEW t \in ReadValueType \ BitTypes
    PROVE  StaticVariationForType(t) =
             CASE Dnp3StaticVariationNumber(t) = 1 -> "Group30Var1"
               [] Dnp3StaticVariationNumber(t) = 2 -> "Group30Var2"
               [] Dnp3StaticVariationNumber(t) = 5 -> "Group30Var5"
BY SMT DEF StaticVariationForType, Dnp3StaticVariationNumber, ReadValueType, HoldingTypes,
   InputTypes, BitTypes, Int16Types, UInt16Types, Int32Types, UInt32Types, FloatTypes

\* A point keeps its type when the panel rewrites the file: the tokens that
\* SaveProfileReadPointsToCsv writes for a type are those from which
\* ParseReadValueType makes that type at the next boot.
THEOREM TypeSurvivesRewrite ==
    ASSUME NEW t \in ReadValueType
    PROVE  ParseReadValueType(ReadValueTypeRegisterKind(t), ReadValueTypeDataType(t)) = t
<1> USE DEF ParseReadValueType, BitData, ReadValueTypeRegisterKind, ReadValueTypeDataType,
        HoldingTypes, BitTypes, Int16Types, UInt16Types, Int32Types, UInt32Types, FloatTypes
<1>1. CASE t \in BitTypes
  BY SMT, <1>1
<1>2. CASE t \in HoldingTypes
  BY SMT, <1>2
<1>3. CASE t \in InputTypes
  BY SMT, <1>3 DEF InputTypes
<1> HIDE DEF ParseReadValueType, ReadValueTypeRegisterKind, ReadValueTypeDataType,
        HoldingTypes, BitTypes
<1> QED
  BY SMT, <1>1, <1>2, <1>3 DEF ReadValueType
=============================================================================
