----------------------------- MODULE OctetCodec -----------------------------
(***************************************************************************)
(* The codec of application/octet-stream (octetstream-codec.ts): a value   *)
(* is written by valueToBytes on one side and read by bytesToValue on the  *)
(* other, over one form (a data schema and the parameters of its content   *)
(* type).                                                                  *)
(*                                                                         *)
(* A buffer is the sequence of its bits, the most significant bit of its   *)
(* first byte first.  A number is its IEEE 754 pattern and a string its    *)
(* encoded bytes: both are sequences of bits.  (An integer is not written  *)
(* with the schema of such a pattern here.)  Every exception is Failed.    *)
(***************************************************************************)
EXTENDS Integers, SequencesExt

CONSTANTS
    None,       \* an option, a term of a schema or a parameter that is absent
    Exchanges   \* what is written: [value, schema, par] records

VARIABLES
    exchange,   \* the value and the form in use
    wire,       \* what valueToBytes has produced, or None
    got         \* what bytesToValue has made of it, or None

vars == <<exchange, wire, got>>

-----------------------------------------------------------------------------
(* Buffers                                                                 *)

Failed == [is |-> "failed"]
Buffer(bits) == [is |-> "buffer", bits |-> bits]

Zeros(n) == [i \in 1..n |-> 0]
Default(option, otherwise) == IF option = None THEN otherwise ELSE option
BytesFor(bits) == (bits + 7) \div 8

Two[i \in 0..30] == IF i = 0 THEN 1 ELSE 2 * Two[i - 1]

\* Bit i of a value, for the values of at most 30 bits that are written here.
Bit(value, i) == (value \div Two[IF i > 30 THEN 30 ELSE i]) % 2
TwosComplement(value, n) == [i \in 1..n |-> Bit(value, n - i)]
Number(bits, signed) ==
    LET sum[k \in 1..Len(bits)] ==
          IF k = 1 THEN IF signed THEN -bits[1] ELSE bits[1] ELSE 2 * sum[k - 1] + bits[k]
    IN  sum[Len(bits)]

\* The bytes of a buffer, placed by a permutation of their positions.
Rearranged(bits, place(_)) ==
    [i \in DOMAIN bits |-> bits[8 * place((i - 1) \div 8) + ((i - 1) % 8) + 1]]
InOrder(bits, bigEndian) ==
    IF bigEndian THEN bits
    ELSE Rearranged(bits, LAMBDA byte : Len(bits) \div 8 - 1 - byte)
Swap16(bits) == Rearranged(bits, LAMBDA byte : byte + 1 - 2 * (byte % 2))

\* Mutant: the bits asked for stay where a byte begins.
ReadBitsLeft(bits, offset, n) ==
    SubSeq(bits, offset + 1, offset + n) \o Zeros(8 * BytesFor(n) - n)

\* What is left of a longer buffer: the bits asked for, right-aligned.
ReadBits(bits, offset, n) ==
    Zeros(8 * BytesFor(n) - n) \o SubSeq(bits, offset + 1, offset + n)

\* writeBits: each bit is or-ed into the buffer, from the high end of each
\* byte or from the low end; what lies beyond the buffer is dropped.  A shift
\* is one modulo 32.
WriteBits(bits, value, offset, n, bigEndian) ==
    LET Place(i) == LET at == offset + i
                    IN  IF bigEndian THEN at + 1
                        ELSE 8 * (at \div 8) + 8 - (at % 8)
        One(i) == Bit(value, (IF bigEndian THEN n - 1 - i ELSE i) % 32) = 1
        set == {Place(i) : i \in {j \in 0..(n - 1) : One(j)}}
    IN  [i \in DOMAIN bits |-> IF i \in set THEN 1 ELSE bits[i]]

\* copyBits: whole bytes are copied (up to sourceBitOffset + bitLength / 8,
\* which is more than bitLength bits), other bits are or-ed: those of up to
\* six bytes as one value, of which writeBits finds 32 bits, and those of
\* more byte by byte.
CopyBits(source, from, target, to, n) ==
    IF from % 8 = 0 /\ to % 8 = 0 /\ n % 8 = 0
    THEN IF from > Len(source) THEN Failed
         ELSE LET end == 8 * (from + n \div 8)
                  copied == (IF end < Len(source) THEN end ELSE Len(source)) - from
              IN  Buffer([i \in DOMAIN target |->
                             IF i > to /\ i <= to + copied
                             THEN source[from + i - to] ELSE target[i]])
    ELSE IF from + n > Len(source) \/ n = 0 THEN Failed
         ELSE LET read == ReadBits(source, from, n)
                  written == IF n > 48 THEN read
                             ELSE [i \in 1..n |-> source[from + n - ((n - i) % 32)]]
              IN  Buffer([i \in DOMAIN target |->
                             IF i > to /\ i <= to + Len(written) /\ written[i - to] = 1
                             THEN 1 ELSE target[i]])

-----------------------------------------------------------------------------
(* Schemas and parameters                                                  *)

\* The types that name their width.  (`short` and `byte` without a width,
\* which bytesToValue always rejects, are left out.)
TypeSemantics == [int8    |-> [unsigned |-> FALSE, base |-> "int", bits |-> 8],
                  uint8   |-> [unsigned |-> TRUE, base |-> "int", bits |-> 8],
                  int16   |-> [unsigned |-> FALSE, base |-> "int", bits |-> 16],
                  uint16  |-> [unsigned |-> TRUE, base |-> "int", bits |-> 16],
                  int32   |-> [unsigned |-> FALSE, base |-> "int", bits |-> 32],
                  uint32  |-> [unsigned |-> TRUE, base |-> "int", bits |-> 32],
                  float16 |-> [unsigned |-> FALSE, base |-> "float", bits |-> 16],
                  float32 |-> [unsigned |-> FALSE, base |-> "float", bits |-> 32],
                  float64 |-> [unsigned |-> FALSE, base |-> "float", bits |-> 64]]

Typed(schema) == schema.type \in DOMAIN TypeSemantics
DataType(schema) ==
    IF Typed(schema) THEN TypeSemantics[schema.type].base ELSE schema.type
Unsigned(schema) == Typed(schema) /\ TypeSemantics[schema.type].unsigned

BigEndian(par) ==
    par.byteSeq \notin {"LITTLE_ENDIAN", "LITTLE_ENDIAN_BYTE_SWAP"}
Swaps(par) ==
    par.byteSeq \in {"BIG_ENDIAN_BYTE_SWAP", "LITTLE_ENDIAN_BYTE_SWAP"}
\* `signed` defaults to true (the comment above the class says false).
Signed(schema, par) == par.signed # FALSE /\ ~Unsigned(schema)

\* The type of the schema contradicts the parameters or the bit length.
Contradictory(schema, par, bitLength) ==
    /\ Typed(schema)
    /\ \/ Unsigned(schema) /\ par.signed = TRUE
       \/ TypeSemantics[schema.type].bits # bitLength

-----------------------------------------------------------------------------
(* bytesToValue                                                            *)

IntegerToValue(bits, par, signed) ==
    IF Len(bits) = 0 \/ Len(bits) > 48 THEN Failed
    ELSE [is |-> "integer", of |-> Number(InOrder(bits, BigEndian(par)), signed)]

NumberToValue(bits, par) ==
    IF Len(bits) \notin {16, 32, 64} THEN Failed
    ELSE [is |-> "number", of |-> InOrder(bits, BigEndian(par))]

ScalarToValue(bits, type, schema, par) ==
    CASE type = "boolean" ->
           [is |-> "boolean", of |-> \E i \in DOMAIN bits : bits[i] = 1]
      [] type \in {"int", "integer"} -> IntegerToValue(bits, par, Signed(schema, par))
      [] type \in {"float", "double", "number"} -> NumberToValue(bits, par)
      [] type = "string" -> [is |-> "string", of |-> bits]
      [] type = "null" -> [is |-> "null"]
      [] OTHER -> Failed

\* Each property is read out of the same buffer, which bytesToValue swaps
\* in place: every second property gets it as it was.
ObjectToValue(bits, schema, par, Property(_, _, _)) ==
    LET Seen(k) == IF Swaps(par) /\ Len(bits) > 8 /\ k % 2 = 0
                   THEN Swap16(bits) ELSE bits
        values == [k \in DOMAIN schema.properties |->
                      Property(Seen(k), schema.properties[k],
                          [par EXCEPT !.length = Len(bits) \div 8])]
    IN  IF \E k \in DOMAIN values : values[k] = Failed THEN Failed
        ELSE [is |-> "object", of |-> values]

\* What is read, with what Object makes of an object.
Reading(bits, schema, par, Object(_, _, _)) ==
    LET bitLength == Default(schema.bitLength, Len(bits))
        offset == Default(schema.bitOffset, 0)
        swap == Swaps(par) /\ Len(bits) > 8
        ordered == IF swap THEN Swap16(bits) ELSE bits
        selected == IF bitLength < Len(bits)
                    THEN ReadBits(ordered, offset, bitLength) ELSE ordered
        type == DataType(schema)
    IN  IF \/ par.length # None /\ 8 * par.length # Len(bits)
           \/ Contradictory(schema, par, bitLength)
           \/ bitLength > Len(bits) - offset
           \/ swap /\ Len(bits) % 16 # 0
        THEN Failed
        ELSE IF type = "object" THEN Object(selected, schema, par)
        ELSE ScalarToValue(selected, type, schema, par)

\* Objects within objects go two deep here; the code recurs.
TooDeep(bits, schema, par) == Failed
FlatToValue(bits, schema, par) ==
    Reading(bits, schema, par,
            LAMBDA b, s, p : ObjectToValue(b, s, p, LAMBDA c, q, o : Reading(c, q, o, TooDeep)))
BytesToValue(bits, schema, par) ==
    Reading(bits, schema, par, LAMBDA b, s, p : ObjectToValue(b, s, p, FlatToValue))

-----------------------------------------------------------------------------
(* valueToBytes                                                            *)

Overflows(value, n, signed) ==
    CASE n > 30 -> ~signed /\ value < 0
      [] n = 0 -> signed \/ value # 0
      [] OTHER -> LET limit == Two[IF signed THEN n - 1 ELSE n]
                  IN  value >= limit \/ value < (IF signed THEN -limit ELSE 0)

\* Three bytes, or five and more: a negative value is moved by
\* 1 << (8 * bitLength), a shift modulo 32, and then divided by 256 without
\* rounding; writeInt8 rejects what is not between -128 and 127.
ByteByByte(value, byteLength, bitLength, signed, bigEndian) ==
    LET moved == IF signed /\ value < 0 THEN value + Two[(8 * bitLength) % 32] ELSE value
        size == IF moved < 0 THEN -moved ELSE moved
        Power(i) == Two[IF i > 3 THEN 30 ELSE 8 * i]
        Rest(i) == size % Power(i + 1)
        TooLarge(i) == (Rest(i) + Power(i) - 1) \div Power(i) > (IF moved < 0 THEN 128 ELSE 127)
        Byte(i) == LET digit == Rest(i) \div Power(i)
                   IN  TwosComplement(IF moved < 0 THEN -digit ELSE digit, 8)
        bytes == [i \in 1..byteLength |-> Byte(byteLength - i)]
    IN  IF \E i \in 0..(byteLength - 1) : TooLarge(i) THEN Failed
        ELSE Buffer(InOrder(FlattenSeq(bytes), bigEndian))

\* The bytes are not swapped: the code swaps a buffer that is still empty.
ValueToInteger(value, bitLength, byteLength, offset, par, signed) ==
    LET n == Default(bitLength, 32)
        size == Default(byteLength, BytesFor(offset + n))
    IN  IF value.is # "integer" \/ Overflows(value.of, n, signed) THEN Failed
        ELSE IF offset # 0
             THEN Buffer(WriteBits(Zeros(8 * size), value.of, offset, n, BigEndian(par)))
        ELSE IF size \in {1, 2, 4}
             THEN Buffer(InOrder(TwosComplement(value.of, 8 * size), BigEndian(par)))
        ELSE ByteByByte(value.of, size, n, signed, BigEndian(par))

\* In little endian, numbers of 32 and 64 bits go to the start of the buffer.
ValueToNumber(value, bitLength, byteLength, offset, par) ==
    LET n == Default(bitLength, IF byteLength = None THEN 32 ELSE 8 * byteLength)
        size == Default(byteLength, BytesFor(offset + n))
        at == IF n > 16 /\ ~BigEndian(par) THEN 0 ELSE offset
    IN  IF \/ value.is # "number"
           \/ offset % 8 # 0
           \/ par.byteSeq # None /\ size > 1 /\ size % 2 # 0
           \/ n \notin {16, 32, 64}
           \/ at + n > 8 * size
        THEN Failed
        ELSE Buffer(Zeros(at) \o InOrder(value.of, BigEndian(par)) \o Zeros(8 * size - at - n))

\* A string at a byte boundary goes to the end of the buffer.
ValueToString(value, bitLength, byteLength, offset) ==
    LET n == Default(bitLength, Len(value.of))
        size == Default(byteLength, BytesFor(offset + n))
    IN  IF \/ value.is # "string" \/ Len(value.of) > 8 * n
           \/ offset % 8 = 0 /\ 8 * size < n
        THEN Failed
        ELSE IF offset % 8 = 0
             THEN Buffer(Zeros(8 * ((8 * size - n) \div 8)) \o value.of)
        ELSE CopyBits(value.of, 0, Zeros(8 * size), offset, n)

\* The lengths that valueToBytes settles before it looks at the type.
Lengths(schema, par) ==
    LET offset == Default(schema.bitOffset, 0)
        named == IF Typed(schema) THEN TypeSemantics[schema.type].bits ELSE schema.bitLength
    IN  [offset |-> offset,
         bits |-> IF named = None /\ par.length # None THEN 8 * par.length ELSE named,
         bytes |-> IF par.length = None /\ named # None
                   THEN BytesFor(offset + named) ELSE par.length]

ScalarToBytes(value, type, size, schema, par) ==
    CASE type = "boolean" ->
           LET bytes == Default(size.bytes, 1)
               end == size.offset + Default(size.bits, 8 * bytes)
           IN  Buffer([i \in 1..(8 * bytes) |->
                          IF value = [is |-> "boolean", of |-> TRUE] /\ size.offset < i /\ i <= end
                          THEN 1 ELSE 0])
      [] type \in {"int", "integer"} ->
           ValueToInteger(value, size.bits, size.bytes, size.offset, par, Signed(schema, par))
      [] type \in {"float", "number"} ->
           ValueToNumber(value, size.bits, size.bytes, size.offset, par)
      [] type = "string" -> ValueToString(value, size.bits, size.bytes, size.offset)
      [] type = "null" -> Buffer(<<>>)
      [] OTHER -> Failed

\* What is written, with what Object makes of an object.
Writing(value, schema, par, Object(_, _, _)) ==
    LET size == Lengths(schema, par)
        type == DataType(schema)
    IN  IF \/ Contradictory(schema, par, Default(schema.bitLength, size.bits))
           \/ /\ par.length # None
              /\ schema.bitLength # None \/ Typed(schema)
              /\ 8 * par.length < size.bits + size.offset
        THEN Failed
        ELSE IF type = "object" THEN Object(value, schema, par)
        ELSE ScalarToBytes(value, type, size, schema, par)

NoObject(value, schema, par) == Failed
Scalar(value, schema, par) == Writing(value, schema, par, NoObject)

\* One property after the other is written to a buffer of the whole length
\* and copied from there; an object is written to the buffer itself.
ValueToObject(value, schema, par, result, Nested(_, _, _, _)) ==
    LET offset == Default(schema.bitOffset, 0)
        Copied(target, k) ==
            LET property == schema.properties[k]
                object == property.type = "object"
                buffer == IF object THEN Nested(value.of[k], property, par, target)
                          ELSE Scalar(value.of[k], property, par)
                into == IF object /\ buffer # Failed THEN buffer.bits ELSE target
            IN  IF buffer = Failed THEN Failed
                ELSE CopyBits(buffer.bits, property.bitOffset, into,
                              offset + property.bitOffset, property.bitLength)
        done[k \in 0..Len(schema.properties)] ==
            IF k = 0 THEN Buffer(result)
            ELSE IF done[k - 1] = Failed THEN Failed ELSE Copied(done[k - 1].bits, k)
    IN  IF value.is # "object" \/ offset > 8 * par.length THEN Failed
        ELSE done[Len(schema.properties)]

\* Two deep again.
FlatToBytes(value, schema, par, result) ==
    ValueToObject(value, schema, par, result, LAMBDA v, s, p, r : Failed)
ObjectToBytes(value, schema, par) ==
    IF value.is = "null" THEN Buffer(<<>>)
    ELSE IF par.length = None THEN Failed
    ELSE ValueToObject(value, schema, par, Zeros(8 * par.length), FlatToBytes)
ValueToBytes(value, schema, par) == Writing(value, schema, par, ObjectToBytes)

-----------------------------------------------------------------------------
(* A value is written on one side and read on the other                    *)

Init ==
    /\ exchange \in Exchanges
    /\ wire = None
    /\ got = None

Write ==
    /\ wire = None
    /\ wire' = ValueToBytes(exchange.value, exchange.schema, exchange.par)
    /\ UNCHANGED <<exchange, got>>

Read ==
    /\ wire \notin {None, Failed}
    /\ got = None
    /\ got' = BytesToValue(wire.bits, exchange.schema, exchange.par)
    /\ UNCHANGED <<exchange, wire>>

Next == Write \/ Read

Spec == Init /\ [][Next]_vars

-----------------------------------------------------------------------------
(* What is promised, and of which forms                                    *)

\* The bytes of a buffer: those of a parameter or a schema that names them.
Size(value, schema, par) ==
    LET settled == Lengths(schema, par)
        unnamed == CASE value.is = "boolean" -> 1
                     [] value.is = "string" -> BytesFor(settled.offset + Len(value.of))
                     [] OTHER -> BytesFor(settled.offset + 32)
    IN  Default(settled.bytes, unnamed)

\* The part of the buffer a reader takes, for a buffer of size bytes.
Part(schema, size) ==
    [from |-> Default(schema.bitOffset, 0), n |-> Default(schema.bitLength, 8 * size)]

\* Integers for which the codec keeps its promise: a whole buffer of 1, 2 or
\* 4 bytes in either order, or up to 32 big-endian bits behind the start of a
\* buffer, whole bytes if they are negative.  (Three bytes, fields at bit 0,
\* fields in little endian and swapped bytes are where it does not.)
IntegerKept(schema, par, value, size) ==
    LET part == Part(schema, size)
    IN  /\ DataType(schema) \in {"int", "integer"}
        /\ IF part.from = 0 THEN part.n = 8 * size /\ size \in {1, 2, 4}
           ELSE BigEndian(par) /\ part.n <= 32 /\ (value < 0 => part.n % 8 = 0)

\* Strings at the end of the buffer, or not at a byte: but not those of five
\* and six bytes, of which 32 bits are found.
StringKept(schema, bits, size) ==
    LET part == Part(schema, size)
    IN  /\ schema.type = "string"
        /\ part.n = Len(bits)
        /\ IF part.from % 8 = 0 THEN part.from + part.n = 8 * size
           ELSE part.n <= 32 \/ part.n > 48

NumberKept(schema, par, bits, size) ==
    LET part == Part(schema, size)
    IN  /\ DataType(schema) \in {"float", "number"}
        /\ part.n = Len(bits) /\ part.from % 8 = 0
        /\ par.byteSeq # None => size % 2 = 0
        /\ part.from > 0 => BigEndian(par) \/ part.n = 16

\* A type that names its width is read from a part of that width only, which
\* may be less than the width it is written with.
ScalarKept(schema, par, value, size) ==
    LET part == Part(schema, size)
    IN  /\ ~Swaps(par) /\ ~Contradictory(schema, par, part.n)
        /\ part.n > 0 /\ part.from + part.n <= 8 * size
        /\ CASE value.is = "integer" -> IntegerKept(schema, par, value.of, size)
             [] value.is = "boolean" -> schema.type = "boolean"
             [] value.is = "string" -> StringKept(schema, value.of, size)
             [] value.is = "number" -> NumberKept(schema, par, value.of, size)
             [] OTHER -> FALSE

\* A flat object from the start of the buffer on, whose properties lie one
\* behind the other.  (Flags of more than six bytes are whole bytes.)
ObjectKept(schema, par, value) ==
    LET Field(k) == Part(schema.properties[k], par.length)
    IN  /\ schema.type = "object" /\ ~Swaps(par) /\ par.length # None
        /\ Part(schema, par.length) = [from |-> 0, n |-> 8 * par.length]
        /\ Len(value.of) = Len(schema.properties)
        /\ \A k \in DOMAIN schema.properties :
              /\ None \notin {schema.properties[k].bitOffset, schema.properties[k].bitLength}
              /\ ScalarKept(schema.properties[k], par, value.of[k], par.length)
              /\ Field(k).n <= 48 \/ Field(k).n % 8 = 0
              /\ k > 1 => Field(k - 1).from + Field(k - 1).n <= Field(k).from

Kept ==
    IF exchange.value.is = "object"
    THEN ObjectKept(exchange.schema, exchange.par, exchange.value)
    ELSE ScalarKept(exchange.schema, exchange.par, exchange.value,
                    Size(exchange.value, exchange.schema, exchange.par))

\* What has been written is read as what it was: integers of every width,
\* signedness, order and place the promise covers, strings, numbers, flags,
\* and objects of them, none of whose properties disturbs another one.
RoundTrip ==
    got # None /\ Kept => got = exchange.value

\* The buffer is two's complement where the schema says, in the byte order
\* the parameters say, and zero elsewhere; a value that does not fit is
\* refused, and no other one is.
LaidOut ==
    wire # None /\ exchange.value.is = "integer" /\ Kept =>
        LET size == Size(exchange.value, exchange.schema, exchange.par)
            part == Part(exchange.schema, size)
            signed == Signed(exchange.schema, exchange.par)
            value == exchange.value.of
            bytes == Zeros(part.from) \o TwosComplement(value, part.n)
                     \o Zeros(8 * size - part.from - part.n)
            low == IF signed THEN -Two[part.n - 1] ELSE 0
            high == IF signed THEN Two[part.n - 1] ELSE Two[part.n]
        IN  part.n <= 30 =>
            wire = IF low <= value /\ value < high
                   THEN Buffer(InOrder(bytes, BigEndian(exchange.par)))
                   ELSE Failed

\* The two directions agree, and what is on the wire is right: this is about
\* bit offsets, byte order, signs and ranges, which valueToBytes,
\* bytesToValue and the helpers for bits each work out by themselves.
CodecExact == RoundTrip /\ LaidOut

-----------------------------------------------------------------------------
(* What may be written                                                     *)

\* Values of at most 30 bits and a sign: Bit and Overflows are about those.
Option == {None} \cup Nat
IsScalar(value) ==
    CASE value.is = "integer" -> value \in [is : {"integer"}, of : -Two[30]..(Two[30] - 1)]
      [] value.is = "boolean" -> value \in [is : {"boolean"}, of : BOOLEAN]
      [] value.is = "string" ->
             value \in [is : {"string"}, of : Seq({0, 1})] /\ Len(value.of) % 8 = 0
      [] value.is = "number" ->
             value \in [is : {"number"}, of : Seq({0, 1})] /\ Len(value.of) \in {16, 32, 64}
      [] OTHER -> value = [is |-> "null"]

Types == DOMAIN TypeSemantics \cup {"boolean", "integer", "number", "string", "null", "array", "object"}
IsSchema(schema) ==
    schema.type \in Types /\ schema.bitLength \in Option /\ schema.bitOffset \in Option

IsObject(value, schema) ==
    /\ schema.type = "object"
    /\ Len(schema.properties) \in Nat
    /\ schema.properties = [k \in 1..Len(schema.properties) |-> schema.properties[k]]
    /\ value = [is |-> "object", of |-> [k \in 1..Len(value.of) |-> value.of[k]]]
    /\ \A k \in DOMAIN schema.properties : IsSchema(schema.properties[k])
    /\ \A k \in DOMAIN value.of : value.of[k].is = "object" \/ IsScalar(value.of[k])

IsExchange(x) ==
    /\ x.par \in [length : Option, signed : {None, TRUE, FALSE}, byteSeq : {None} \cup STRING]
    /\ IsSchema(x.schema)
    /\ x.value.is = "object" \/ IsScalar(x.value)
    /\ x.value.is = "object" /\ x.schema.type = "object" => IsObject(x.value, x.schema)
=============================================================================
