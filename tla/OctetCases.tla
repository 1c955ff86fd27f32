----------------------------- MODULE OctetCases -----------------------------
(* Values, schemas and parameters for the octet-stream codec.              *)
EXTENDS Integers, SequencesExt

CONSTANT None

Wanted == {-32769, -32768, -129, -128, -2, -1, 0, 1, 63, 64, 99, 127, 128, 255, 256, 65535, 65536}
ByteSequences == {None, "BIG_ENDIAN", "LITTLE_ENDIAN", "BIG_ENDIAN_BYTE_SWAP", "LITTLE_ENDIAN_BYTE_SWAP"}
Parameters == [length : {None, 1, 2, 3, 4}, signed : {None, TRUE, FALSE}, byteSeq : ByteSequences]

IntegerSchemas ==
    {[type |-> t, bitLength |-> None, bitOffset |-> None] :
        t \in {"integer", "int8", "uint8", "int16", "uint16"}}
    \cup [type : {"integer"}, bitLength : {1, 7, 8, 12, 16}, bitOffset : {None, 0, 1, 8, 9}]
    \cup [type : {"uint8"}, bitLength : {None, 8}, bitOffset : {3, 8}]

Text(n) == [i \in 1..n |-> IF i % 3 = 0 THEN 1 ELSE i % 2]

Scalars ==
    [value : {[is |-> "integer", of |-> v] : v \in Wanted}, schema : IntegerSchemas, par : Parameters]
    \cup [value : {[is |-> "boolean", of |-> TRUE], [is |-> "boolean", of |-> FALSE]},
          schema : [type : {"boolean"}, bitLength : {None, 1, 4}, bitOffset : {None, 3, 8}],
          par : Parameters]
    \cup [value : {[is |-> "string", of |-> Text(8)], [is |-> "string", of |-> Text(16)]},
          schema : [type : {"string"}, bitLength : {None, 8, 16}, bitOffset : {None, 3, 8}],
          par : Parameters]
    \cup [value : {[is |-> "integer", of |-> v] : v \in Wanted},
          schema : [type : {"integer"}, bitLength : {0, 32}, bitOffset : {0, 3}],
          par : [length : {None, 5}, signed : {None}, byteSeq : {None}]]
    \cup [value : {[is |-> "string", of |-> Text(n)] : n \in {32, 40, 56}},
          schema : [type : {"string"}, bitLength : {None}, bitOffset : {3}],
          par : {[length |-> None, signed |-> None, byteSeq |-> None]}]
    \cup [value : {[is |-> "string", of |-> Text(n)] : n \in {32, 40, 56}},
          schema : [type : {"string"}, bitLength : {32, 40, 56}, bitOffset : {3}],
          par : {[length |-> 8, signed |-> None, byteSeq |-> None]}]
    \cup [value : {[is |-> "number", of |-> Text(16)]},
          schema : [type : {"float16", "number"}, bitLength : {16}, bitOffset : {None, 3, 8}],
          par : Parameters]
    \cup [value : {[is |-> "null"]}, schema : [type : {"null", "array"}, bitLength : {None}, bitOffset : {None}],
          par : Parameters]

Flag(at) == [type |-> "boolean", bitLength |-> 1, bitOffset |-> at]
Field(at, n) == [type |-> "integer", bitLength |-> n, bitOffset |-> at]
Letters(at, n) == [type |-> "string", bitLength |-> n, bitOffset |-> at]
Object(properties) ==
    [type |-> "object", bitLength |-> None, bitOffset |-> None, properties |-> properties]
Nested(at, n, properties) ==
    [type |-> "object", bitLength |-> n, bitOffset |-> at, properties |-> properties]

True == [is |-> "boolean", of |-> TRUE]
Num(v) == [is |-> "integer", of |-> v]
Fields == {-1, 0, 5, 63, 99}

\* The example of core/README.md, aligned and unaligned fields in either
\* order, and an object within an object.
Objects ==
    [value : {[is |-> "object", of |-> <<True, Num(v), [is |-> "string", of |-> Text(24)]>>] : v \in Fields},
     schema : {Object(<<Flag(0), Field(1, 7), Letters(8, 24)>>), Object(<<Flag(1), Field(2, 6), Letters(8, 24)>>)},
     par : [length : {4}, signed : {None, FALSE}, byteSeq : ByteSequences]]
    \cup
    [value : {[is |-> "object", of |-> <<Num(u), Num(v)>>] : u, v \in Fields},
     schema : {Object(<<Field(8, 8), Field(16, 8)>>), Object(<<Field(16, 8), Field(8, 8)>>),
               Object(<<Field(3, 7), Field(10, 12)>>), Object(<<Field(0, 8), Field(8, 8)>>)},
     par : [length : {3, 4}, signed : {None, FALSE}, byteSeq : ByteSequences]]
    \cup
    [value : {[is |-> "object", of |-> <<True, [is |-> "object", of |-> <<True, Num(v)>>]>>] : v \in Fields},
     schema : {Object(<<Flag(1), Nested(8, 16, <<Flag(1), Field(4, 8)>>)>>)},
     par : [length : {3}, signed : {None}, byteSeq : {None, "LITTLE_ENDIAN"}]]

CasesOfCodec == Scalars \cup Objects
=============================================================================
