-------------------------------- MODULE Codec -------------------------------
(***************************************************************************)
(* The wire format: what protocol::encode writes and what decode_header    *)
(* and decode_body read.                                                   *)
(*                                                                         *)
(* A byte is a number below kByte and integers are little-endian, so that  *)
(* every width, offset and padding byte of the code is there.  A message   *)
(* body is a record of its type and its fields.                            *)
(***************************************************************************)
EXTENDS Integers, Sequences, SequencesExt, FiniteSetsExt

CONSTANTS
  kByte,         \* how many values a byte has: 256 in the code
  kMaxBodySize,  \* the longest body a frame may have
  NoMessage      \* std::nullopt

kProtocolVersion == 1
kHeaderSize      == 8

ASSUME CodecAssumption == kByte \in Nat /\ kByte > 9 /\ kMaxBodySize \in Nat

(* MsgType; the codes are numbered through, to fit a small byte. *)
MsgType ==
  [Logon |-> 1, Logout |-> 2, Heartbeat |-> 3, NewOrder |-> 4, CancelOrder |-> 5,
   OrderAck |-> 6, OrderReject |-> 7, Fill |-> 8, Cancelled |-> 9]

RejectReason ==
  [Unknown |-> 0, UnknownInstrument |-> 1, InvalidQuantity |-> 2, InvalidPrice |-> 3,
   InvalidTif |-> 4, NotLoggedOn |-> 5, DuplicateOrderId |-> 6,
   InsufficientLiquidity |-> 7]

-----------------------------------------------------------------------------
(* BufferWriter and BufferReader *)

Width == [u8 |-> 1, u16 |-> 2, u32 |-> 4, u64 |-> 8, i64 |-> 8]

Modulus(w) == kByte ^ w

(* The w bytes write_u8, write_u16, write_u32 and write_u64 put down. *)
LittleEndian(w, v) == [n \in 1..w |-> (v \div kByte ^ (n - 1)) % kByte]

(* write_i64 casts to the unsigned type first. *)
write(int, v) == LittleEndian(Width[int], v % Modulus(Width[int]))

(* read_u8, read_u16, read_u32 and read_u64. *)
Unsigned(bytes) == MapThenSumSet(LAMBDA n : bytes[n] * kByte ^ (n - 1), DOMAIN bytes)

\* Mutant: read_i64 forgets the cast back.
read_unsigned(int, bytes) == Unsigned(bytes)

(* read_i64 casts back to the signed type. *)
read(int, bytes) ==
  LET v == Unsigned(bytes)
  IN IF int = "i64" /\ v >= Modulus(8) \div 2 THEN v - Modulus(8) ELSE v

-----------------------------------------------------------------------------
(* The structs of messages.hpp: their fields and the integers they are.    *)
(* encode_body writes them in this order, pad being the byte 0.            *)
Written ==
  [Logon       |-> << <<"client_id", "u32">> >>,
   Logout      |-> <<>>,
   Heartbeat   |-> <<>>,
   NewOrder    |-> << <<"client_order_id", "u64">>, <<"instrument_id", "u32">>,
                      <<"side", "u8">>, <<"order_type", "u8">>, <<"tif", "u8">>,
                      <<"pad", "u8">>, <<"price", "i64">>, <<"quantity", "u64">> >>,
   CancelOrder |-> << <<"client_order_id", "u64">>, <<"instrument_id", "u32">> >>,
   OrderAck    |-> << <<"client_order_id", "u64">>, <<"server_order_id", "u64">> >>,
   OrderReject |-> << <<"client_order_id", "u64">>, <<"reason", "u8">> >>,
   Fill        |-> << <<"client_order_id", "u64">>, <<"server_order_id", "u64">>,
                      <<"price", "i64">>, <<"quantity", "u64">>, <<"post_status", "u8">> >>,
   Cancelled   |-> << <<"client_order_id", "u64">> >>]

encode_body(m) ==
  FlattenSeq([n \in 1..Len(Written[m.type]) |->
    LET f == Written[m.type][n] IN write(f[2], IF f[1] = "pad" THEN 0 ELSE m[f[1]])])

encode_header(type, length, seq) ==
  write("u8", kProtocolVersion) \o write("u8", MsgType[type])
    \o write("u16", length) \o write("u32", seq)

(* encode: no bytes at all when the body does not fit its buffer. *)
encode(seq, m) ==
  LET body == encode_body(m)
  IN IF Len(body) > kMaxBodySize THEN <<>>
     ELSE encode_header(m.type, Len(body), seq) \o body

-----------------------------------------------------------------------------
decode_header(bytes) ==
  [protocol_version |-> read("u8", SubSeq(bytes, 1, 1)),
   msg_type         |-> read("u8", SubSeq(bytes, 2, 2)),
   body_length      |-> read("u16", SubSeq(bytes, 3, 4)),
   sequence         |-> read("u32", SubSeq(bytes, 5, 8))]

(* What decode_body reads for every code, in the order of its calls. *)
Read ==
  (1 :> << <<"client_id", "u32">> >>) @@ (2 :> <<>>) @@ (3 :> <<>>)
  @@ (4 :> << <<"client_order_id", "u64">>, <<"instrument_id", "u32">>,
              <<"side", "u8">>, <<"order_type", "u8">>, <<"tif", "u8">>,
              <<"pad", "u8">>, <<"price", "i64">>, <<"quantity", "u64">> >>)
  @@ (5 :> << <<"client_order_id", "u64">>, <<"instrument_id", "u32">> >>)
  @@ (6 :> << <<"client_order_id", "u64">>, <<"server_order_id", "u64">> >>)
  @@ (7 :> << <<"client_order_id", "u64">>, <<"reason", "u8">> >>)
  @@ (8 :> << <<"client_order_id", "u64">>, <<"server_order_id", "u64">>,
              <<"price", "i64">>, <<"quantity", "u64">>, <<"post_status", "u8">> >>)
  @@ (9 :> << <<"client_order_id", "u64">> >>)

(* The number of bytes in front of the n-th field. *)
Offset(fields, n) == MapThenSumSet(LAMBDA k : Width[fields[k][2]], 1..(n - 1))

(* decode_body: nothing for an unknown code or a body that is too short;   *)
(* bytes behind the last field, and the value of pad, are not looked at.   *)
decode_body(code, body) ==
  IF code \notin DOMAIN Read THEN NoMessage
  ELSE LET fields == Read[code]
           Field(n) == read(fields[n][2],
                            SubSeq(body, Offset(fields, n) + 1, Offset(fields, n + 1)))
       IN IF Len(body) < Offset(fields, Len(fields) + 1) THEN NoMessage
          ELSE [name \in {fields[n][1] : n \in 1..Len(fields)} \ {"pad"} |->
                  Field(CHOOSE n \in 1..Len(fields) : fields[n][1] = name)]
               @@ [type |-> CHOOSE t \in DOMAIN MsgType : MsgType[t] = code]
=============================================================================
