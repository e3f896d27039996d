-------------------------------- MODULE Wire --------------------------------
(***************************************************************************)
(* Frames as bytes:                                                        *)
(*   firmware/Protocol/Src/guardian_protocol.c   (host link frames)        *)
(*   firmware/NodeLink/Src/guardian_node_link.c  (NodeLink frames)         *)
(*                                                                         *)
(* A 32-bit word that is computed bit by bit is the set of its one bits,   *)
(* so exclusive or is the symmetric difference; a frame is a record and    *)
(* an encoded frame a sequence of bytes.                                   *)
(***************************************************************************)
EXTENDS Integers, Sequences

Word == 0..31

Xor(a, b) == (a \ b) \cup (b \ a)
Bits(byte) == {i \in 0..7 : (byte \div 2^i) % 2 = 1}

(* Eight bits of a word, from bit `low' up, as a byte.                     *)
ByteAt(word, low) ==
  LET sum[k \in 0..8] ==
        IF k = 0 THEN 0
        ELSE sum[k - 1] + IF low + k - 1 \in word THEN 2^(k - 1) ELSE 0
  IN sum[8]

write_u16_be(v) == <<(v \div 256) % 256, v % 256>>
write_u32_be(v) ==
  <<(v \div 2^24) % 256, (v \div 2^16) % 256, (v \div 256) % 256, v % 256>>
read_u16_be(b, at) == 256 * b[at] + b[at + 1]
read_u32_be(b, at) ==
  2^24 * b[at] + 2^16 * b[at + 1] + 256 * b[at + 2] + b[at + 3]

-----------------------------------------------------------------------------
(* CRC-32.                                                                 *)

CRC32_POLYNOMIAL == {5, 8, 9, 15, 19, 20, 21, 23, 24, 26, 27, 29, 30, 31}
CRC32_INITIAL == Word
CRC32_FINAL_XOR == Word

ShiftRight(word) == {i - 1 : i \in word \ {0}}

crc_bit(crc) ==
  IF 0 \in crc THEN Xor(ShiftRight(crc), CRC32_POLYNOMIAL) ELSE ShiftRight(crc)

(* What eight shifts leave of a word: the shifts are linear, so the low   *)
(* byte and the rest are shifted apart and added.                         *)
CrcShifts ==
  [low \in SUBSET (0..7) |->
     LET from[k \in 0..8, crc \in SUBSET Word] ==
           IF k = 8 THEN crc ELSE from[k + 1, crc_bit(crc)]
     IN from[0, low]]

crc_byte(crc, byte) ==
  Xor({i - 8 : i \in crc \ 0..7}, CrcShifts[Xor(crc \cap 0..7, Bits(byte))])

(* Mutant: the check covers the header only.                               *)
crc32_header(data) ==
  LET from[n \in 1..13, crc \in SUBSET Word] ==
        IF n > 12 THEN crc ELSE from[n + 1, crc_byte(crc, data[n])]
  IN Xor(from[1, CRC32_INITIAL], CRC32_FINAL_XOR)

crc32(data) ==
  LET from[n \in 1..Len(data) + 1, crc \in SUBSET Word] ==
        IF n > Len(data) THEN crc ELSE from[n + 1, crc_byte(crc, data[n])]
  IN Xor(from[1, CRC32_INITIAL], CRC32_FINAL_XOR)

crc_bytes(word) ==
  <<ByteAt(word, 24), ByteAt(word, 16), ByteAt(word, 8), ByteAt(word, 0)>>

WithCrc(data) == data \o crc_bytes(crc32(data))

-----------------------------------------------------------------------------
(* Host link frames: guardian_protocol_encode and guardian_protocol_decode *)

MAGIC_0 == 71
MAGIC_1 == 70
PROTOCOL_VERSION == 1
HEADER_SIZE == 12
CRC_SIZE == 4
\* GUARDIAN_MAX_PAYLOAD_SIZE, 256 in the code.
CONSTANT MAX_PAYLOAD_SIZE
MAX_FRAME_SIZE == HEADER_SIZE + MAX_PAYLOAD_SIZE + CRC_SIZE
SUPPORTED_FLAGS == 0

(* Where the fields are, counted from 1.                                   *)
OFFSET == [MAGIC_0 |-> 1, MAGIC_1 |-> 2, VERSION |-> 3, MESSAGE_TYPE |-> 4,
           COMMAND |-> 5, FLAGS |-> 6, SEQUENCE |-> 7, PAYLOAD_LENGTH |-> 11]

MESSAGE == [REQUEST |-> 1, RESPONSE |-> 2, EVENT |-> 3, ERROR |-> 4,
            TELEMETRY |-> 5]

message_type_is_valid(t) == t \in MESSAGE.REQUEST..MESSAGE.TELEMETRY

Rejected(why) == [result |-> why]

protocol_encode_result(f, capacity) ==
  IF ~message_type_is_valid(f.type) THEN "MESSAGE_TYPE"
  ELSE IF f.flags # SUPPORTED_FLAGS THEN "FLAGS"
  ELSE IF Len(f.payload) > MAX_PAYLOAD_SIZE THEN "PAYLOAD_TOO_LARGE"
  ELSE IF capacity < HEADER_SIZE + Len(f.payload) + CRC_SIZE
    THEN "OUTPUT_TOO_SMALL"
  ELSE "OK"

protocol_encode(f) ==
  WithCrc(<<MAGIC_0, MAGIC_1, PROTOCOL_VERSION, f.type, f.command, f.flags>>
          \o write_u32_be(f.sequence) \o write_u16_be(Len(f.payload))
          \o f.payload)

protocol_decode(b) ==
  LET length == read_u16_be(b, OFFSET.PAYLOAD_LENGTH)
      end == HEADER_SIZE + length
  IN IF Len(b) < HEADER_SIZE + CRC_SIZE THEN Rejected("FRAME_TOO_SHORT")
     ELSE IF b[1] # MAGIC_0 \/ b[2] # MAGIC_1 THEN Rejected("MAGIC")
     ELSE IF b[OFFSET.VERSION] # PROTOCOL_VERSION THEN Rejected("VERSION")
     ELSE IF ~message_type_is_valid(b[OFFSET.MESSAGE_TYPE])
       THEN Rejected("MESSAGE_TYPE")
     ELSE IF b[OFFSET.FLAGS] # SUPPORTED_FLAGS THEN Rejected("FLAGS")
     ELSE IF length > MAX_PAYLOAD_SIZE THEN Rejected("PAYLOAD_TOO_LARGE")
     ELSE IF Len(b) # end + CRC_SIZE THEN Rejected("LENGTH_MISMATCH")
     ELSE IF SubSeq(b, end + 1, end + CRC_SIZE)
             # crc_bytes(crc32(SubSeq(b, 1, end)))
       THEN Rejected("CRC")
     ELSE [result |-> "OK",
           frame |-> [type |-> b[OFFSET.MESSAGE_TYPE],
                      command |-> b[OFFSET.COMMAND], flags |-> b[OFFSET.FLAGS],
                      sequence |-> read_u32_be(b, OFFSET.SEQUENCE),
                      payload |-> SubSeq(b, HEADER_SIZE + 1, end)]]

-----------------------------------------------------------------------------
(* NodeLink frames: guardian_node_link_encode and guardian_node_link_decode *)

NL_MAGIC_1 == 78
NL_VERSION == 1
NL_HEADER_SIZE == 20
NL_CRC_SIZE == 4
NL_MAX_PAYLOAD == 64
NL_MAX_FRAME == NL_HEADER_SIZE + NL_MAX_PAYLOAD + NL_CRC_SIZE
NL_SUPPORTED_FLAGS == 0

NODE_LINK_RESULTS ==
  {"OK", "NULL_ARGUMENT", "OUTPUT_TOO_SMALL", "FRAME_TOO_SHORT", "MAGIC", "VERSION",
   "MESSAGE_TYPE", "FLAGS", "STATE", "SEQUENCE_ZERO", "PAYLOAD_TOO_LARGE",
   "LENGTH_MISMATCH", "CRC", "REPLAY_OR_REGRESSION"}

NL_MESSAGE == [HELLO |-> 1, CHALLENGE |-> 2, RESPONSE |-> 3, HEARTBEAT |-> 4,
               HEALTH |-> 5, SUPERVISION_STATE |-> 6, ERROR |-> 127]

NODE_STATE == [BOOT |-> 0, DISCOVERING |-> 1, ACTIVE |-> 2, DEGRADED |-> 3,
               SAFE_HOLD |-> 4, FAULT |-> 5]

valid_message_type(t) == \E m \in DOMAIN NL_MESSAGE : NL_MESSAGE[m] = t
valid_state(s) == s <= NODE_STATE.FAULT

node_link_crc32(data) == crc32(data)

node_link_encode_result(f, capacity) ==
  IF ~valid_message_type(f.type) THEN "MESSAGE_TYPE"
  ELSE IF f.flags # NL_SUPPORTED_FLAGS THEN "FLAGS"
  ELSE IF ~valid_state(f.state) THEN "STATE"
  ELSE IF f.sequence = 0 THEN "SEQUENCE_ZERO"
  ELSE IF Len(f.payload) > NL_MAX_PAYLOAD THEN "PAYLOAD_TOO_LARGE"
  ELSE IF capacity < NL_HEADER_SIZE + Len(f.payload) + NL_CRC_SIZE
    THEN "OUTPUT_TOO_SMALL"
  ELSE "OK"

node_link_encode(f) ==
  LET data == <<MAGIC_0, NL_MAGIC_1, NL_VERSION, f.type, f.flags, f.state>>
              \o write_u16_be(Len(f.payload)) \o write_u32_be(f.sequence)
              \o write_u32_be(f.epoch) \o write_u32_be(f.sender) \o f.payload
  IN data \o crc_bytes(node_link_crc32(data))

node_link_decode(b) ==
  LET length == read_u16_be(b, 7)
      end == NL_HEADER_SIZE + length
  IN IF Len(b) < NL_HEADER_SIZE + NL_CRC_SIZE THEN Rejected("FRAME_TOO_SHORT")
     ELSE IF b[1] # MAGIC_0 \/ b[2] # NL_MAGIC_1 THEN Rejected("MAGIC")
     ELSE IF b[3] # NL_VERSION THEN Rejected("VERSION")
     ELSE IF ~valid_message_type(b[4]) THEN Rejected("MESSAGE_TYPE")
     ELSE IF b[5] # NL_SUPPORTED_FLAGS THEN Rejected("FLAGS")
     ELSE IF ~valid_state(b[6]) THEN Rejected("STATE")
     ELSE IF length > NL_MAX_PAYLOAD THEN Rejected("PAYLOAD_TOO_LARGE")
     ELSE IF Len(b) # end + NL_CRC_SIZE THEN Rejected("LENGTH_MISMATCH")
     ELSE IF SubSeq(b, 9, 12) = <<0, 0, 0, 0>> THEN Rejected("SEQUENCE_ZERO")
     ELSE IF SubSeq(b, end + 1, end + NL_CRC_SIZE)
             # crc_bytes(node_link_crc32(SubSeq(b, 1, end)))
       THEN Rejected("CRC")
     ELSE [result |-> "OK",
           frame |-> [type |-> b[4], flags |-> b[5], state |-> b[6],
                      sequence |-> read_u32_be(b, 9),
                      epoch |-> read_u32_be(b, 13),
                      sender |-> read_u32_be(b, 17),
                      payload |-> SubSeq(b, NL_HEADER_SIZE + 1, end)]]
=============================================================================
