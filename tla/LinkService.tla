---------------------------- MODULE LinkService -----------------------------
(***************************************************************************)
(* The serial link of the device, from the bytes of the UART to the bytes  *)
(* of the answer:                                                          *)
(*   firmware/Protocol/Src/guardian_parser.c                               *)
(*   firmware/Platform/Src/guardian_embedded_link.c                        *)
(*   firmware/App/Src/guardian_device_service.c                            *)
(*   firmware/Telemetry/Src/guardian_telemetry.c                           *)
(* Frames are byte strings with their real CRC.  What the security,        *)
(* health, control, firmware and DSP components answer is modelled in      *)
(* Reports and in their own modules; here each answers whatever it can.    *)
(* Counters that are only reported are left out.  The line to the device   *)
(* loses, changes and repeats bytes, the transmit queue may be full.       *)
(***************************************************************************)
EXTENDS Wire

CONSTANTS Requests,      \* what the host asks: type, command and payload
          MaxRequests,   \* how many requests the host makes
          MaxFaults,     \* how often the line or the transmit queue fails
          FlipBits,      \* the bits the line may flip
          SEQUENCE_MAX,  \* 0xFFFFFFFF, the last telemetry sequence number
          PERIOD_MIN, PERIOD_MAX, PERIOD_DEFAULT, \* telemetry periods, in ms
          SecurityRequired  \* guardian_embedded_link_require_security

ASSUME SequenceAssumption == SEQUENCE_MAX \in Nat \ {0}

(* A request has bytes for its fields, its number has 32 bits and the      *)
(* length of a payload 16; the longest fixed answer of the link has four   *)
(* bytes.                                                                  *)
ASSUME RequestAssumption ==
  /\ \A r \in Requests : r \in [type : 0 .. 255, command : 0 .. 255, payload : Seq(0 .. 255)]
  /\ MaxRequests \in Nat /\ MaxRequests \div 2^16 < 2^16
  /\ MAX_PAYLOAD_SIZE \in Nat /\ MAX_PAYLOAD_SIZE \div 2^8 < 2^8 /\ 4 <= MAX_PAYLOAD_SIZE
  /\ FlipBits \subseteq 0 .. 7

VARIABLES line,       \* bytes on their way to the device, oldest first
          parser,     \* guardian_parser_t
          telemetry,  \* guardian_telemetry_t
          lastError,  \* stats.last_error
          host,       \* the host: its requests made, the one it waits for, as sent
          faults,     \* failures so far
          dispatched, \* history: the requests the device has acted on
          heard       \* history: telemetry heard last, and frames lost since

linkVars == << line, parser, telemetry, lastError, host, faults, dispatched, heard >>

COMMAND == [PING |-> 1, DEVICE_INFO |-> 2, GET_STATUS |-> 16, GET_DSP_FEATURES |-> 17,
            GET_HEALTH_STATUS |-> 18, BASELINE_CONTROL |-> 19, GET_CONTROL_STATUS |-> 20,
            CONTROL_COMMAND |-> 21, SET_TELEMETRY |-> 32, MACHINE_TELEMETRY |-> 33,
            AUTH_BEGIN |-> 48, AUTH_FINISH |-> 49, GET_SECURITY_STATUS |-> 50,
            SECURE_COMMAND |-> 51, GET_FIRMWARE_STATUS |-> 64, FIRMWARE_BEGIN |-> 65,
            FIRMWARE_CHUNK |-> 66, FIRMWARE_FINALIZE |-> 67, FIRMWARE_ACTIVATE |-> 68]

ERROR == [MALFORMED_FRAME |-> 1, UNSUPPORTED_VERSION |-> 2,
          UNSUPPORTED_MESSAGE_TYPE |-> 3, UNSUPPORTED_FLAGS |-> 4,
          UNKNOWN_COMMAND |-> 5, INVALID_PAYLOAD |-> 6, INTERNAL |-> 7, BUSY |-> 8,
          UNAUTHORIZED |-> 9, REPLAY_DETECTED |-> 10, SIGNATURE_INVALID |-> 11,
          ROLLBACK_BLOCKED |-> 12, UPDATE_FAILED |-> 13]

TELEMETRY_SCHEMA_VERSION == 1
DEVICE_PAYLOAD_SCHEMA_VERSION == 1
DEVICE_STATES == 0 .. 4
---------------------------------------------------------------------------
(* The parser.  The buffer holds the bytes read so far; expected_size is 0 *)
(* until the header is complete.                                           *)
parser_init == [state |-> "WAIT_MAGIC_0", buffer |-> << >>, expected_size |-> 0]

(* Mutant: an error leaves the buffer as it is.                            *)
return_to_sync_nowhere(p) == p

return_to_sync(p) ==
  [p EXCEPT !.state = "WAIT_MAGIC_0", !.buffer = << >>, !.expected_size = 0]

Push(p, result, frames) == [parser |-> p, result |-> result, frames |-> frames]

push_magic_0(p, byte) ==
  Push(IF byte = MAGIC_0 THEN [p EXCEPT !.state = "WAIT_MAGIC_1", !.buffer = << byte >>]
       ELSE p, "NO_FRAME", {})

push_magic_1(p, byte) ==
  Push(IF byte = MAGIC_1
         THEN [p EXCEPT !.state = "READ_FRAME", !.buffer = Append(@, byte)]
       ELSE IF byte = MAGIC_0 THEN [p EXCEPT !.buffer = << byte >>]
       ELSE return_to_sync(p), "NO_FRAME", {})

push_frame_byte(p, byte) ==
  LET b == Append(p.buffer, byte)
      length == read_u16_be(b, OFFSET.PAYLOAD_LENGTH)
      expected == IF Len(b) = HEADER_SIZE THEN HEADER_SIZE + length + CRC_SIZE
                  ELSE p.expected_size
      read == [p EXCEPT !.buffer = b, !.expected_size = expected]
      decoded == protocol_decode(b)
  IN IF Len(p.buffer) >= MAX_FRAME_SIZE THEN Push(return_to_sync(p), "OVERSIZE", {})
     ELSE IF Len(b) = HEADER_SIZE /\ length > MAX_PAYLOAD_SIZE
       THEN Push(return_to_sync(read), "OVERSIZE", {})
     ELSE IF expected = 0 \/ Len(b) < expected THEN Push(read, "NO_FRAME", {})
     ELSE IF decoded.result = "OK"
       THEN Push(return_to_sync(read), "FRAME_READY", {decoded.frame})
     ELSE IF decoded.result = "CRC" THEN Push(return_to_sync(read), "ERROR_CRC", {})
     ELSE Push(return_to_sync(read), "ERROR_PROTOCOL", {})

push_byte(p, byte) ==
  CASE p.state = "WAIT_MAGIC_0" -> push_magic_0(p, byte)
    [] p.state = "WAIT_MAGIC_1" -> push_magic_1(p, byte)
    [] OTHER -> push_frame_byte(p, byte)
---------------------------------------------------------------------------
(* Answers.                                                                *)
make_response(request, payload) ==
  [type |-> MESSAGE.RESPONSE, command |-> request.command, flags |-> SUPPORTED_FLAGS,
   sequence |-> request.sequence, payload |-> payload]

make_error(request, code) ==
  [type |-> MESSAGE.ERROR, command |-> request.command, flags |-> SUPPORTED_FLAGS,
   sequence |-> request.sequence, payload |-> << code >>]

security_error(result) ==
  CASE result = "REPLAY" -> ERROR.REPLAY_DETECTED
    [] result = "UNAUTHORIZED" -> ERROR.UNAUTHORIZED
    [] result = "INVALID_PAYLOAD" -> ERROR.INVALID_PAYLOAD
    [] OTHER -> ERROR.INTERNAL

firmware_error(result) ==
  CASE result = "ROLLBACK_BLOCKED" -> ERROR.ROLLBACK_BLOCKED
    [] result = "SIGNATURE_INVALID" -> ERROR.SIGNATURE_INVALID
    [] result \in {"INVALID_PAYLOAD", "OUT_OF_ORDER"} -> ERROR.INVALID_PAYLOAD
    [] result = "INVALID_STATE" -> ERROR.BUSY
    [] result \in {"UNCONFIGURED", "STORAGE", "HASH_MISMATCH", "ACTIVATION",
                   "CONFIRMATION"} -> ERROR.UPDATE_FAILED
    [] OTHER -> ERROR.INTERNAL

SECURITY_RESULTS == {"OK", "NULL_ARGUMENT", "INVALID_PAYLOAD", "UNAUTHORIZED", "REPLAY",
                     "RANDOM", "OUTPUT_TOO_SMALL"}
FIRMWARE_RESULTS == {"OK", "NULL_ARGUMENT", "UNCONFIGURED", "INVALID_PAYLOAD",
                     "INVALID_STATE", "ROLLBACK_BLOCKED", "STORAGE", "HASH_MISMATCH",
                     "SIGNATURE_INVALID", "ACTIVATION", "CONFIRMATION", "OUT_OF_ORDER",
                     "OUTPUT_TOO_SMALL"}

(* The device service: the model name is one byte, the status payload its  *)
(* schema and state.                                                       *)
handle_ping(request) == make_response(request, << 80, 79, 78, 71 >>)
handle_info(request) == make_response(request, << DEVICE_PAYLOAD_SCHEMA_VERSION, 1, 77 >>)
handle_status(request, state) ==
  make_response(request, << DEVICE_PAYLOAD_SCHEMA_VERSION, state >>)

service_handle(request, state) ==
  IF request.type # MESSAGE.REQUEST THEN make_error(request, ERROR.MALFORMED_FRAME)
  ELSE IF request.payload # << >> THEN make_error(request, ERROR.INVALID_PAYLOAD)
  ELSE IF request.command = COMMAND.PING THEN handle_ping(request)
  ELSE IF request.command = COMMAND.DEVICE_INFO THEN handle_info(request)
  ELSE IF request.command = COMMAND.GET_STATUS THEN handle_status(request, state)
  ELSE make_error(request, ERROR.UNKNOWN_COMMAND)
---------------------------------------------------------------------------
(* Telemetry.                                                              *)
telemetry_init == [enabled |-> 0, period_ms |-> PERIOD_DEFAULT, elapsed_ms |-> 0,
                   next_sequence |-> 1]

telemetry_tick_1ms(t) ==
  IF t.enabled # 0 THEN [t EXCEPT !.elapsed_ms = @ + 1] ELSE t

telemetry_request_error(request) ==
  IF request.type # MESSAGE.REQUEST THEN {ERROR.MALFORMED_FRAME}
  ELSE IF request.command # COMMAND.SET_TELEMETRY THEN {ERROR.UNKNOWN_COMMAND}
  ELSE IF Len(request.payload) # 4 THEN {ERROR.INVALID_PAYLOAD}
  ELSE IF \/ request.payload[1] # TELEMETRY_SCHEMA_VERSION
          \/ request.payload[2] > 1
          \/ read_u16_be(request.payload, 3) \notin PERIOD_MIN .. PERIOD_MAX
    THEN {ERROR.INVALID_PAYLOAD}
  ELSE {}

telemetry_configured(t, request) ==
  IF telemetry_request_error(request) # {} THEN t
  ELSE [t EXCEPT !.enabled = request.payload[2],
                 !.period_ms = read_u16_be(request.payload, 3), !.elapsed_ms = 0]

telemetry_config_response(t, request) ==
  make_response(request, << TELEMETRY_SCHEMA_VERSION, t.enabled >>
                         \o write_u16_be(t.period_ms))

telemetry_handle_request(t, request) ==
  LET errors == telemetry_request_error(request)
  IN IF errors # {} THEN make_error(request, CHOOSE e \in errors : TRUE)
     ELSE telemetry_config_response(telemetry_configured(t, request), request)

telemetry_due(t) == t.enabled # 0 /\ t.elapsed_ms >= t.period_ms

(* Mutant: the wrap goes through zero.                                     *)
next_sequence_zero(n) == (n + 1) % (SEQUENCE_MAX + 1)

next_sequence(n) == IF n = SEQUENCE_MAX THEN 1 ELSE n + 1

(* The frame takes its sequence number before anyone knows whether it will *)
(* be queued.                                                              *)
telemetry_taken(t) ==
  [t EXCEPT !.elapsed_ms = 0, !.next_sequence = next_sequence(@)]

telemetry_frame(t, state) ==
  [type |-> MESSAGE.TELEMETRY, command |-> COMMAND.MACHINE_TELEMETRY,
   flags |-> SUPPORTED_FLAGS, sequence |-> t.next_sequence,
   payload |-> << TELEMETRY_SCHEMA_VERSION, state >>]
---------------------------------------------------------------------------
(* What the link may answer to a request.                                  *)
privileged == {COMMAND.BASELINE_CONTROL, COMMAND.CONTROL_COMMAND, COMMAND.FIRMWARE_BEGIN,
               COMMAND.FIRMWARE_CHUNK, COMMAND.FIRMWARE_FINALIZE,
               COMMAND.FIRMWARE_ACTIVATE}

dispatch_firmware(request) ==
  {IF r = "OK" THEN make_response(request, << >>)
   ELSE make_error(request, firmware_error(r)) : r \in FIRMWARE_RESULTS}

(* Health, control and DSP answer, or refuse the request.                  *)
component_handle(request) ==
  {make_response(request, << 1 >>)}
  \cup {make_error(request, e) : e \in {ERROR.MALFORMED_FRAME, ERROR.INVALID_PAYLOAD,
                                        ERROR.BUSY, ERROR.INTERNAL}}

dispatch_privileged(request) ==
  IF request.command \in {COMMAND.BASELINE_CONTROL, COMMAND.CONTROL_COMMAND}
    THEN component_handle(request)
  ELSE IF request.command \in privileged THEN dispatch_firmware(request)
  ELSE {make_error(request, ERROR.UNKNOWN_COMMAND)}

security_answers(request) ==
  {IF r = "OK" THEN make_response(request, << 1 >>)
   ELSE make_error(request, security_error(r)) : r \in SECURITY_RESULTS}

status_answers(request) ==
  IF request.payload # << >> THEN {make_error(request, ERROR.INVALID_PAYLOAD)}
  ELSE {make_response(request, << 1 >>)}

(* The order of the tests is the code's.                                   *)
dispatch(t, request, state) ==
  LET c == request.command
  IN IF c \in {COMMAND.AUTH_BEGIN, COMMAND.AUTH_FINISH, COMMAND.SECURE_COMMAND}
       THEN security_answers(request)
     ELSE IF c \in {COMMAND.GET_SECURITY_STATUS, COMMAND.GET_FIRMWARE_STATUS}
       THEN status_answers(request)
     ELSE IF SecurityRequired /\ c \in privileged
       THEN {make_error(request, ERROR.UNAUTHORIZED)}
     ELSE IF c = COMMAND.SET_TELEMETRY THEN {telemetry_handle_request(t, request)}
     ELSE IF c \in {COMMAND.GET_DSP_FEATURES, COMMAND.GET_HEALTH_STATUS,
                    COMMAND.GET_CONTROL_STATUS}
       THEN component_handle(request)
     ELSE IF c \in {COMMAND.BASELINE_CONTROL, COMMAND.CONTROL_COMMAND}
       THEN dispatch_privileged(request)
     ELSE {service_handle(request, state)}

(* record_response_error                                                   *)
response_error(error, response) ==
  IF response.type = MESSAGE.ERROR /\ Len(response.payload) = 1
    THEN response.payload[1] ELSE error
---------------------------------------------------------------------------
NoRequest == [type |-> 0, command |-> 0, flags |-> 0, sequence |-> 0, payload |-> << >>]

LinkInit ==
  /\ line = << >>
  /\ parser = parser_init
  /\ telemetry = telemetry_init
  /\ lastError = 0
  /\ host = [made |-> 0, pending |-> NoRequest, frame |-> << >>]
  /\ faults = 0
  /\ dispatched = {}
  /\ heard = [last |-> 0, lost |-> 0]

(* The host makes a request and waits.  The exchange has a deadline and no *)
(* retry of its own: who gets no answer runs guardianctl again, and the    *)
(* new process numbers its requests from the start, so the same bytes are  *)
(* sent again.                                                             *)
HostRequest ==
  /\ host.pending = NoRequest /\ host.made < MaxRequests /\ line = << >>
  /\ \E r \in Requests :
       LET f == [type |-> r.type, command |-> r.command, flags |-> SUPPORTED_FLAGS,
                 sequence |-> host.made + 1, payload |-> r.payload]
       IN /\ protocol_encode_result(f, MAX_FRAME_SIZE) = "OK"
          /\ host' = [made |-> host.made + 1, pending |-> f, frame |-> protocol_encode(f)]
          /\ line' = host'.frame
  /\ UNCHANGED << parser, telemetry, lastError, faults, dispatched, heard >>

HostRetry ==
  /\ host.pending # NoRequest /\ line = << >>
  /\ line' = host.frame
  /\ UNCHANGED << parser, telemetry, lastError, host, faults, dispatched, heard >>

FlipBit(byte, k) == IF (byte \div 2^k) % 2 = 1 THEN byte - 2^k ELSE byte + 2^k

(* The next byte is flipped, lost or repeated.                             *)
LineFault ==
  /\ line # << >> /\ faults < MaxFaults
  /\ \/ \E k \in FlipBits : line' = << FlipBit(Head(line), k) >> \o Tail(line)
     \/ line' = Tail(line)
     \/ line' = << Head(line) >> \o line
  /\ faults' = faults + 1
  /\ UNCHANGED << parser, telemetry, lastError, host, dispatched, heard >>

(* guardian_embedded_transmit: a frame that does not encode, or that the   *)
(* queue does not take, is dropped.                                        *)
transmit_error(frame, queued) ==
  IF protocol_encode_result(frame, MAX_FRAME_SIZE) # "OK" THEN {ERROR.INTERNAL}
  ELSE IF ~queued THEN {ERROR.BUSY} ELSE {}

(* The queue may be full.                                                  *)
Queue(queued) ==
  /\ queued \/ faults < MaxFaults
  /\ faults' = IF queued THEN faults ELSE faults + 1

(* The host reads an answer.  One that is not for the request it waits for *)
(* leaves it without an answer: the attempt fails and may be repeated.     *)
HostHears(frame) ==
  LET decoded == protocol_decode(protocol_encode(frame))
  IN IF /\ decoded.result = "OK"
        /\ decoded.frame.command = host.pending.command
        /\ decoded.frame.sequence = host.pending.sequence
       THEN [host EXCEPT !.pending = NoRequest, !.frame = << >>] ELSE host

(* One turn of the poll loop.                                              *)
TakeByte == line # << >> /\ line' = Tail(line)

PollByte ==
  /\ TakeByte
  /\ LET pushed == push_byte(parser, Head(line))
     IN /\ parser' = pushed.parser
        /\ \/ /\ pushed.result = "NO_FRAME"
              /\ UNCHANGED << telemetry, lastError, host, faults, dispatched >>
           \/ /\ pushed.result \notin {"NO_FRAME", "FRAME_READY"}
              /\ lastError' = ERROR.MALFORMED_FRAME
              /\ UNCHANGED << telemetry, host, faults, dispatched >>
           \/ \E request \in pushed.frames, state \in DEVICE_STATES :
              \E response \in dispatch(telemetry, request, state) :
                /\ dispatched' = dispatched \cup {request}
                /\ telemetry' = IF request.command = COMMAND.SET_TELEMETRY
                                  THEN telemetry_configured(telemetry, request)
                                  ELSE telemetry
                /\ \E queued \in BOOLEAN :
                     LET errors == transmit_error(response, queued)
                     IN /\ Queue(queued)
                        /\ host' = IF errors = {} THEN HostHears(response) ELSE host
                        /\ lastError' = IF errors = {} THEN response_error(lastError, response)
                                        ELSE CHOOSE e \in errors : TRUE
  /\ UNCHANGED heard

(* The end of the poll: at most one telemetry frame, whatever bytes are    *)
(* still to come.                                                          *)
PollTelemetry ==
  /\ telemetry_due(telemetry)
  /\ telemetry' = telemetry_taken(telemetry)
  /\ \E queued \in BOOLEAN :
       LET frame == telemetry_frame(telemetry, 1)
           errors == transmit_error(frame, queued)
       IN /\ Queue(queued)
          /\ heard' = IF errors = {} THEN [last |-> frame.sequence, lost |-> 0]
                      ELSE [heard EXCEPT !.lost = @ + 1]
          /\ lastError' = IF errors = {} THEN lastError ELSE CHOOSE e \in errors : TRUE
  /\ UNCHANGED << line, parser, host, dispatched >>

LinkTick ==
  /\ telemetry.elapsed_ms < PERIOD_MAX   \* the poll runs at least that often
  /\ telemetry' = telemetry_tick_1ms(telemetry)
  /\ UNCHANGED << line, parser, lastError, host, faults, dispatched, heard >>

LinkNext == HostRequest \/ HostRetry \/ LineFault \/ PollByte \/ PollTelemetry \/ LinkTick

(* The main loop polls for ever and takes the bytes that are there; a host *)
(* without an answer tries again.                                          *)
LinkFairness == WF_line(TakeByte) /\ WF_line(HostRetry)
---------------------------------------------------------------------------
(* The device acts on a request only if the host made exactly that one,    *)
(* whatever byte of whatever attempt was flipped, lost or repeated and     *)
(* wherever the parser resumed: the frame's check covers all of it.        *)
RequestAsSent ==
  \A r \in dispatched :
    /\ r.sequence \in 1 .. host.made
    /\ \E q \in Requests : /\ q.type = r.type /\ q.command = r.command
                           /\ q.payload = r.payload

(* A host that repeats its request until it is answered is answered: after *)
(* a damaged frame the parser finds the start of a later one, and a full   *)
(* transmit queue costs one attempt.                                       *)
RetryIsAnswered == host.pending # NoRequest ~> host.pending = NoRequest

(* The gap the host sees in the telemetry sequence numbers is the number   *)
(* of frames that were lost: the number a frame takes before it is queued  *)
(* is spent if the queue is full, and the numbers run from 1 to their last *)
(* and round again, without zero, the number no frame has.                 *)
GapIsLoss ==
  telemetry.next_sequence = ((heard.last + heard.lost) % SEQUENCE_MAX) + 1
=============================================================================
