------------------------------ MODULE Reports -------------------------------
(***************************************************************************)
(* The fixed payloads in which the device reports its state, and the host  *)
(* that reads them.  The firmware writes each field at an offset of its    *)
(* own into the frame:                                                     *)
(*   guardian_dsp.c, guardian_health.c, guardian_control.c,                *)
(*   guardian_security.c, guardian_firmware_lifecycle.c,                   *)
(*   guardian_telemetry.c, guardian_device_service.c                       *)
(* and the host unpacks them in order, by a struct format:                 *)
(*   protocol/python/guardian_protocol/*.py                                *)
(* Nothing but the bytes ties the two together.  A value is the string of  *)
(* its bytes, most significant first, as wide as its C type.               *)
(***************************************************************************)
EXTENDS LinkService, TLC

VARIABLES query,   \* the request the device handles
          status,  \* the fields the device reports from
          answer,  \* its answer
          read     \* what the host read from it

reportVars == << query, status, answer, read >>

Top(n) == [i \in 1 .. n |-> 255]
Zero(n) == [i \in 1 .. n |-> 0]
---------------------------------------------------------------------------
(* What the device holds: the largest value each field can have.           *)
SCORE_MAX == << 3, 232 >>

dsp_features_t ==
  [block_sequence |-> Top(4), sample_rate_hz |-> Top(2), rms_mg |-> Top(2),
   peak_mg |-> Top(2), crest_factor_milli |-> Top(2),
   dominant_frequency_centi_hz |-> Top(4), dominant_peak_mg |-> Top(2),
   spectral_centroid_centi_hz |-> Top(4), low_band_permille |-> SCORE_MAX,
   mid_band_permille |-> SCORE_MAX, high_band_permille |-> SCORE_MAX,
   acquisition_status_flags |-> Top(2), dsp_status_flags |-> Top(2)]

health_status_t ==
  [state |-> << 4 >>, baseline_samples |-> Top(2), baseline_target |-> << 4, 0 >>,
   anomaly_score |-> SCORE_MAX, health_score |-> SCORE_MAX,
   max_deviation_milli |-> Top(2), dominant_feature |-> Top(1),
   consecutive_anomalous |-> Top(1), quality_flags |-> << 0, 31 >>,
   block_sequence |-> Top(4), current_rms_mg |-> Top(2),
   current_crest_factor_milli |-> Top(2),
   current_dominant_frequency_centi_hz |-> Top(4), baseline_rms_mean_mg |-> Top(2),
   baseline_rms_std_mg |-> Top(2), exceeded_feature_mask |-> << 0, 127 >>,
   rejected_inputs |-> Top(2)]

control_status_t ==
  [state |-> << 4 >>, supervision_enabled |-> << 1 >>, local_run_request |-> << 1 >>,
   run_permit |-> << 1 >>, interlock_closed |-> << 1 >>, health_state |-> << 4 >>,
   output_available |-> << 1 >>, latched_faults |-> << 0, 31 >>,
   active_faults |-> << 0, 31 >>, health_score |-> SCORE_MAX,
   anomaly_score |-> SCORE_MAX, transition_count |-> Top(4),
   fault_latch_count |-> Top(4), last_transition_reason |-> Top(1)]

security_status_t ==
  [configured |-> << 1 >>, active |-> << 1 >>, active_role |-> << 3 >>,
   session_id |-> Top(4), next_counter |-> Top(8), timeout_seconds |-> Top(2),
   remaining_seconds |-> Top(2), auth_successes |-> Top(4), auth_failures |-> Top(4),
   replay_rejections |-> Top(4), unauthorized_rejections |-> Top(4)]

firmware_status_t ==
  [state |-> << 6 >>, failure |-> << 9 >>, signature_algorithm |-> Top(1),
   active_version_counter |-> Top(4), rollback_floor |-> Top(4),
   candidate_version_counter |-> Top(4), bytes_received |-> Top(4),
   image_size |-> Top(4), key_id |-> Top(4), firmware_major |-> Top(2),
   firmware_minor |-> Top(2), firmware_patch |-> Top(2)]

machine_measurements_t ==
  [state |-> << 4 >>, timestamp_ms |-> Top(4), temperature_centi_c |-> << 127, 255 >>,
   vibration_mg_rms |-> Top(2), current_ma |-> Top(2), rpm |-> Top(2),
   supply_mv |-> Top(2), status_flags |-> Top(2)]

device_runtime_t ==
  [state |-> << 4 >>, uptime_seconds |-> Top(4), rx_frames |-> Top(4),
   tx_frames |-> Top(4), protocol_errors |-> Top(4), last_error |-> << 13 >>]

(* The identity: its model has 1 to MODEL_MAX characters, or service_init  *)
(* refuses it.                                                             *)
MODEL_MAX == 32
device_identity_t ==
  [firmware_major |-> Top(1), firmware_minor |-> Top(1), firmware_patch |-> Top(1),
   device_id |-> Top(4), model |-> [i \in 1 .. MODEL_MAX |-> 71]]
device_service_init(identity) == Len(identity.model) \in 1 .. MODEL_MAX

(* Without a session the rest of it reads as zero.                         *)
security_status(s) ==
  IF s.active # << 0 >> THEN s
  ELSE [s EXCEPT !.active_role = << 0 >>, !.session_id = Zero(4),
                 !.next_counter = Zero(8), !.remaining_seconds = Zero(2)]

(* Without a candidate the manifest reads as zero.                         *)
firmware_status(s) ==
  IF s.candidate_version_counter # Zero(4) THEN s
  ELSE [s EXCEPT !.signature_algorithm = << 0 >>, !.bytes_received = Zero(4),
                 !.image_size = Zero(4), !.key_id = Zero(4),
                 !.firmware_major = Zero(2), !.firmware_minor = Zero(2),
                 !.firmware_patch = Zero(2)]
---------------------------------------------------------------------------
(* Where the firmware writes each field: its offset and width.             *)
dsp_encode_payload ==
  [schema |-> << 0, 1 >>, reserved |-> << 1, 1 >>, block_sequence |-> << 2, 4 >>,
   sample_rate_hz |-> << 6, 2 >>, rms_mg |-> << 8, 2 >>, peak_mg |-> << 10, 2 >>,
   crest_factor_milli |-> << 12, 2 >>, dominant_frequency_centi_hz |-> << 14, 4 >>,
   dominant_peak_mg |-> << 18, 2 >>, spectral_centroid_centi_hz |-> << 20, 4 >>,
   low_band_permille |-> << 24, 2 >>, mid_band_permille |-> << 26, 2 >>,
   high_band_permille |-> << 28, 2 >>, acquisition_status_flags |-> << 30, 2 >>]

health_encode_status_payload ==
  [schema |-> << 0, 1 >>, state |-> << 1, 1 >>, baseline_samples |-> << 2, 2 >>,
   baseline_target |-> << 4, 2 >>, anomaly_score |-> << 6, 2 >>,
   health_score |-> << 8, 2 >>, max_deviation_milli |-> << 10, 2 >>,
   dominant_feature |-> << 12, 1 >>, consecutive_anomalous |-> << 13, 1 >>,
   quality_flags |-> << 14, 2 >>, block_sequence |-> << 16, 4 >>,
   current_rms_mg |-> << 20, 2 >>, current_crest_factor_milli |-> << 22, 2 >>,
   current_dominant_frequency_centi_hz |-> << 24, 4 >>,
   baseline_rms_mean_mg |-> << 28, 2 >>, baseline_rms_std_mg |-> << 30, 2 >>,
   exceeded_feature_mask |-> << 32, 2 >>, rejected_inputs |-> << 34, 2 >>]

control_encode_status_payload ==
  [schema |-> << 0, 1 >>, state |-> << 1, 1 >>, supervision_enabled |-> << 2, 1 >>,
   local_run_request |-> << 3, 1 >>, run_permit |-> << 4, 1 >>,
   interlock_closed |-> << 5, 1 >>, health_state |-> << 6, 1 >>,
   output_available |-> << 7, 1 >>, latched_faults |-> << 8, 2 >>,
   active_faults |-> << 10, 2 >>, health_score |-> << 12, 2 >>,
   anomaly_score |-> << 14, 2 >>, transition_count |-> << 16, 4 >>,
   fault_latch_count |-> << 20, 4 >>, last_transition_reason |-> << 24, 1 >>,
   reserved |-> << 25, 1 >>, reserved2 |-> << 26, 2 >>]

security_encode_status_payload ==
  [schema |-> << 0, 1 >>, configured |-> << 1, 1 >>, active |-> << 2, 1 >>,
   active_role |-> << 3, 1 >>, session_id |-> << 4, 4 >>, next_counter |-> << 8, 8 >>,
   timeout_seconds |-> << 16, 2 >>, remaining_seconds |-> << 18, 2 >>,
   auth_successes |-> << 20, 4 >>, auth_failures |-> << 24, 4 >>,
   replay_rejections |-> << 28, 4 >>, unauthorized_rejections |-> << 32, 4 >>]

firmware_encode_status_payload ==
  [schema |-> << 0, 1 >>, state |-> << 1, 1 >>, failure |-> << 2, 1 >>,
   signature_algorithm |-> << 3, 1 >>, active_version_counter |-> << 4, 4 >>,
   rollback_floor |-> << 8, 4 >>, candidate_version_counter |-> << 12, 4 >>,
   bytes_received |-> << 16, 4 >>, image_size |-> << 20, 4 >>, key_id |-> << 24, 4 >>,
   firmware_major |-> << 28, 2 >>, firmware_minor |-> << 30, 2 >>,
   firmware_patch |-> << 32, 2 >>]

telemetry_payload ==
  [schema |-> << 0, 1 >>, state |-> << 1, 1 >>, timestamp_ms |-> << 2, 4 >>,
   temperature_centi_c |-> << 6, 2 >>, vibration_mg_rms |-> << 8, 2 >>,
   current_ma |-> << 10, 2 >>, rpm |-> << 12, 2 >>, supply_mv |-> << 14, 2 >>,
   status_flags |-> << 16, 2 >>]

device_status_payload ==
  [schema |-> << 0, 1 >>, state |-> << 1, 1 >>, uptime_seconds |-> << 2, 4 >>,
   rx_frames |-> << 6, 4 >>, tx_frames |-> << 10, 4 >>, protocol_errors |-> << 14, 4 >>,
   last_error |-> << 18, 1 >>]

device_info_payload ==
  [schema |-> << 0, 1 >>, firmware_major |-> << 1, 1 >>, firmware_minor |-> << 2, 1 >>,
   firmware_patch |-> << 3, 1 >>, device_id |-> << 4, 4 >>, model_length |-> << 8, 1 >>]

(* Every schema is version 1 and every reserved field zero; a byte nobody  *)
(* writes keeps what the frame held before.                                *)
Fixed == [schema |-> << 1 >>, reserved |-> << 0 >>, reserved2 |-> << 0, 0 >>]
Stale == 170

Encode(writes, length, fields) ==
  LET all == fields @@ Fixed
  IN [i \in 1 .. length |->
        LET here == {f \in DOMAIN writes : i - writes[f][1] \in 1 .. writes[f][2]}
        IN IF here = {} THEN Stale
           ELSE LET f == CHOOSE f \in here : \A g \in here : writes[g][1] <= writes[f][1]
                IN all[f][Len(all[f]) - writes[f][2] + i - writes[f][1]]]
---------------------------------------------------------------------------
(* The host's struct formats: the fields in order, with their widths.      *)
DSP_FEATURES_STRUCT ==
  << << "schema", 1 >>, << "reserved", 1 >>, << "block_sequence", 4 >>,
     << "sample_rate_hz", 2 >>, << "rms_mg", 2 >>, << "peak_mg", 2 >>,
     << "crest_factor_milli", 2 >>, << "dominant_frequency_centi_hz", 4 >>,
     << "dominant_peak_mg", 2 >>, << "spectral_centroid_centi_hz", 4 >>,
     << "low_band_permille", 2 >>, << "mid_band_permille", 2 >>,
     << "high_band_permille", 2 >>, << "acquisition_status_flags", 2 >> >>

HEALTH_STATUS_STRUCT ==
  << << "schema", 1 >>, << "state", 1 >>, << "baseline_samples", 2 >>,
     << "baseline_target", 2 >>, << "anomaly_score", 2 >>, << "health_score", 2 >>,
     << "max_deviation_milli", 2 >>, << "dominant_feature", 1 >>,
     << "consecutive_anomalous", 1 >>, << "quality_flags", 2 >>,
     << "block_sequence", 4 >>, << "current_rms_mg", 2 >>,
     << "current_crest_factor_milli", 2 >>,
     << "current_dominant_frequency_centi_hz", 4 >>, << "baseline_rms_mean_mg", 2 >>,
     << "baseline_rms_std_mg", 2 >>, << "exceeded_feature_mask", 2 >>,
     << "rejected_inputs", 2 >> >>

CONTROL_STATUS_STRUCT ==
  << << "schema", 1 >>, << "state", 1 >>, << "supervision_enabled", 1 >>,
     << "local_run_request", 1 >>, << "run_permit", 1 >>, << "interlock_closed", 1 >>,
     << "health_state", 1 >>, << "output_available", 1 >>, << "latched_faults", 2 >>,
     << "active_faults", 2 >>, << "health_score", 2 >>, << "anomaly_score", 2 >>,
     << "transition_count", 4 >>, << "fault_latch_count", 4 >>,
     << "last_transition_reason", 1 >>, << "reserved", 1 >>, << "reserved2", 2 >> >>

SECURITY_STATUS ==
  << << "schema", 1 >>, << "configured", 1 >>, << "active", 1 >>,
     << "active_role", 1 >>, << "session_id", 4 >>, << "next_counter", 8 >>,
     << "timeout_seconds", 2 >>, << "remaining_seconds", 2 >>,
     << "auth_successes", 4 >>, << "auth_failures", 4 >>,
     << "replay_rejections", 4 >>, << "unauthorized_rejections", 4 >> >>

FIRMWARE_STATUS ==
  << << "schema", 1 >>, << "state", 1 >>, << "failure", 1 >>,
     << "signature_algorithm", 1 >>, << "active_version_counter", 4 >>,
     << "rollback_floor", 4 >>, << "candidate_version_counter", 4 >>,
     << "bytes_received", 4 >>, << "image_size", 4 >>, << "key_id", 4 >>,
     << "firmware_major", 2 >>, << "firmware_minor", 2 >>, << "firmware_patch", 2 >> >>

MACHINE_TELEMETRY_STRUCT ==
  << << "schema", 1 >>, << "state", 1 >>, << "timestamp_ms", 4 >>,
     << "temperature_centi_c", 2 >>, << "vibration_mg_rms", 2 >>, << "current_ma", 2 >>,
     << "rpm", 2 >>, << "supply_mv", 2 >>, << "status_flags", 2 >> >>

DEVICE_STATUS_STRUCT ==
  << << "schema", 1 >>, << "state", 1 >>, << "uptime_seconds", 4 >>, << "rx_frames", 4 >>,
     << "tx_frames", 4 >>, << "protocol_errors", 4 >>, << "last_error", 1 >> >>

DEVICE_INFO_PREFIX ==
  << << "schema", 1 >>, << "firmware_major", 1 >>, << "firmware_minor", 1 >>,
     << "firmware_patch", 1 >>, << "device_id", 4 >>, << "model_length", 1 >> >>

BASELINE_CONTROL_STRUCT == << << "schema", 1 >>, << "action", 1 >>, << "target", 2 >> >>

CONTROL_COMMAND_RESPONSE_STRUCT ==
  << << "schema", 1 >>, << "action", 1 >>, << "state", 1 >>, << "run_permit", 1 >> >>

(* The bytes up to field i, and struct.unpack.                             *)
Before(struct, i) ==
  LET sum[k \in 0 .. i - 1] == IF k = 0 THEN 0 ELSE sum[k - 1] + struct[k][2]
  IN sum[i - 1]

Unpack(struct, bytes) ==
  [f \in {struct[i][1] : i \in DOMAIN struct} |->
     LET i == CHOOSE i \in DOMAIN struct : struct[i][1] = f
     IN SubSeq(bytes, Before(struct, i) + 1, Before(struct, i) + struct[i][2])]

Number(bytes) == IF Len(bytes) = 1 THEN bytes[1] ELSE read_u16_be(bytes, 1)

(* The values the decoders take; they refuse the payload otherwise.        *)
Accepted ==
  [dsp |-> << >>,
   health |-> [state |-> 4, anomaly_score |-> 1000, health_score |-> 1000],
   control |-> [state |-> 4, health_state |-> 4, supervision_enabled |-> 1,
                local_run_request |-> 1, run_permit |-> 1, interlock_closed |-> 1,
                output_available |-> 1, health_score |-> 1000, anomaly_score |-> 1000],
   security |-> [configured |-> 1, active |-> 1, active_role |-> 3],
   firmware |-> [state |-> 6, failure |-> 9],
   telemetry |-> [state |-> 4],
   device |-> [state |-> 4],
   info |-> [model_length |-> 32],
   baseline |-> [action |-> 2, target |-> 1024],
   command |-> [action |-> 3, state |-> 4, run_permit |-> 1]]

(* A refused payload reads as nothing.                                     *)
Nothing == [refused |-> TRUE]

Decode(kind, struct, bytes) ==
  LET r == Unpack(struct, bytes)
  IN IF /\ Len(bytes) = Before(struct, Len(struct) + 1)
        /\ \A f \in DOMAIN r \cap DOMAIN Fixed : r[f] = Fixed[f]
        /\ \A f \in DOMAIN Accepted[kind] : Number(r[f]) <= Accepted[kind][f]
       THEN r ELSE Nothing

(* DEVICE_INFO is a prefix and the model, as long as the prefix says.      *)
decode_device_info(bytes) ==
  LET size == Before(DEVICE_INFO_PREFIX, Len(DEVICE_INFO_PREFIX) + 1)
      prefix == Decode("info", DEVICE_INFO_PREFIX, SubSeq(bytes, 1, size))
  IN IF Len(bytes) <= size \/ prefix = Nothing THEN Nothing
     ELSE IF \/ prefix.model_length[1] = 0
             \/ Len(bytes) # size + prefix.model_length[1] THEN Nothing
     ELSE prefix @@ [model |-> SubSeq(bytes, size + 1, Len(bytes))]
---------------------------------------------------------------------------
(* Every report: the command it answers, what the device holds, where it   *)
(* writes it, and how the host reads it.                                   *)
Report ==
  [dsp |-> [command |-> COMMAND.GET_DSP_FEATURES, fields |-> dsp_features_t,
            writes |-> dsp_encode_payload, length |-> 32, struct |-> DSP_FEATURES_STRUCT],
   health |-> [command |-> COMMAND.GET_HEALTH_STATUS, fields |-> health_status_t,
               writes |-> health_encode_status_payload, length |-> 36,
               struct |-> HEALTH_STATUS_STRUCT],
   control |-> [command |-> COMMAND.GET_CONTROL_STATUS, fields |-> control_status_t,
                writes |-> control_encode_status_payload, length |-> 28,
                struct |-> CONTROL_STATUS_STRUCT],
   security |-> [command |-> COMMAND.GET_SECURITY_STATUS, fields |-> security_status_t,
                 writes |-> security_encode_status_payload, length |-> 36,
                 struct |-> SECURITY_STATUS],
   firmware |-> [command |-> COMMAND.GET_FIRMWARE_STATUS, fields |-> firmware_status_t,
                 writes |-> firmware_encode_status_payload, length |-> 34,
                 struct |-> FIRMWARE_STATUS],
   telemetry |-> [command |-> COMMAND.MACHINE_TELEMETRY, fields |-> machine_measurements_t,
                  writes |-> telemetry_payload, length |-> 18,
                  struct |-> MACHINE_TELEMETRY_STRUCT],
   device |-> [command |-> COMMAND.GET_STATUS, fields |-> device_runtime_t,
               writes |-> device_status_payload, length |-> 19,
               struct |-> DEVICE_STATUS_STRUCT],
   info |-> [command |-> COMMAND.DEVICE_INFO, fields |-> device_identity_t,
             writes |-> device_info_payload, length |-> 9, struct |-> DEVICE_INFO_PREFIX]]

(* Nothing, everything, or one field of it at its largest.                 *)
Statuses(kind) ==
  LET top == Report[kind].fields
      at(S) == [f \in DOMAIN top |-> IF f \in S THEN top[f] ELSE Zero(Len(top[f]))]
  IN {at({}), top} \cup {at({f}) : f \in DOMAIN top}

Encoded(kind, fields) == Encode(Report[kind].writes, Report[kind].length, fields)

(* The device service: its refusals are LinkService's.                     *)
info_report(identity) ==
  Encoded("info", identity @@ [model_length |-> << Len(identity.model) >>]) \o identity.model

service_report(request, kind, fields) ==
  IF service_handle(request, 0).type = MESSAGE.ERROR THEN service_handle(request, 0)
  ELSE make_response(request, IF kind = "info" THEN info_report(fields)
                              ELSE Encoded(kind, fields))

dsp_handle_request(request, fields, valid) ==
  IF request.command # COMMAND.GET_DSP_FEATURES
    THEN make_error(request, ERROR.UNKNOWN_COMMAND)
  ELSE IF request.type # MESSAGE.REQUEST THEN make_error(request, ERROR.MALFORMED_FRAME)
  ELSE IF request.payload # << >> THEN make_error(request, ERROR.INVALID_PAYLOAD)
  ELSE IF ~valid THEN make_error(request, ERROR.BUSY)
  ELSE make_response(request, Encoded("dsp", fields))

BASELINE_ACTION == [START |-> 1, RESET |-> 2]
CONTROL_ACTION == [ARM |-> 1, DISARM |-> 2, CLEAR_FAULT |-> 3]

baseline_refused(p) ==
  \/ Len(p) # 4
  \/ p[1] # 1
  \/ /\ p[2] = BASELINE_ACTION.START
     /\ read_u16_be(p, 3) \notin 16 .. 1024
  \/ p[2] = BASELINE_ACTION.RESET /\ read_u16_be(p, 3) # 0
  \/ \A a \in DOMAIN BASELINE_ACTION : p[2] # BASELINE_ACTION[a]

health_handle_request(request, fields) ==
  LET p == request.payload
  IN IF request.type # MESSAGE.REQUEST THEN make_error(request, ERROR.MALFORMED_FRAME)
     ELSE IF request.command = COMMAND.GET_HEALTH_STATUS
       THEN IF p # << >> THEN make_error(request, ERROR.INVALID_PAYLOAD)
            ELSE make_response(request, Encoded("health", fields))
     ELSE IF baseline_refused(p) THEN make_error(request, ERROR.INVALID_PAYLOAD)
     ELSE make_response(request, p)

command_refused(p) ==
  Len(p) # 2 \/ p[1] # 1 \/ \A a \in DOMAIN CONTROL_ACTION : p[2] # CONTROL_ACTION[a]

CONTROL_RESULTS == {"OK", "DENIED", "OUTPUT"}

control_handle_request(request, fields, result) ==
  LET p == request.payload
  IN IF request.type # MESSAGE.REQUEST THEN make_error(request, ERROR.MALFORMED_FRAME)
     ELSE IF request.command = COMMAND.GET_CONTROL_STATUS
       THEN IF p # << >> THEN make_error(request, ERROR.INVALID_PAYLOAD)
            ELSE make_response(request, Encoded("control", fields))
     ELSE IF command_refused(p) THEN make_error(request, ERROR.INVALID_PAYLOAD)
     ELSE IF result = "DENIED" THEN make_error(request, ERROR.BUSY)
     ELSE IF result = "OUTPUT" THEN make_error(request, ERROR.INTERNAL)
     ELSE make_response(request, << 1, p[2] >> \o fields.state \o fields.run_permit)

(* The link reports security and firmware itself, whatever the frame's     *)
(* type: its own dispatch has no test of it.                               *)
status_handle(request, kind, fields) ==
  IF request.payload # << >> THEN make_error(request, ERROR.INVALID_PAYLOAD)
  ELSE make_response(request, Encoded(kind, fields))
---------------------------------------------------------------------------
Unread == << >>

ReportsInit == query = NoRequest /\ status = << >> /\ answer = NoRequest /\ read = Unread

(* Requests of a command, right and wrong.                                 *)
Queries(command) ==
  [type : {MESSAGE.REQUEST, MESSAGE.EVENT}, command : {command}, flags : {SUPPORTED_FLAGS},
   sequence : {1},
   payload : {<< >>, << 1 >>, << 1, 1 >>, << 1, 3 >>, << 1, 4 >>, << 2, 1 >>,
              << 1, 1, 0, 16 >>, << 1, 1, 4, 0 >>, << 1, 1, 4, 1 >>, << 1, 2, 0, 0 >>,
              << 1, 2, 0, 16 >>, << 1, 3, 0, 0 >>, << 2, 1, 0, 16 >>}]

Answer(q, fields, frame) ==
  /\ answer = NoRequest
  /\ query' = q /\ status' = fields /\ answer' = frame
  /\ UNCHANGED read

AnswerDsp ==
  \E q \in Queries(COMMAND.GET_DSP_FEATURES), s \in Statuses("dsp"), valid \in BOOLEAN :
    Answer(q, s, dsp_handle_request(q, s, valid))

AnswerHealth ==
  \E command \in {COMMAND.GET_HEALTH_STATUS, COMMAND.BASELINE_CONTROL} :
  \E q \in Queries(command), s \in Statuses("health") :
    Answer(q, s, health_handle_request(q, s))

AnswerControl ==
  \E command \in {COMMAND.GET_CONTROL_STATUS, COMMAND.CONTROL_COMMAND} :
  \E q \in Queries(command), s \in Statuses("control"), result \in CONTROL_RESULTS :
    Answer(q, s, control_handle_request(q, s, result))

AnswerSecurity ==
  \E q \in Queries(COMMAND.GET_SECURITY_STATUS), raw \in Statuses("security") :
    LET s == security_status(raw) IN Answer(q, s, status_handle(q, "security", s))

AnswerFirmware ==
  \E q \in Queries(COMMAND.GET_FIRMWARE_STATUS), raw \in Statuses("firmware") :
    LET s == firmware_status(raw) IN Answer(q, s, status_handle(q, "firmware", s))

AnswerStatus ==
  \E q \in Queries(COMMAND.GET_STATUS), s \in Statuses("device") :
    Answer(q, s, service_report(q, "device", s))

AnswerInfo ==
  \E q \in Queries(COMMAND.DEVICE_INFO), s \in Statuses("info"), n \in {1, 16, MODEL_MAX} :
    LET identity == [s EXCEPT !.model = SubSeq(device_identity_t.model, 1, n)]
    IN /\ device_service_init(identity)
       /\ Answer(q, identity, service_report(q, "info", identity))

MakeTelemetry ==
  \E s \in Statuses("telemetry") :
    Answer(NoRequest, s,
           [telemetry_frame(telemetry_init, s.state[1]) EXCEPT
              !.payload = Encoded("telemetry", s)])

(* The host: an ERROR frame raises, any other is decoded.                  *)
kind_of(command) == CHOOSE k \in DOMAIN Report : Report[k].command = command

decode_answer(frame) ==
  IF frame.type = MESSAGE.ERROR THEN Nothing
  ELSE IF frame.command = COMMAND.BASELINE_CONTROL
    THEN Decode("baseline", BASELINE_CONTROL_STRUCT, frame.payload)
  ELSE IF frame.command = COMMAND.CONTROL_COMMAND
    THEN Decode("command", CONTROL_COMMAND_RESPONSE_STRUCT, frame.payload)
  ELSE IF frame.command = COMMAND.DEVICE_INFO THEN decode_device_info(frame.payload)
  ELSE Decode(kind_of(frame.command), Report[kind_of(frame.command)].struct, frame.payload)

HostReads ==
  /\ answer # NoRequest /\ read = Unread
  /\ read' = decode_answer(answer)
  /\ UNCHANGED << query, status, answer >>

ReportsNext ==
  \/ AnswerDsp \/ AnswerHealth \/ AnswerControl \/ AnswerSecurity \/ AnswerFirmware
  \/ AnswerStatus \/ AnswerInfo \/ MakeTelemetry \/ HostReads
---------------------------------------------------------------------------
(* The host reads every report the device can make, refuses none, and      *)
(* finds in each field what the device had there: the offsets and widths   *)
(* of the C code and the struct formats of the Python code agree, no byte  *)
(* is left unwritten, and the ranges the host insists on are the device's. *)
(* Only dsp_status_flags never leaves the device.                          *)
ReadAsReported ==
  read # Unread =>
    IF answer.type = MESSAGE.ERROR THEN read = Nothing
    ELSE IF answer.command = COMMAND.BASELINE_CONTROL
      THEN read = [schema |-> << 1 >>, action |-> << query.payload[2] >>,
                   target |-> SubSeq(query.payload, 3, 4)]
    ELSE IF answer.command = COMMAND.CONTROL_COMMAND
      THEN read = [schema |-> << 1 >>, action |-> << query.payload[2] >>,
                   state |-> status.state, run_permit |-> status.run_permit]
    ELSE LET fields == DOMAIN read \ (DOMAIN Fixed \cup {"model_length"})
         IN /\ fields = DOMAIN status \ {"dsp_status_flags"}
            /\ \A f \in fields : read[f] = status[f]

(* The link's own view of these components, component_handle, leaves out   *)
(* none of their answers.                                                  *)
AnswersAsDispatched ==
  query.command \in {COMMAND.GET_DSP_FEATURES, COMMAND.GET_HEALTH_STATUS,
                     COMMAND.GET_CONTROL_STATUS, COMMAND.BASELINE_CONTROL,
                     COMMAND.CONTROL_COMMAND} =>
    \E a \in component_handle(query) :
      a.type = answer.type /\ (a.type = MESSAGE.ERROR => a = answer)
=============================================================================
