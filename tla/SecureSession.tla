--------------------------- MODULE SecureSession ---------------------------
(***************************************************************************)
(* Authenticated sessions of guardian_security.c as guardian_embedded_link *)
(* drives them, with the host side of security_client.py, over a link that *)
(* may lose, delay, repeat and reorder frames and on which several host    *)
(* processes share one device.                                             *)
(*                                                                         *)
(* HMAC-SHA-256 is injective: a MAC is the record it covers, labelled with *)
(* its purpose.  Frames that do not verify (noise, truncation) carry Bad.  *)
(* An ERROR frame and a timeout raise the same exception at the host, so   *)
(* ERROR frames are not put on the link: HostFails stands for both.        *)
(***************************************************************************)
EXTENDS Integers, Sequences, FiniteSets

CONSTANTS
  Hosts,            \* host processes sharing the key
  Role,             \* Role[h]: the role a host asks for
  MaxRole,          \* config.max_role
  SessionIds,       \* 32-bit session identifiers; they may repeat
  Commands,         \* privileged inner commands
  RequiredRole,     \* RequiredRole[c]: the role guardian_security_authorize wants
  CounterMod,       \* 2^64 in the code
  SessionTimeout, PendingTimeout, MaxTime,
  MaxClientNonce,   \* bound on client nonces (handshakes begun)
  MaxDeviceNonce,   \* bound on device nonces (challenges issued)
  Bad,              \* a proof or tag that is no MAC of this key
  None              \* no key, no frame, no command

Roles == 1 .. 3

ASSUME SessionAssumption ==
  /\ Role \in [Hosts -> Roles] /\ MaxRole \in Roles
  /\ \A c \in Commands : RequiredRole[c] \in Roles
  /\ CounterMod \in Nat \ {0, 1}
  /\ SessionTimeout \in Nat \ {0} /\ PendingTimeout \in Nat \ {0}
  /\ MaxTime \in Nat /\ MaxClientNonce \in Nat /\ MaxDeviceNonce \in Nat

\* The codes of the handshake with one label, and the tags of requests under
\* the session keys among them.
Macs(label) ==
  [label : {label}, role : Roles, sid : SessionIds, client : Nat \cup {Bad},
   device : Nat]

RequestTags ==
  [label : {"REQUEST"}, key : Macs("SESSION"), sid : SessionIds, counter : Nat,
   seq : Nat, cmd : Commands]

\* Who does not hold the key makes up no code: HMAC-SHA-256 is unforgeable.
ASSUME BadIsNoMac == Bad \notin Macs("CLIENT") /\ Bad \notin RequestTags

ASSUME NoneIsNoKey == None \notin Macs("SESSION")

VARIABLES
  dev,    \* guardian_security_t: configured, pending challenge, session
  host,   \* host[h]: GuardianSecuritySession and the exchange under way
  reqs,   \* request frames ever put on the link
  resps,  \* response frames ever put on the link
  now,    \* uptime_seconds
  cn,     \* client nonces drawn so far
  dn,     \* device nonces drawn so far
  log,    \* privileged commands the device dispatched, in order
  done    \* request frames whose command a host reported as carried out

vars == <<dev, host, reqs, resps, now, cn, dn, log, done>>

----------------------------------------------------------------------------
(* Transcripts.                                                            *)

handshake_mac(label, role, sid, client_nonce, device_nonce) ==
  [label |-> label, role |-> role, sid |-> sid,
   client |-> client_nonce, device |-> device_nonce]

request_tag(key, f) ==
  [label |-> "REQUEST", key |-> key, sid |-> f.sid, counter |-> f.counter,
   seq |-> f.seq, cmd |-> f.cmd]

response_tag(key, f) ==
  [label |-> "RESPONSE", key |-> key, sid |-> f.sid, counter |-> f.counter,
   seq |-> f.seq, kind |-> f.kind, cmd |-> f.cmd]

NoPending == [valid |-> FALSE]
NoSession == [valid |-> FALSE]

----------------------------------------------------------------------------
(* The device.                                                             *)

expire_pending(p) ==
  IF p.valid /\ now - p.started >= PendingTimeout THEN NoPending ELSE p

expire_session(s) ==
  IF s.valid /\ now - s.last >= SessionTimeout THEN NoSession ELSE s

\* Mutant: any authenticated session may do anything.
authorize_any(s, cmd) == s.valid

\* guardian_security_authorize
authorize(s, cmd) == s.valid /\ s.role >= RequiredRole[cmd]

\* guardian_security_init at power-up.
security_init == [configured |-> FALSE, pending |-> NoPending, session |-> NoSession]

\* A new GuardianSecuritySession with its own SequenceManager.
NewSession == [pc |-> "idle", seq |-> 1, key |-> None, sid |-> None, next |-> 1,
               frame |-> None, cmd |-> None]

Init ==
  /\ dev = security_init
  /\ host = [h \in Hosts |-> NewSession]
  /\ reqs = {} /\ resps = {}
  /\ now = 0 /\ cn = 0 /\ dn = 0
  /\ log = <<>> /\ done = {}

\* guardian_security_configure: provisioning wipes pending and session state.
SecurityConfigure ==
  /\ ~dev.configured
  /\ dev' = [security_init EXCEPT !.configured = TRUE]
  /\ UNCHANGED <<host, reqs, resps, now, cn, dn, log, done>>

\* The challenge auth_begin leaves pending, over whatever was pending before.
pending_challenge(f, sid, device_nonce) ==
  [valid |-> TRUE, role |-> f.role, sid |-> sid, client |-> f.client,
   device |-> device_nonce, started |-> now]

\* The answer to AUTH_BEGIN: the challenge with the device's proof of the key.
server_challenge(f, p) ==
  [type |-> "challenge", seq |-> f.seq, role |-> p.role, sid |-> p.sid, device |-> p.device,
   proof |-> handshake_mac("SERVER", p.role, p.sid, p.client, p.device)]

\* AUTH_BEGIN.  The nonce source gives fresh device nonces and any session
\* identifier; it may also fail, which leaves the old challenge in place.
AuthBegin(f) ==
  /\ f.type = "begin"
  /\ dev.configured /\ f.role <= MaxRole
  /\ \/ /\ dn < MaxDeviceNonce
        /\ dn' = dn + 1
        /\ \E sid \in SessionIds :
             /\ dev' = [dev EXCEPT !.pending = pending_challenge(f, sid, dn')]
             /\ resps' = resps \cup {server_challenge(f, dev'.pending)}
     \/ /\ dev' = [dev EXCEPT !.pending = expire_pending(dev.pending)]
        /\ UNCHANGED <<dn, resps>>
  /\ UNCHANGED <<host, reqs, now, cn, log, done>>

\* Mutant: the proof is compared only after the old session was replaced.
finish_accepts_unproved(f, p) ==
  p.valid /\ f.role = p.role /\ f.sid = p.sid

\* The checks of auth_finish against the challenge that is still pending.
finish_accepts(f, p) ==
  /\ p.valid
  /\ f.role = p.role /\ f.sid = p.sid
  /\ f.proof = handshake_mac("CLIENT", p.role, p.sid, p.client, p.device)

\* The session a proved challenge opens, counting from one.
open_session(p) ==
  [valid |-> TRUE, role |-> p.role, sid |-> p.sid,
   key |-> handshake_mac("SESSION", p.role, p.sid, p.client, p.device),
   next |-> 1, last |-> now]

\* The answer to AUTH_FINISH carries no MAC.
authenticated_response(f, p) ==
  [type |-> "authenticated", seq |-> f.seq, role |-> p.role, sid |-> p.sid]

\* AUTH_FINISH.  A wrong role, identifier or proof consumes the challenge; a
\* right one replaces the session.
AuthFinish(f) ==
  /\ f.type = "finish"
  /\ dev.configured
  /\ LET p == expire_pending(dev.pending)
     IN  IF finish_accepts(f, p)
         THEN /\ dev' = [dev EXCEPT
                   !.pending = NoPending,
                   !.session = open_session(p)]
              /\ resps' = resps \cup {authenticated_response(f, p)}
         ELSE /\ dev' = [dev EXCEPT !.pending = NoPending]
              /\ UNCHANGED resps
  /\ UNCHANGED <<host, reqs, now, cn, dn, log, done>>

\* A malformed AUTH_FINISH or a GET_SECURITY_STATUS query expires what is stale.
Expire ==
  /\ dev' = [dev EXCEPT !.pending = expire_pending(dev.pending),
                        !.session = expire_session(dev.session)]
  /\ dev' # dev
  /\ UNCHANGED <<host, reqs, resps, now, cn, dn, log, done>>

\* The session after unwrap_request consumed counter s.next; a wrapped counter
\* closes the session.
consumed(s) ==
  LET next == (s.next + 1) % CounterMod
  IN  IF next = 0 THEN NoSession ELSE [s EXCEPT !.next = next, !.last = now]

unwrap_result(f, s) ==
  IF ~s.valid \/ f.sid # s.sid \/ f.tag # request_tag(s.key, f) THEN "UNAUTHORIZED"
  ELSE IF f.counter # s.next \/ ~consumed(s).valid THEN "REPLAY"
  ELSE "OK"

\* Mutant: a request is accepted without consuming its counter.
unwrap_session_reuse(f, s) == s

\* The session that unwrap_request leaves behind.
unwrap_session(f, s) ==
  IF s.valid /\ f.sid = s.sid /\ f.tag = request_tag(s.key, f) /\ f.counter = s.next
  THEN consumed(s) ELSE s

\* guardian_security_wrap_response: the inner answer, tagged for its request.
wrap_response(s, f, kind) ==
  LET r == [type |-> "secure_response", seq |-> f.seq, sid |-> f.sid,
            counter |-> f.counter, cmd |-> f.cmd, kind |-> kind]
  IN  [type |-> r.type, seq |-> r.seq, sid |-> r.sid, counter |-> r.counter,
       cmd |-> r.cmd, kind |-> r.kind, tag |-> response_tag(s.key, r)]

\* SECURE_COMMAND: unwrap, authorize, dispatch, wrap the response.
SecureCommand(f) ==
  /\ f.type = "secure"
  /\ LET s == expire_session(dev.session)
         allowed == authorize(s, f.cmd)
     IN  /\ dev' = [dev EXCEPT !.session = unwrap_session(f, s)]
         /\ IF unwrap_result(f, s) = "OK"
            THEN /\ log' = IF allowed THEN Append(log, f) ELSE log
                 /\ resps' = resps \cup
                      {wrap_response(s, f, IF allowed THEN "RESPONSE" ELSE "ERROR")}
            ELSE UNCHANGED <<log, resps>>
  /\ UNCHANGED <<host, reqs, now, cn, dn, done>>

\* A frame of the link, new or old, reaches the device once more.
Receive == \E f \in reqs : AuthBegin(f) \/ AuthFinish(f) \/ SecureCommand(f)

\* Frames that verify for no key: noise and other parties on the link.
ReceiveNoise ==
  \/ \E role \in Roles : AuthBegin([type |-> "begin", seq |-> 0, role |-> role, client |-> Bad])
  \/ \E sid \in SessionIds, role \in Roles :
       AuthFinish([type |-> "finish", seq |-> 0, role |-> role, sid |-> sid, proof |-> Bad])
  \/ \E sid \in SessionIds, c \in 1 .. CounterMod - 1, cmd \in Commands :
       SecureCommand([type |-> "secure", seq |-> 0, sid |-> sid, counter |-> c,
                      cmd |-> cmd, tag |-> Bad])

DeviceReset ==
  /\ dev' = security_init
  /\ UNCHANGED <<host, reqs, resps, now, cn, dn, log, done>>

Tick ==
  /\ now < MaxTime
  /\ now' = now + 1
  /\ UNCHANGED <<dev, host, reqs, resps, cn, dn, log, done>>

----------------------------------------------------------------------------
(* A host process: GuardianSecuritySession.                                *)

active(h) == host[h].key # None

\* invalidate()
Invalidated(s) == [s EXCEPT !.key = None, !.sid = None, !.next = 1]

\* One request of an exchange; SequenceManager numbers it.
Send(h, f, pc, cmd) ==
  /\ reqs' = reqs \cup {f}
  /\ host' = [host EXCEPT ![h].pc = pc, ![h].frame = f, ![h].seq = @ + 1, ![h].cmd = cmd]

\* authenticate(), first half: cmd is the command waiting behind it, or None.
Authenticate(h, cmd) ==
  /\ host[h].pc = "idle" /\ cn < MaxClientNonce
  /\ cn' = cn + 1
  /\ Send(h, [type |-> "begin", seq |-> host[h].seq, role |-> Role[h], client |-> cn'],
          "begin", cmd)
  /\ UNCHANGED <<dev, resps, now, dn, log, done>>

\* The challenge is believed only with the proof of this transcript.
challenge_verifies(h, r) ==
  /\ r.role = Role[h]
  /\ r.proof = handshake_mac("SERVER", r.role, r.sid, host[h].frame.client, r.device)

\* authenticate(), second half: a verified challenge is answered.
OnChallenge(h, r) ==
  /\ host[h].pc = "begin" /\ r.type = "challenge" /\ r.seq = host[h].frame.seq
  /\ challenge_verifies(h, r)
  /\ Send(h, [type |-> "finish", seq |-> host[h].seq, role |-> r.role, sid |-> r.sid,
              proof |-> handshake_mac("CLIENT", r.role, r.sid,
                                      host[h].frame.client, r.device)],
          "finish", host[h].cmd)
  /\ UNCHANGED <<dev, resps, now, cn, dn, log, done>>

\* The acknowledgement of AUTH_FINISH carries no MAC; it must name the role and
\* the identifier of the challenge.
OnAuthenticated(h, r) ==
  /\ host[h].pc = "finish" /\ r.type = "authenticated" /\ r.seq = host[h].frame.seq
  /\ r.sid = host[h].frame.sid /\ r.role = host[h].frame.role
  /\ LET p == host[h].frame.proof
     IN  host' = [host EXCEPT ![h].pc = IF host[h].cmd = None THEN "idle" ELSE "ready",
                              ![h].sid = r.sid, ![h].next = 1,
                              ![h].key = handshake_mac("SESSION", p.role, p.sid,
                                                       p.client, p.device)]
  /\ UNCHANGED <<dev, reqs, resps, now, cn, dn, log, done>>

\* exchange(): one protected command under the session at hand.
Exchange(h, cmd) ==
  /\ \/ host[h].pc = "idle" /\ active(h)
     \/ host[h].pc = "ready" /\ cmd = host[h].cmd
  /\ LET u == [seq |-> host[h].seq, sid |-> host[h].sid, counter |-> host[h].next, cmd |-> cmd]
         f == [type |-> "secure", seq |-> u.seq, sid |-> u.sid, counter |-> u.counter,
               cmd |-> cmd, tag |-> request_tag(host[h].key, u)]
     IN  Send(h, f, "command", cmd)
  /\ UNCHANGED <<dev, resps, now, cn, dn, log, done>>

\* Mutant: a response is taken by its public fields, its tag unchecked.
response_verifies_untagged(h, r) ==
  r.sid = host[h].sid /\ r.counter = host[h].frame.counter /\ r.cmd = host[h].frame.cmd

\* A response is believed only if its tag, identifier, counter and command are
\* those of the request; only then the local counter moves on.
response_verifies(h, r) ==
  LET f == host[h].frame
  IN  /\ r.tag = response_tag(host[h].key, [r EXCEPT !.seq = f.seq])
      /\ r.sid = host[h].sid /\ r.counter = f.counter /\ r.cmd = f.cmd

OnSecureResponse(h, r) ==
  /\ host[h].pc = "command" /\ r.type = "secure_response" /\ r.seq = host[h].frame.seq
  /\ response_verifies(h, r)
  /\ host' = [host EXCEPT ![h].pc = "idle", ![h].next = @ + 1]
  /\ done' = IF r.kind = "RESPONSE" THEN done \cup {host[h].frame} ELSE done
  /\ UNCHANGED <<dev, reqs, resps, now, cn, dn, log>>

\* Timeouts, transport errors, ERROR frames and responses that do not verify.
\* exchange() forgets the session; authenticate() does so only for a response
\* it received and rejected, not when the transport raises.
HostFails(h) ==
  /\ host[h].pc \in {"begin", "finish", "command"}
  /\ \/ host' = [host EXCEPT ![h] = [Invalidated(@) EXCEPT !.pc = "idle"]]
     \/ /\ host[h].pc # "command"
        /\ host' = [host EXCEPT ![h].pc = "idle"]
  /\ UNCHANGED <<dev, reqs, resps, now, cn, dn, log, done>>

\* Every guardianctl invocation is a process of its own: it starts without a
\* session and numbers its requests from one again.
NewProcess(h) ==
  /\ host[h] # NewSession
  /\ host' = [host EXCEPT ![h] = NewSession]
  /\ UNCHANGED <<dev, reqs, resps, now, cn, dn, log, done>>

HostStep(h) ==
  \/ Authenticate(h, None)
  \/ \E cmd \in Commands : \/ ~active(h) /\ Authenticate(h, cmd)
                           \/ Exchange(h, cmd)
  \/ \E r \in resps : OnChallenge(h, r) \/ OnAuthenticated(h, r) \/ OnSecureResponse(h, r)
  \/ HostFails(h) \/ NewProcess(h)

Next ==
  \/ SecurityConfigure \/ Receive \/ ReceiveNoise \/ Expire
  \/ DeviceReset \/ Tick
  \/ \E h \in Hosts : HostStep(h)

Spec == Init /\ [][Next]_vars

----------------------------------------------------------------------------
(* Properties.                                                             *)

TypeOK ==
  /\ dev.configured \in BOOLEAN
  /\ dev.pending.valid => dev.pending.role \in 1 .. MaxRole
  /\ dev.session.valid => /\ dev.session.next \in 1 .. CounterMod - 1
                          /\ dev.session.role \in 1 .. MaxRole
  /\ \A h \in Hosts : host[h].pc \in {"idle", "begin", "finish", "ready", "command"}

\* No privileged command is carried out twice, whatever frames are repeated and
\* however often sessions are replaced, expire or are lost in a reset
\* (guardian_security_unwrap_request).
AtMostOnce ==
  \A i, j \in 1 .. Len(log) : i # j => log[i] # log[j]

\* Every command carried out was sent by a host whose own role suffices for it,
\* under a session that this host's handshake made (auth_finish, authorize).
OnlyAuthorized ==
  \A i \in 1 .. Len(log) :
    \E h \in Hosts :
      /\ log[i] \in reqs
      /\ log[i].tag.key.role = Role[h] /\ Role[h] >= RequiredRole[log[i].cmd]
      /\ Role[h] <= MaxRole

\* A host reports a command as carried out only if the device did carry out
\* that very request (exchange(), decode_secure_response).
ReportedIsExecuted == done \subseteq {log[i] : i \in 1 .. Len(log)}

\* A live session ends only by expiry, by the end of its counter range, by a
\* reset, or because a host proved itself anew; unauthenticated traffic never
\* ends it (auth_begin, auth_finish).
SessionOnlyReplacedByProof ==
  [][dev.session.valid /\ dev'.session # dev.session =>
       \/ now - dev.session.last >= SessionTimeout
       \/ dev' = security_init
       \/ dev.session.next = CounterMod - 1
       \/ dev'.session.valid /\ dev'.session.key = dev.session.key
            /\ dev'.session.next = dev.session.next + 1
       \/ \E f \in reqs : /\ f.type = "finish" /\ dev'.session.valid
                          /\ f.proof.client = dev'.session.key.client
                          /\ f.proof.device = dev'.session.key.device]_vars

\* No command is carried out in a session that has been idle for the timeout
\* (expire_session ahead of every use).
IdleSessionIsDead ==
  [][log' # log => now - dev.session.last < SessionTimeout]_vars

\* A session lives from its proof to its end and no longer: nothing
\* unauthenticated ends it, and nothing is executed in it once it is over.
SessionLifetime == SessionOnlyReplacedByProof /\ IdleSessionIsDead

----------------------------------------------------------------------------
(* A statement of the documentation that the code does not meet.           *)

\* "After an ambiguous transport failure, guardianctl discards local session
\* state and authenticates again." (GuardianSecuritySession.authenticate)
FailureDiscardsSession ==
  [][\A h \in Hosts :
       /\ host[h].pc \in {"begin", "finish", "command"} /\ host'[h].pc = "idle"
       /\ host'[h].key = host[h].key /\ host'[h].next = host[h].next
       => host'[h].key = None]_vars

=============================================================================
