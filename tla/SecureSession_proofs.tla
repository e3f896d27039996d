------------------------ MODULE SecureSession_proofs ------------------------
(***************************************************************************)
(* Proofs about SecureSession for every number of hosts, commands,         *)
(* sessions, nonces and frames, every counter width and every timeout.     *)
(*                                                                         *)
(* AtMostOnce is not inductive: it speaks of the log only, while the next  *)
(* command is kept out by the counter of the session.  The strengthening   *)
(* ties the two together through the device nonce: a challenge that is     *)
(* pending carries a nonce no executed command and no open session was     *)
(* made with, so the session it opens starts with an empty past; and of    *)
(* the open session's own commands only counters below the next one were   *)
(* executed.                                                               *)
(***************************************************************************)
EXTENDS SecureSession, TLAPS

BeginFrames == [type : {"begin"}, seq : Nat, role : Roles, client : Nat]

FinishFrames ==
  [type : {"finish"}, seq : Nat, role : Roles, sid : SessionIds,
   proof : Macs("CLIENT")]

SecureFrames ==
  [type : {"secure"}, seq : Nat, sid : SessionIds, counter : Nat,
   cmd : Commands, tag : RequestTags]

Challenges ==
  [type : {"challenge"}, seq : Nat, role : Roles, sid : SessionIds,
   device : Nat, proof : Macs("SERVER")]

Acknowledgements ==
  [type : {"authenticated"}, seq : Nat, role : Roles, sid : SessionIds]

ResponseTags ==
  [label : {"RESPONSE"}, key : Macs("SESSION"), sid : SessionIds,
   counter : Nat, seq : Nat, kind : {"RESPONSE", "ERROR"}, cmd : Commands]

SecureResponses ==
  [type : {"secure_response"}, seq : Nat, sid : SessionIds, counter : Nat,
   cmd : Commands, kind : {"RESPONSE", "ERROR"}, tag : ResponseTags]

Pendings ==
  [valid : {TRUE}, role : 1 .. MaxRole, sid : SessionIds,
   client : Nat \cup {Bad}, device : Nat, started : Nat]

Sessions ==
  [valid : {TRUE}, role : 1 .. MaxRole, sid : SessionIds,
   key : Macs("SESSION"), next : 1 .. CounterMod - 1, last : Nat]

\* The device: a session only when configured, under a key of its role, and a
\* pending challenge with a nonce of its own.
DevInv ==
  /\ dev \in [configured : BOOLEAN, pending : Pendings \cup {NoPending},
              session : Sessions \cup {NoSession}]
  /\ dn \in Nat /\ now \in Nat /\ cn \in Nat
  /\ ~dev.configured => dev.session = NoSession
  /\ dev.pending # NoPending => dev.pending.device <= dn
  /\ dev.session # NoSession =>
       /\ dev.session.key.role = dev.session.role
       /\ dev.session.key.device <= dn
  /\ dev.pending # NoPending /\ dev.session # NoSession =>
       dev.session.key.device # dev.pending.device

\* A request under a session: its tag covers it, and the key is of the role
\* that some host asked for.
Tagged(f) ==
  /\ f.tag = request_tag(f.tag.key, f)
  /\ \E h \in Hosts : f.tag.key.role = Role[h]

ReqInv ==
  /\ reqs \subseteq BeginFrames \cup FinishFrames \cup SecureFrames
  /\ \A f \in reqs : f \in SecureFrames => Tagged(f)

Frames == BeginFrames \cup FinishFrames \cup SecureFrames \cup {None}
Codes == Macs("SESSION") \cup {None}
Sids == SessionIds \cup {None}

HostRecords ==
  [pc : {"idle", "begin", "finish", "ready", "command"}, seq : Nat,
   key : Codes, sid : Sids, next : Nat, frame : Frames,
   cmd : Commands \cup {None}]

\* What a host holds: between the two halves of a handshake the frame it sent,
\* afterwards a key of its own role, during an exchange the tagged request.
HostOK(h) ==
  /\ host[h] \in HostRecords
  /\ host[h].key # None => /\ host[h].key \in Macs("SESSION")
                           /\ host[h].key.role = Role[h]
                           /\ host[h].sid \in SessionIds
  /\ host[h].pc = "begin" => host[h].frame \in BeginFrames
  /\ host[h].pc = "finish" => /\ host[h].frame \in FinishFrames
                              /\ host[h].frame.proof.role = Role[h]
  /\ host[h].pc = "ready" => host[h].key # None
  /\ host[h].pc = "command" =>
       /\ host[h].key # None /\ host[h].frame \in SecureFrames
       /\ host[h].frame.sid = host[h].sid
       /\ host[h].frame.tag = request_tag(host[h].key, host[h].frame)

HostInv == host = [h \in Hosts |-> host[h]] /\ \A h \in Hosts : HostOK(h)

\* What an executed command is, and how the device keeps it from coming back.
LogOK(f) ==
  /\ f \in reqs /\ f \in SecureFrames
  /\ f.tag.key.role >= RequiredRole[f.cmd] /\ f.tag.key.role <= MaxRole
  /\ f.tag.key.device <= dn
  /\ dev.pending # NoPending => f.tag.key.device # dev.pending.device
  /\ dev.session # NoSession /\ f.tag.key.device = dev.session.key.device =>
       f.counter < dev.session.next

LogInv == log \in Seq(SecureFrames) /\ \A i \in 1 .. Len(log) : LogOK(log[i])

\* A positive response answers a request that was executed.
Answers(r, f) ==
  /\ r.tag.key = f.tag.key /\ r.sid = f.sid /\ r.counter = f.counter
  /\ r.seq = f.seq /\ r.cmd = f.cmd

RespInv ==
  /\ resps \subseteq Challenges \cup Acknowledgements \cup SecureResponses
  /\ \A r \in resps : r \in SecureResponses /\ r.kind = "RESPONSE" =>
       \E i \in 1 .. Len(log) : Answers(r, log[i])

IInv ==
  /\ DevInv /\ ReqInv /\ HostInv /\ LogInv /\ RespInv
  /\ AtMostOnce /\ ReportedIsExecuted

-----------------------------------------------------------------------------
\* Which of its two shapes a pending challenge or a session has.
LEMMA Shapes ==
  /\ \A p \in Pendings \cup {NoPending} :
       /\ p.valid <=> p # NoPending
       /\ p # NoPending => p \in Pendings
       /\ expire_pending(p) \in {p, NoPending}
  /\ \A s \in Sessions \cup {NoSession} :
       /\ s.valid <=> s # NoSession
       /\ s # NoSession => s \in Sessions
       /\ expire_session(s) \in {s, NoSession}
  /\ NoPending \notin Pendings /\ NoSession \notin Sessions
<1>1. \A p \in Pendings : p.valid = TRUE
  BY DEF Pendings
<1>2. \A s \in Sessions : s.valid = TRUE
  BY DEF Sessions
<1>3. NoPending.valid = FALSE /\ NoSession.valid = FALSE
  BY DEF NoPending, NoSession
<1>4. \A p \in Pendings \cup {NoPending} :
        /\ p.valid <=> p # NoPending
        /\ p # NoPending => p \in Pendings
  BY <1>1, <1>3
<1>5. \A s \in Sessions \cup {NoSession} :
        /\ s.valid <=> s # NoSession
        /\ s # NoSession => s \in Sessions
  BY <1>2, <1>3
<1>6. \A p : expire_pending(p) \in {p, NoPending}
  BY DEF expire_pending
<1>7. \A s : expire_session(s) \in {s, NoSession}
  BY DEF expire_session
<1> QED
  BY <1>1, <1>2, <1>3, <1>4, <1>5, <1>6, <1>7

\* A role the device grants is a role.
LEMMA GrantedRoles == \A r \in 1 .. MaxRole : r \in Roles
<1>1. MaxRole \in 1 .. 3
  BY SessionAssumption DEF Roles
<1> QED
  BY <1>1 DEF Roles

\* A step of the device that neither executes nor answers anything keeps all
\* but what it says about pending challenge and session.
LEMMA DeviceOnly ==
  ASSUME IInv, UNCHANGED <<host, reqs, resps, log, done>>, DevInv',
         \A i \in 1 .. Len(log) : LogOK(log[i])'
  PROVE  IInv'
<1>1. ReqInv' /\ RespInv' /\ AtMostOnce' /\ ReportedIsExecuted'
  BY DEF IInv, ReqInv, RespInv, AtMostOnce, ReportedIsExecuted
<1>2. HostInv'
  BY DEF IInv, HostInv, HostOK
<1>3. LogInv'
  BY DEF IInv, LogInv
<1> QED
  BY <1>1, <1>2, <1>3 DEF IInv

\* Forgetting the challenge, the session or both is always safe.
LEMMA Forgets ==
  ASSUME IInv, UNCHANGED <<host, reqs, resps, log, done, cn, dn>>, now' \in Nat,
         dev' \in [configured : BOOLEAN, pending : Pendings \cup {NoPending},
                   session : Sessions \cup {NoSession}],
         dev'.pending \in {dev.pending, NoPending},
         dev'.session \in {dev.session, NoSession},
         dev'.session # NoSession => dev'.configured
  PROVE  IInv'
<1>1. DevInv'
  BY DEF IInv, DevInv
<1>2. \A i \in 1 .. Len(log) : LogOK(log[i])'
  BY DEF IInv, LogInv, LogOK
<1> QED
  BY <1>1, <1>2, DeviceOnly

LEMMA DevType ==
  ASSUME IInv
  PROVE  /\ dev \in [configured : BOOLEAN, pending : Pendings \cup {NoPending},
                     session : Sessions \cup {NoSession}]
         /\ dev.pending \in Pendings \cup {NoPending}
         /\ dev.session \in Sessions \cup {NoSession}
         /\ now \in Nat /\ cn \in Nat /\ dn \in Nat
BY DEF IInv, DevInv

LEMMA ConfigureStep == ASSUME IInv, SecurityConfigure PROVE IInv'
<1>1. /\ dev'.pending = NoPending /\ dev'.session = NoSession
      /\ dev' \in [configured : BOOLEAN, pending : Pendings \cup {NoPending},
                   session : Sessions \cup {NoSession}]
  BY DEF SecurityConfigure, security_init
<1> QED
  BY <1>1, DevType, Forgets DEF SecurityConfigure

LEMMA ResetStep == ASSUME IInv, DeviceReset PROVE IInv'
<1>1. /\ dev'.pending = NoPending /\ dev'.session = NoSession
      /\ dev' \in [configured : BOOLEAN, pending : Pendings \cup {NoPending},
                   session : Sessions \cup {NoSession}]
  BY DEF DeviceReset, security_init
<1> QED
  BY <1>1, DevType, Forgets DEF DeviceReset

LEMMA TickStep == ASSUME IInv, Tick PROVE IInv'
<1>1. now' \in Nat /\ dev' = dev
  BY DevType DEF Tick
<1>2. dev'.session # NoSession => dev'.configured
  BY <1>1, DevType DEF IInv, DevInv
<1> QED
  BY <1>1, <1>2, DevType, Forgets DEF Tick

LEMMA ExpireStep == ASSUME IInv, Expire PROVE IInv'
<1>1. /\ expire_pending(dev.pending) \in {dev.pending, NoPending}
      /\ expire_session(dev.session) \in {dev.session, NoSession}
  BY DevType, Shapes
<1>2. /\ dev'.pending = expire_pending(dev.pending)
      /\ dev'.session = expire_session(dev.session)
      /\ dev'.configured = dev.configured
      /\ dev' \in [configured : BOOLEAN, pending : Pendings \cup {NoPending},
                   session : Sessions \cup {NoSession}]
  BY <1>1, DevType DEF Expire
<1>3. dev'.session # NoSession => dev'.configured
  BY <1>1, <1>2 DEF IInv, DevInv
<1> QED
  BY <1>1, <1>2, <1>3, DevType, Forgets DEF Expire

-----------------------------------------------------------------------------
(* The handshake.                                                          *)

\* A new challenge takes a nonce nobody has used.
LEMMA AuthBeginStep ==
  ASSUME IInv, NEW f, f.seq \in Nat, f.role \in Roles,
         f.client \in Nat \cup {Bad}, AuthBegin(f)
  PROVE  IInv'
<1>1. UNCHANGED <<host, reqs, now, cn, log, done>> /\ f.role <= MaxRole
      /\ dev.configured
  BY DEF AuthBegin
<1>2. CASE /\ dev' = [dev EXCEPT !.pending = expire_pending(dev.pending)]
           /\ UNCHANGED <<dn, resps>>
  <2>1. expire_pending(dev.pending) \in {dev.pending, NoPending}
    BY DevType, Shapes
  <2>2. /\ dev'.pending = expire_pending(dev.pending)
        /\ dev'.session = dev.session /\ dev'.configured = dev.configured
        /\ dev' \in [configured : BOOLEAN, pending : Pendings \cup {NoPending},
                     session : Sessions \cup {NoSession}]
    BY <1>2, <2>1, DevType
  <2> QED
    BY <1>1, <1>2, <2>1, <2>2, DevType, Forgets
<1>3. ASSUME NEW sid \in SessionIds, dn' = dn + 1,
             dev' = [dev EXCEPT !.pending = pending_challenge(f, sid, dn')],
             resps' = resps \cup {server_challenge(f, dev'.pending)}
      PROVE  IInv'
  <2> DEFINE p == pending_challenge(f, sid, dn')
  <2>1. p \in Pendings /\ p.device = dn + 1 /\ dn + 1 \in Nat
    BY <1>1, <1>3, DevType, SessionAssumption
       DEF pending_challenge, Pendings, Roles
  <2>2. /\ dev'.pending = p /\ dev'.session = dev.session
        /\ dev'.configured = dev.configured
        /\ dev' \in [configured : BOOLEAN, pending : Pendings \cup {NoPending},
                     session : Sessions \cup {NoSession}]
    BY <1>3, <2>1, DevType
  <2> HIDE DEF p
  <2>3. dev.session # NoSession => dev.session.key.device \in Nat
    BY DevType DEF Sessions, Macs
  <2>4. DevInv'
    BY <1>1, <1>3, <2>1, <2>2, <2>3, DevType DEF IInv, DevInv
  <2>5. \A i \in 1 .. Len(log) : LogOK(log[i])'
    <3> SUFFICES ASSUME NEW i \in 1 .. Len(log) PROVE LogOK(log[i])'
      OBVIOUS
    <3>1. LogOK(log[i])
      BY DEF IInv, LogInv
    <3>2. log[i].tag.key.device \in Nat
      BY <3>1 DEF LogOK, SecureFrames, RequestTags, Macs
    <3> QED
      BY <1>1, <1>3, <2>1, <2>2, <3>1, <3>2, DevType DEF LogOK
  <2>6. RespInv'
    <3>1. server_challenge(f, p) \in Challenges
      BY <2>1, SessionAssumption DEF server_challenge, Challenges, Pendings,
         handshake_mac, Macs, Roles
    <3>2. server_challenge(f, p) \notin SecureResponses
      BY DEF server_challenge, SecureResponses
    <3> QED
      BY <1>1, <1>3, <2>2, <3>1, <3>2 DEF IInv, RespInv
  <2>7. LogInv' /\ HostInv' /\ ReqInv'
    BY <1>1, <2>5 DEF IInv, LogInv, HostInv, HostOK, ReqInv
  <2> QED
    BY <1>1, <2>4, <2>6, <2>7 DEF IInv, AtMostOnce, ReportedIsExecuted
<1> QED
  BY <1>2, <1>3 DEF AuthBegin

\* The session a proved challenge opens has executed nothing yet.
LEMMA AuthFinishStep ==
  ASSUME IInv, NEW f, f.seq \in Nat, AuthFinish(f)
  PROVE  IInv'
<1> DEFINE p == expire_pending(dev.pending)
<1>1. UNCHANGED <<host, reqs, now, cn, dn, log, done>> /\ dev.configured
  BY DEF AuthFinish
<1>2. p \in {dev.pending, NoPending}
  BY DevType, Shapes
<1>3. CASE dev' = [dev EXCEPT !.pending = NoPending] /\ UNCHANGED resps
  <2>1. /\ dev'.pending = NoPending
        /\ dev'.session = dev.session /\ dev'.configured = dev.configured
        /\ dev' \in [configured : BOOLEAN, pending : Pendings \cup {NoPending},
                     session : Sessions \cup {NoSession}]
    BY <1>3, DevType
  <2> QED
    BY <1>1, <1>3, <2>1, DevType, Forgets
<1>4. CASE /\ finish_accepts(f, p)
           /\ dev' = [dev EXCEPT !.pending = NoPending,
                                 !.session = open_session(p)]
           /\ resps' = resps \cup {authenticated_response(f, p)}
  <2>1. p = dev.pending /\ p \in Pendings /\ p # NoPending
    BY <1>2, <1>4, DevType, Shapes DEF finish_accepts
  <2> HIDE DEF p
  <2>2. /\ open_session(p) \in Sessions
        /\ open_session(p).key.role = open_session(p).role
        /\ open_session(p).key.device = p.device
    BY <2>1, DevType, SessionAssumption
       DEF open_session, Sessions, Pendings, handshake_mac, Macs, Roles
  <2>3. /\ dev'.pending = NoPending /\ dev'.session = open_session(p)
        /\ dev'.configured = dev.configured
        /\ dev' \in [configured : BOOLEAN, pending : Pendings \cup {NoPending},
                     session : Sessions \cup {NoSession}]
    BY <1>4, <2>2, DevType
  <2>4. DevInv'
    BY <1>1, <2>1, <2>2, <2>3, DevType DEF IInv, DevInv
  <2>5. \A i \in 1 .. Len(log) : LogOK(log[i])'
    BY <1>1, <2>1, <2>2, <2>3 DEF IInv, LogInv, LogOK
  <2>6. RespInv'
    <3>1. authenticated_response(f, p) \in Acknowledgements
      <4>1. p.role \in Roles /\ p.sid \in SessionIds
        BY <2>1, GrantedRoles DEF Pendings
      <4> QED
        BY <4>1 DEF authenticated_response, Acknowledgements
    <3>2. authenticated_response(f, p) \notin SecureResponses
      BY DEF authenticated_response, SecureResponses
    <3> QED
      BY <1>1, <1>4, <3>1, <3>2 DEF IInv, RespInv
  <2>7. LogInv' /\ HostInv' /\ ReqInv'
    BY <1>1, <2>5 DEF IInv, LogInv, HostInv, HostOK, ReqInv
  <2> QED
    BY <1>1, <2>4, <2>6, <2>7 DEF IInv, AtMostOnce, ReportedIsExecuted
<1> QED
  BY <1>3, <1>4 DEF AuthFinish

-----------------------------------------------------------------------------
(* Protected commands.                                                     *)

LEMMA Counters == \A n \in 1 .. CounterMod - 1 : n \in Nat
<1>1. CounterMod \in Nat
  BY SessionAssumption
<1> QED
  BY <1>1

LEMMA Wrap ==
  ASSUME NEW n \in 1 .. CounterMod - 1
  PROVE  (n + 1) % CounterMod = IF n = CounterMod - 1 THEN 0 ELSE n + 1
<1>1. CounterMod \in Nat /\ CounterMod > 1 /\ n \in Nat
  BY SessionAssumption
<1>2. CASE n = CounterMod - 1
  <2>1. n + 1 = CounterMod
    BY <1>1, <1>2
  <2>2. CounterMod % CounterMod = 0
    BY <1>1
  <2> QED
    BY <1>2, <2>1, <2>2
<1>3. CASE n # CounterMod - 1
  <2>1. n + 1 \in 0 .. CounterMod - 1
    BY <1>1, <1>3
  <2>2. \A a \in 0 .. CounterMod - 1 : a % CounterMod = a
    BY <1>1
  <2> QED
    BY <1>3, <2>1, <2>2
<1> QED
  BY <1>2, <1>3

\* Consuming a counter keeps the session and moves it on by one, or ends it at
\* the end of the range.
LEMMA ConsumedShape ==
  ASSUME NEW s \in Sessions, now \in Nat
  PROVE  IF s.next = CounterMod - 1
         THEN consumed(s) = NoSession
         ELSE /\ consumed(s) \in Sessions /\ consumed(s) # NoSession
              /\ consumed(s).key = s.key /\ consumed(s).role = s.role
              /\ consumed(s).next = s.next + 1
<1>1. s.next \in 1 .. CounterMod - 1
  BY DEF Sessions
<1>2. CASE s.next = CounterMod - 1
  BY <1>1, <1>2, Wrap DEF consumed
<1>3. CASE s.next # CounterMod - 1
  <2>1. /\ (s.next + 1) % CounterMod = s.next + 1
        /\ s.next + 1 \in 1 .. CounterMod - 1 /\ s.next + 1 # 0
    BY <1>1, <1>3, Wrap, SessionAssumption
  <2>2. consumed(s) = [s EXCEPT !.next = s.next + 1, !.last = now]
    BY <2>1 DEF consumed
  <2>3. consumed(s) \in Sessions /\ consumed(s).key = s.key
        /\ consumed(s).role = s.role /\ consumed(s).next = s.next + 1
    BY <2>1, <2>2 DEF Sessions
  <2> QED
    BY <1>3, <2>3, Shapes
<1> QED
  BY <1>2, <1>3

\* A frame that reaches SECURE_COMMAND: a request of a host, or noise.
Received(f) ==
  \/ f \in reqs /\ f \in SecureFrames
  \/ /\ f.tag = Bad /\ f.sid \in SessionIds /\ f.counter \in Nat
     /\ f.seq \in Nat /\ f.cmd \in Commands

\* Only a request of a host carries the tag of the open session.
LEMMA TagMatches ==
  ASSUME IInv, NEW f, Received(f), NEW s \in Sessions, f.tag = request_tag(s.key, f)
  PROVE  /\ f \in reqs /\ f \in SecureFrames /\ f.tag.key = s.key
         /\ Tagged(f)
<1>1. f.tag # Bad
  <2>1. s.key \in Macs("SESSION")
    BY DEF Sessions
  <2>2. ASSUME f.sid \in SessionIds, f.counter \in Nat, f.seq \in Nat,
               f.cmd \in Commands
        PROVE  request_tag(s.key, f) \in RequestTags
    BY <2>1, <2>2 DEF request_tag, RequestTags
  <2> QED
    BY <2>2, BadIsNoMac DEF Received, SecureFrames
<1>2. f \in reqs /\ f \in SecureFrames
  BY <1>1 DEF Received
<1>3. f.tag.key = s.key
  BY DEF request_tag
<1> QED
  BY <1>2, <1>3 DEF IInv, ReqInv

\* What unwrap_request does with the session, and when it lets a command in.
LEMMA Unwrap ==
  ASSUME IInv, NEW f, Received(f), NEW s \in {dev.session, NoSession}
  PROVE  /\ unwrap_session(f, s) \in {s, NoSession, consumed(s)}
         /\ unwrap_result(f, s) = "OK" =>
              /\ s = dev.session /\ s \in Sessions /\ s # NoSession
              /\ f \in reqs /\ f \in SecureFrames /\ f.tag.key = s.key
              /\ f.tag = request_tag(s.key, f)
              /\ Tagged(f)
              /\ f.counter = s.next /\ s.next # CounterMod - 1
              /\ unwrap_session(f, s) = consumed(s)
<1>1. unwrap_session(f, s) \in {s, consumed(s)}
  BY DEF unwrap_session
<1>2. ASSUME unwrap_result(f, s) = "OK"
      PROVE  /\ s = dev.session /\ s \in Sessions /\ s # NoSession
             /\ f \in reqs /\ f \in SecureFrames /\ f.tag.key = s.key
             /\ f.tag = request_tag(s.key, f)
             /\ Tagged(f)
             /\ f.counter = s.next /\ s.next # CounterMod - 1
             /\ unwrap_session(f, s) = consumed(s)
  <2>1. /\ s.valid /\ f.sid = s.sid /\ f.tag = request_tag(s.key, f)
        /\ f.counter = s.next /\ consumed(s).valid
    BY <1>2 DEF unwrap_result
  <2>2. s # NoSession /\ s = dev.session /\ s \in Sessions
    BY <2>1, DevType, Shapes
  <2>3. f \in reqs /\ f \in SecureFrames /\ f.tag.key = s.key /\ Tagged(f)
    BY <2>1, <2>2, TagMatches
  <2>4. s.next # CounterMod - 1
    BY <2>1, <2>2, DevType, ConsumedShape, Shapes
  <2>5. unwrap_session(f, s) = consumed(s)
    BY <2>1 DEF unwrap_session
  <2> QED
    BY <2>1, <2>2, <2>3, <2>4, <2>5
<1> QED
  BY <1>1, <1>2

\* The session goes on under its key with the same or the next counter.
LEMMA SessionGoesOn ==
  ASSUME IInv, NEW s \in Sessions \cup {NoSession},
         UNCHANGED <<now, cn, dn>>,
         dev' = [dev EXCEPT !.session = s],
         s # NoSession =>
           /\ dev.session # NoSession
           /\ s.key = dev.session.key /\ s.role = dev.session.role
           /\ s.next \in {dev.session.next, dev.session.next + 1}
  PROVE  /\ DevInv' /\ dev'.pending = dev.pending /\ dev'.session = s
         /\ \A f : LogOK(f) /\ UNCHANGED reqs => LogOK(f)'
<1>1. /\ dev'.pending = dev.pending /\ dev'.session = s
      /\ dev'.configured = dev.configured
      /\ dev' \in [configured : BOOLEAN, pending : Pendings \cup {NoPending},
                   session : Sessions \cup {NoSession}]
  BY DevType
<1>2. DevInv'
  BY <1>1, DevType DEF IInv, DevInv
<1>3. dev.session # NoSession => dev.session.next \in Nat
  BY DevType, Shapes, Counters DEF Sessions
<1>4. ASSUME NEW f, LogOK(f), UNCHANGED reqs PROVE LogOK(f)'
  <2>1. f.counter \in Nat
    BY <1>4 DEF LogOK, SecureFrames
  <2> QED
    BY <1>1, <1>3, <1>4, <2>1 DEF LogOK
<1> QED
  BY <1>1, <1>2, <1>4

LEMMA SecureCommandStep ==
  ASSUME IInv, NEW f, Received(f), SecureCommand(f)
  PROVE  IInv'
<1> DEFINE s == expire_session(dev.session)
           u == unwrap_session(f, s)
           allowed == authorize(s, f.cmd)
           answer == wrap_response(s, f, IF allowed THEN "RESPONSE" ELSE "ERROR")
<1>1. /\ UNCHANGED <<host, reqs, now, cn, dn, done>>
      /\ dev' = [dev EXCEPT !.session = u]
      /\ IF unwrap_result(f, s) = "OK"
         THEN /\ log' = IF allowed THEN Append(log, f) ELSE log
              /\ resps' = resps \cup {answer}
         ELSE UNCHANGED <<log, resps>>
  BY DEF SecureCommand
<1>2. s \in {dev.session, NoSession}
  BY DevType, Shapes
<1>3. s \in Sessions \cup {NoSession}
  BY <1>2, DevType
<1> HIDE DEF s
<1>4. /\ u \in Sessions \cup {NoSession}
      /\ u # NoSession =>
           /\ dev.session # NoSession
           /\ u.key = dev.session.key /\ u.role = dev.session.role
           /\ u.next \in {dev.session.next, dev.session.next + 1}
  <2>1. u \in {s, NoSession, consumed(s)}
    BY <1>2, Unwrap
  <2>2. CASE u = s \/ u = NoSession
    BY <1>2, <1>3, <2>2
  <2>3. CASE u # s /\ u # NoSession
    <3>1. s.valid
      BY <2>3 DEF unwrap_session
    <3>2. s \in Sessions /\ s # NoSession /\ s = dev.session
      BY <1>2, <1>3, <3>1, Shapes
    <3> QED
      BY <2>1, <2>3, <3>2, ConsumedShape, DevType
  <2> QED
    BY <2>2, <2>3
<1>5. /\ DevInv' /\ dev'.pending = dev.pending /\ dev'.session = u
      /\ \A g : LogOK(g) => LogOK(g)'
  BY <1>1, <1>4, SessionGoesOn
<1>6. HostInv' /\ ReqInv'
  BY <1>1 DEF IInv, HostInv, HostOK, ReqInv
<1>7. CASE unwrap_result(f, s) # "OK"
  <2>1. UNCHANGED <<log, resps>>
    BY <1>1, <1>7
  <2>2. LogInv'
    BY <1>5, <2>1 DEF IInv, LogInv
  <2>3. RespInv' /\ AtMostOnce' /\ ReportedIsExecuted'
    BY <1>1, <2>1 DEF IInv, RespInv, AtMostOnce, ReportedIsExecuted
  <2> QED
    BY <1>5, <1>6, <2>2, <2>3 DEF IInv
<1>8. CASE unwrap_result(f, s) = "OK"
  <2>1. /\ s = dev.session /\ s \in Sessions /\ s # NoSession
        /\ f \in reqs /\ f \in SecureFrames /\ f.tag.key = s.key
        /\ f.tag = request_tag(s.key, f)
        /\ Tagged(f) /\ f.counter = s.next /\ s.next # CounterMod - 1
        /\ u = consumed(s)
    BY <1>2, <1>8, Unwrap
  <2>2. u # NoSession /\ u.key = s.key /\ u.next = s.next + 1 /\ s.next \in Nat
    <3>1. s.next \in Nat
      BY <2>1, Counters DEF Sessions
    <3> QED
      BY <2>1, <3>1, ConsumedShape, DevType
  <2>3. log \in Seq(SecureFrames) /\ \A i \in 1 .. Len(log) : LogOK(log[i])
    BY DEF IInv, LogInv
  <2>4. answer \in SecureResponses
    <3>1. /\ f.seq \in Nat /\ f.sid \in SessionIds /\ f.counter \in Nat
          /\ f.cmd \in Commands /\ s.key \in Macs("SESSION")
      BY <2>1 DEF SecureFrames, Sessions
    <3> QED
      BY <3>1 DEF wrap_response, response_tag, SecureResponses, ResponseTags
  <2>5. CASE ~allowed
    <3>1. log' = log /\ resps' = resps \cup {answer} /\ answer.kind = "ERROR"
      BY <1>1, <1>8, <2>5 DEF wrap_response
    <3>2. LogInv'
      BY <1>5, <3>1 DEF IInv, LogInv
    <3>3. RespInv'
      BY <2>4, <3>1 DEF IInv, RespInv, Challenges, Acknowledgements, SecureResponses
    <3>4. AtMostOnce' /\ ReportedIsExecuted'
      BY <1>1, <3>1 DEF IInv, AtMostOnce, ReportedIsExecuted
    <3> QED
      BY <1>5, <1>6, <3>2, <3>3, <3>4 DEF IInv
  <2>6. CASE allowed
    <3>1. log' = Append(log, f) /\ resps' = resps \cup {answer}
      BY <1>1, <1>8, <2>6
    <3>2. /\ Len(log') = Len(log) + 1 /\ log' \in Seq(SecureFrames)
          /\ \A i \in 1 .. Len(log) : log'[i] = log[i]
          /\ log'[Len(log) + 1] = f /\ Len(log) \in Nat
      BY <2>1, <2>3, <3>1
    <3>3. LogOK(f)'
      <4>1. /\ f.tag.key.role >= RequiredRole[f.cmd] /\ f.tag.key.role <= MaxRole
            /\ f.tag.key.device <= dn
        <5>1. s.key.role = s.role /\ s.key.device <= dn
          BY <2>1 DEF IInv, DevInv
        <5>2. s.role >= RequiredRole[f.cmd]
          BY <2>6 DEF authorize
        <5>3. s.role \in 1 .. MaxRole
          BY <2>1 DEF Sessions
        <5>4. s.role <= MaxRole
          BY <5>3, SessionAssumption DEF Roles
        <5> QED
          BY <2>1, <5>1, <5>2, <5>4
      <4>2. dev.pending # NoPending => f.tag.key.device # dev.pending.device
        BY <2>1 DEF IInv, DevInv
      <4> QED
        BY <1>1, <1>5, <2>1, <2>2, <4>1, <4>2 DEF LogOK
    <3>4. LogInv'
      <4>1. \A i \in 1 .. Len(log) : LogOK(log[i])'
        <5> SUFFICES ASSUME NEW i \in 1 .. Len(log) PROVE LogOK(log[i])'
          OBVIOUS
        <5>1. LogOK(log[i]) /\ log'[i] = log[i]
          BY <2>3, <3>2
        <5>2. \A g : g = log[i] => LogOK(g)'
          BY <1>5, <5>1
        <5> QED
          BY <5>1, <5>2 DEF LogOK
      <4>2. \A i : i = Len(log) + 1 => LogOK(log[i])'
        BY <3>2, <3>3 DEF LogOK
      <4> QED
        BY <3>2, <4>1, <4>2 DEF LogInv
    <3>5. AtMostOnce'
      <4>1. \A i \in 1 .. Len(log) : log[i] # f
        <5> SUFFICES ASSUME NEW i \in 1 .. Len(log), log[i] = f PROVE FALSE
          OBVIOUS
        <5>1. LogOK(f)
          BY <2>3
        <5>2. f.counter < s.next
          BY <2>1, <5>1 DEF LogOK
        <5> QED
          BY <2>1, <2>2, <5>2
      <4>2. \A i, j \in 1 .. Len(log) : i # j => log[i] # log[j]
        BY DEF IInv, AtMostOnce
      <4>3. \A i, j \in 1 .. Len(log) + 1 : i # j => log'[i] # log'[j]
        <5> SUFFICES ASSUME NEW i \in 1 .. Len(log) + 1,
                            NEW j \in 1 .. Len(log) + 1, i # j
                     PROVE  log'[i] # log'[j]
          OBVIOUS
        <5>1. CASE i = Len(log) + 1
          BY <3>2, <4>1, <5>1
        <5>2. CASE j = Len(log) + 1
          BY <3>2, <4>1, <5>2
        <5>3. CASE i # Len(log) + 1 /\ j # Len(log) + 1
          BY <3>2, <4>2, <5>3
        <5> QED
          BY <5>1, <5>2, <5>3
      <4> QED
        BY <3>2, <4>3 DEF AtMostOnce
    <3>6. RespInv'
      <4>1. Answers(answer, f)
        BY <2>1 DEF Answers, wrap_response, response_tag
      <4>2. \A r \in resps : r \in SecureResponses /\ r.kind = "RESPONSE" =>
              \E i \in 1 .. Len(log) : Answers(r, log[i])
        BY DEF IInv, RespInv
      <4>3. \A r \in resps' : r \in SecureResponses /\ r.kind = "RESPONSE" =>
              \E i \in 1 .. Len(log') : Answers(r, log'[i])
        <5> SUFFICES ASSUME NEW r \in resps', r \in SecureResponses,
                            r.kind = "RESPONSE"
                     PROVE  \E i \in 1 .. Len(log') : Answers(r, log'[i])
          OBVIOUS
        <5>1. CASE r = answer
          <6>1. Len(log) + 1 \in 1 .. Len(log')
            BY <3>2
          <6> QED
            BY <3>2, <4>1, <5>1, <6>1
        <5>2. CASE r # answer
          <6>1. r \in resps
            BY <3>1, <5>2
          <6>2. PICK i \in 1 .. Len(log) : Answers(r, log[i])
            BY <4>2, <6>1
          <6>3. i \in 1 .. Len(log') /\ log'[i] = log[i]
            BY <3>2
          <6> QED
            BY <6>2, <6>3
        <5> QED
          BY <5>1, <5>2
      <4>4. resps' \subseteq Challenges \cup Acknowledgements \cup SecureResponses
        BY <2>4, <3>1 DEF IInv, RespInv
      <4> QED
        BY <4>3, <4>4 DEF RespInv, Answers
    <3>7. ReportedIsExecuted'
      <4>1. done \subseteq {log[i] : i \in 1 .. Len(log)}
        BY DEF IInv, ReportedIsExecuted
      <4>2. \A i \in 1 .. Len(log) : i \in 1 .. Len(log') /\ log'[i] = log[i]
        BY <3>2
      <4> QED
        BY <1>1, <4>1, <4>2 DEF ReportedIsExecuted
    <3> QED
      BY <1>5, <1>6, <3>4, <3>5, <3>6, <3>7 DEF IInv
  <2> QED
    BY <2>5, <2>6
<1> QED
  BY <1>7, <1>8

-----------------------------------------------------------------------------
(* The hosts.                                                              *)

\* A step of one host: the others, the device and the answers stay as they are.
LEMMA HostOnly ==
  ASSUME IInv, NEW h \in Hosts, UNCHANGED <<dev, resps, now, dn, log>>,
         cn' \in Nat, reqs \subseteq reqs', ReqInv', ReportedIsExecuted',
         host' = [k \in Hosts |-> IF k = h THEN host'[h] ELSE host[k]],
         HostOK(h)'
  PROVE  IInv'
<1>1. HostInv'
  <2>1. \A k \in Hosts : HostOK(k)'
    <3> SUFFICES ASSUME NEW k \in Hosts, k # h PROVE HostOK(k)'
      OBVIOUS
    <3>1. host'[k] = host[k] /\ HostOK(k)
      BY DEF IInv, HostInv
    <3> QED
      BY <3>1 DEF HostOK
  <2>2. host' = [k \in Hosts |-> host'[k]]
    OBVIOUS
  <2> QED
    BY <2>1, <2>2 DEF HostInv
<1>2. DevInv' /\ RespInv' /\ AtMostOnce'
  BY DEF IInv, DevInv, RespInv, AtMostOnce
<1>3. LogInv'
  BY DEF IInv, LogInv, LogOK
<1> QED
  BY <1>1, <1>2, <1>3 DEF IInv

LEMMA HostType ==
  ASSUME IInv, NEW h \in Hosts
  PROVE  /\ HostOK(h) /\ Role[h] \in Roles
         /\ host = [k \in Hosts |-> host[k]]
BY SessionAssumption DEF IInv, HostInv

\* Sending keeps the host in order when the frame is what the stage asks for.
LEMMA SendStep ==
  ASSUME IInv, NEW h \in Hosts, NEW f, NEW cmd \in Commands \cup {None},
         NEW pc \in {"begin", "finish", "command"}, Send(h, f, pc, cmd),
         UNCHANGED <<dev, resps, now, dn, log, done>>, cn' \in Nat,
         pc = "begin" => f \in BeginFrames,
         pc = "finish" => f \in FinishFrames /\ f.proof.role = Role[h],
         pc = "command" =>
           /\ host[h].key # None /\ f \in SecureFrames
           /\ f.sid = host[h].sid /\ f.tag = request_tag(host[h].key, f)
  PROVE  IInv'
<1>1. /\ reqs' = reqs \cup {f}
      /\ host' = [k \in Hosts |-> IF k = h THEN host'[h] ELSE host[k]]
      /\ host'[h] = [host[h] EXCEPT !.pc = pc, !.frame = f,
                                    !.seq = host[h].seq + 1, !.cmd = cmd]
  BY HostType DEF Send
<1>2. HostOK(h)
  BY HostType
<1>3. f \in BeginFrames \cup FinishFrames \cup SecureFrames
  OBVIOUS
<1>4. HostOK(h)'
  <2>0. f \in Frames /\ host[h] \in HostRecords
    BY <1>2, <1>3 DEF HostOK, Frames
  <2> DEFINE next_seq == host[h].seq + 1
  <2>a. next_seq \in Nat
    BY <2>0 DEF HostRecords
  <2>b. host'[h] = [host[h] EXCEPT !.pc = pc, !.frame = f, !.seq = next_seq,
                                   !.cmd = cmd]
    BY <1>1
  <2> HIDE DEF next_seq
  <2>1. host'[h] \in HostRecords
    BY <2>0, <2>a, <2>b DEF HostRecords
  <2>2. /\ host'[h].pc = pc /\ host'[h].frame = f /\ host'[h].key = host[h].key
        /\ host'[h].sid = host[h].sid
    BY <1>1, <1>2 DEF HostOK, HostRecords
  <2> QED
    BY <1>2, <2>1, <2>2 DEF HostOK
<1>5. pc # "command" => f \notin SecureFrames
  BY DEF BeginFrames, FinishFrames, SecureFrames
<1>6. pc = "command" => Tagged(f)
  <2>1. pc = "command" => f.tag.key = host[h].key
    BY DEF request_tag
  <2> QED
    BY <1>2, <2>1 DEF Tagged, HostOK
<1>7. ReqInv'
  BY <1>1, <1>3, <1>5, <1>6 DEF IInv, ReqInv
<1>8. ReportedIsExecuted'
  BY DEF IInv, ReportedIsExecuted
<1> QED
  BY <1>1, <1>4, <1>7, <1>8, HostOnly

LEMMA AuthenticateStep ==
  ASSUME IInv, NEW h \in Hosts, NEW cmd \in Commands \cup {None},
         Authenticate(h, cmd)
  PROVE  IInv'
<1> DEFINE f == [type |-> "begin", seq |-> host[h].seq, role |-> Role[h],
                 client |-> cn']
<1>1. cn' \in Nat
  BY DevType DEF Authenticate
<1>2. f \in BeginFrames
  BY <1>1, HostType DEF HostOK, HostRecords, BeginFrames
<1>3. Send(h, f, "begin", cmd)
  BY DEF Authenticate
<1> HIDE DEF f
<1> QED
  BY <1>1, <1>2, <1>3, SendStep DEF Authenticate

LEMMA OnChallengeStep ==
  ASSUME IInv, NEW h \in Hosts, NEW r \in resps, OnChallenge(h, r)
  PROVE  IInv'
<1> DEFINE mac == handshake_mac("CLIENT", r.role, r.sid,
                                host[h].frame.client, r.device)
           f == [type |-> "finish", seq |-> host[h].seq, role |-> r.role,
                 sid |-> r.sid, proof |-> mac]
<1>1. r \in Challenges
  BY DEF OnChallenge, IInv, RespInv, Acknowledgements, SecureResponses
<1>2. /\ host[h].pc = "begin" /\ host[h].frame.client \in Nat
      /\ host[h].seq \in Nat /\ host[h].cmd \in Commands \cup {None}
  BY HostType DEF OnChallenge, HostOK, HostRecords, BeginFrames
<1>3. mac \in Macs("CLIENT") /\ mac.role = r.role
  BY <1>1, <1>2 DEF Challenges, handshake_mac, Macs
<1>4. r.role = Role[h]
  BY DEF OnChallenge, challenge_verifies
<1>5. Send(h, f, "finish", host[h].cmd)
  BY DEF OnChallenge
<1> HIDE DEF mac
<1>6. f \in FinishFrames /\ f.proof.role = Role[h]
  BY <1>1, <1>2, <1>3, <1>4 DEF Challenges, FinishFrames
<1> HIDE DEF f
<1> QED
  BY <1>2, <1>5, <1>6, DevType, SendStep DEF OnChallenge

LEMMA ExchangeStep ==
  ASSUME IInv, NEW h \in Hosts, NEW cmd \in Commands, Exchange(h, cmd)
  PROVE  IInv'
<1> DEFINE u == [seq |-> host[h].seq, sid |-> host[h].sid,
                 counter |-> host[h].next, cmd |-> cmd]
           f == [type |-> "secure", seq |-> u.seq, sid |-> u.sid,
                 counter |-> u.counter, cmd |-> cmd,
                 tag |-> request_tag(host[h].key, u)]
<1>1. Send(h, f, "command", cmd)
  BY DEF Exchange
<1>2. host[h].key # None
  BY HostType DEF Exchange, HostOK, active
<1>3. /\ host[h].seq \in Nat /\ host[h].next \in Nat
      /\ host[h].key \in Macs("SESSION") /\ host[h].sid \in SessionIds
  BY <1>2, HostType DEF HostOK, HostRecords
<1>4. /\ f \in SecureFrames /\ f.sid = host[h].sid
      /\ f.tag = request_tag(host[h].key, f)
  BY <1>3 DEF SecureFrames, RequestTags, request_tag
<1> HIDE DEF f
<1> QED
  BY <1>1, <1>2, <1>4, DevType, SendStep DEF Exchange

LEMMA OnAuthenticatedStep ==
  ASSUME IInv, NEW h \in Hosts, NEW r \in resps, OnAuthenticated(h, r)
  PROVE  IInv'
<1> DEFINE p == host[h].frame.proof
           key == handshake_mac("SESSION", p.role, p.sid, p.client, p.device)
<1>1. HostOK(h) /\ host = [k \in Hosts |-> host[k]]
  BY HostType
<1>2. /\ host[h].frame \in FinishFrames /\ p \in Macs("CLIENT")
      /\ p.role = Role[h]
  BY <1>1 DEF OnAuthenticated, HostOK, FinishFrames
<1>3. key \in Macs("SESSION") /\ key.role = Role[h] /\ key # None
  <2>1. key \in Macs("SESSION") /\ key.role = Role[h]
    BY <1>2 DEF handshake_mac, Macs
  <2> QED
    BY <2>1, NoneIsNoKey
<1>4. r.sid \in SessionIds
  BY <1>2 DEF OnAuthenticated, FinishFrames
<1>5. /\ host' = [k \in Hosts |-> IF k = h THEN host'[h] ELSE host[k]]
      /\ host'[h] = [host[h] EXCEPT
           !.pc = IF host[h].cmd = None THEN "idle" ELSE "ready",
           !.sid = r.sid, !.next = 1, !.key = key]
  BY <1>1 DEF OnAuthenticated
<1> HIDE DEF key
<1>6. HostOK(h)'
  <2>0. key \in Codes /\ host[h] \in HostRecords /\ r.sid \in Sids /\ 1 \in Nat
    BY <1>1, <1>3, <1>4 DEF HostOK, Codes, Sids
  <2>a. PICK pc \in {"idle", "ready"} :
          host'[h] = [host[h] EXCEPT !.pc = pc, !.sid = r.sid, !.next = 1,
                                     !.key = key]
    BY <1>5
  <2>1. host'[h] \in HostRecords
    BY <1>4, <2>0, <2>a DEF HostRecords
  <2>2. /\ host'[h].pc \in {"idle", "ready"} /\ host'[h].key = key
        /\ host'[h].sid = r.sid
    BY <1>1, <1>5 DEF HostOK, HostRecords
  <2> QED
    BY <1>3, <1>4, <2>1, <2>2 DEF HostOK
<1>7. UNCHANGED <<dev, reqs, resps, now, cn, dn, log, done>>
  BY DEF OnAuthenticated
<1>8. ReqInv' /\ ReportedIsExecuted'
  BY <1>7 DEF IInv, ReqInv, ReportedIsExecuted
<1> QED
  BY <1>5, <1>6, <1>7, <1>8, DevType, HostOnly

\* A request is its fields: two tagged requests under one key that agree on
\* number, identifier, counter and command are the same.
LEMMA SameRequest ==
  ASSUME NEW f \in SecureFrames, NEW g \in SecureFrames, NEW key,
         f.tag = request_tag(key, f), g.tag = request_tag(key, g),
         f.seq = g.seq, f.sid = g.sid, f.counter = g.counter, f.cmd = g.cmd
  PROVE  f = g
<1>1. f.tag = g.tag
  BY DEF request_tag
<1> QED
  BY <1>1 DEF SecureFrames

LEMMA OnSecureResponseStep ==
  ASSUME IInv, NEW h \in Hosts, NEW r \in resps, OnSecureResponse(h, r)
  PROVE  IInv'
<1> DEFINE f == host[h].frame
<1>1. HostOK(h) /\ host = [k \in Hosts |-> host[k]]
  BY HostType
<1>2. /\ host[h].pc = "command" /\ host[h].key # None
      /\ f \in SecureFrames /\ f.sid = host[h].sid
      /\ f.tag = request_tag(host[h].key, f)
  BY <1>1 DEF OnSecureResponse, HostOK
<1>3. /\ host' = [k \in Hosts |-> IF k = h THEN host'[h] ELSE host[k]]
      /\ host'[h] = [host[h] EXCEPT !.pc = "idle", !.next = host[h].next + 1]
  BY <1>1 DEF OnSecureResponse
<1>4. HostOK(h)'
  <2>0. host[h] \in HostRecords
    BY <1>1 DEF HostOK
  <2> DEFINE next == host[h].next + 1
  <2>a. next \in Nat
    BY <2>0 DEF HostRecords
  <2>b. host'[h] = [host[h] EXCEPT !.pc = "idle", !.next = next]
    BY <1>3
  <2> HIDE DEF next
  <2>1. host'[h] \in HostRecords
    BY <2>0, <2>a, <2>b DEF HostRecords
  <2>2. /\ host'[h].pc = "idle" /\ host'[h].key = host[h].key
        /\ host'[h].sid = host[h].sid
    BY <1>1, <1>3 DEF HostOK, HostRecords
  <2> QED
    BY <1>1, <2>1, <2>2 DEF HostOK
<1>5. UNCHANGED <<dev, reqs, resps, now, cn, dn, log>>
  BY DEF OnSecureResponse
<1>6. r.kind = "RESPONSE" => f \in {log[i] : i \in 1 .. Len(log)}
  <2> SUFFICES ASSUME r.kind = "RESPONSE"
               PROVE  f \in {log[i] : i \in 1 .. Len(log)}
    OBVIOUS
  <2>1. r \in SecureResponses
    BY DEF OnSecureResponse, IInv, RespInv, Challenges, Acknowledgements
  <2>2. PICK i \in 1 .. Len(log) : Answers(r, log[i])
    BY <2>1 DEF IInv, RespInv
  <2>3. LogOK(log[i]) /\ Tagged(log[i]) /\ log[i] \in SecureFrames
    BY DEF IInv, LogInv, LogOK, ReqInv
  <2>4. /\ r.tag.key = host[h].key /\ r.seq = f.seq /\ r.sid = f.sid
        /\ r.counter = f.counter /\ r.cmd = f.cmd
    <3>1. /\ r.tag = response_tag(host[h].key, [r EXCEPT !.seq = f.seq])
          /\ r.sid = host[h].sid /\ r.counter = f.counter /\ r.cmd = f.cmd
          /\ r.seq = f.seq
      BY DEF OnSecureResponse, response_verifies
    <3>2. r.tag.key = host[h].key
      BY <3>1 DEF response_tag
    <3> QED
      BY <1>2, <3>1, <3>2
  <2>5. log[i] = f
    BY <1>2, <2>2, <2>3, <2>4, SameRequest DEF Answers, Tagged
  <2> QED
    BY <2>5
<1>7. ReportedIsExecuted'
  BY <1>5, <1>6 DEF IInv, ReportedIsExecuted, OnSecureResponse
<1>8. ReqInv'
  BY <1>5 DEF IInv, ReqInv
<1> QED
  BY <1>3, <1>4, <1>5, <1>7, <1>8, DevType, HostOnly

LEMMA HostFailsStep ==
  ASSUME IInv, NEW h \in Hosts, HostFails(h) \/ NewProcess(h)
  PROVE  IInv'
<1>1. HostOK(h) /\ host = [k \in Hosts |-> host[k]]
  BY HostType
<1>2. host' = [k \in Hosts |-> IF k = h THEN host'[h] ELSE host[k]]
  BY <1>1 DEF HostFails, NewProcess
<1>3. \/ host'[h] = [host[h] EXCEPT !.pc = "idle"]
      \/ host'[h] = [host[h] EXCEPT !.key = None, !.sid = None, !.next = 1,
                                    !.pc = "idle"]
      \/ host'[h] = NewSession
  BY <1>1 DEF HostFails, NewProcess, Invalidated
<1>4. HostOK(h)'
  <2>0. /\ host[h] \in HostRecords /\ None \in Codes /\ None \in Frames
        /\ None \in Sids /\ 1 \in Nat
    BY <1>1 DEF HostOK, Codes, Frames, Sids
  <2>1. CASE host'[h] = NewSession
    <3>1. NewSession \in HostRecords /\ NewSession.pc = "idle"
          /\ NewSession.key = None
      BY <2>0 DEF HostRecords, NewSession
    <3> QED
      BY <2>1, <3>1 DEF HostOK
  <2>2. CASE host'[h] = [host[h] EXCEPT !.pc = "idle"]
    <3>1. /\ host'[h] \in HostRecords /\ host'[h].pc = "idle"
          /\ host'[h].key = host[h].key /\ host'[h].sid = host[h].sid
      BY <2>0, <2>2 DEF HostRecords
    <3> QED
      BY <1>1, <3>1 DEF HostOK
  <2>3. CASE host'[h] = [host[h] EXCEPT !.key = None, !.sid = None, !.next = 1,
                                        !.pc = "idle"]
    <3>1. /\ host'[h] \in HostRecords /\ host'[h].pc = "idle"
          /\ host'[h].key = None
      BY <2>0, <2>3 DEF HostRecords
    <3> QED
      BY <1>1, <3>1 DEF HostOK
  <2> QED
    BY <1>3, <2>1, <2>2, <2>3
<1>5. UNCHANGED <<dev, reqs, resps, now, cn, dn, log, done>>
  BY DEF HostFails, NewProcess
<1>6. ReqInv' /\ ReportedIsExecuted'
  BY <1>5 DEF IInv, ReqInv, ReportedIsExecuted
<1> QED
  BY <1>2, <1>4, <1>5, <1>6, DevType, HostOnly

-----------------------------------------------------------------------------
LEMMA InitIInv == Init => IInv
<1> SUFFICES ASSUME Init PROVE IInv
  OBVIOUS
<1>1. DevInv
  BY DEF Init, DevInv, security_init, NoPending, NoSession
<1>2. ReqInv /\ RespInv /\ LogInv /\ AtMostOnce /\ ReportedIsExecuted
  BY DEF Init, ReqInv, RespInv, LogInv, AtMostOnce, ReportedIsExecuted
<1>3. HostInv
  <2>1. NewSession \in HostRecords /\ NewSession.pc = "idle" /\ NewSession.key = None
    BY DEF NewSession, HostRecords, Codes, Frames, Sids
  <2>2. host = [h \in Hosts |-> NewSession]
    BY DEF Init
  <2> QED
    BY <2>1, <2>2 DEF HostInv, HostOK
<1> QED
  BY <1>1, <1>2, <1>3 DEF IInv

\* A frame of the link or noise: what each handler of the device is given.
LEMMA ReceiveStep == ASSUME IInv, Receive PROVE IInv'
<1> SUFFICES ASSUME NEW f \in reqs,
                    AuthBegin(f) \/ AuthFinish(f) \/ SecureCommand(f)
             PROVE  IInv'
  BY DEF Receive
<1>1. f \in BeginFrames \cup FinishFrames \cup SecureFrames
  BY DEF IInv, ReqInv
<1>2. CASE AuthBegin(f)
  <2>1. f \in BeginFrames
    BY <1>1, <1>2 DEF AuthBegin, FinishFrames, SecureFrames
  <2> QED
    BY <1>2, <2>1, AuthBeginStep DEF BeginFrames
<1>3. CASE AuthFinish(f)
  <2>1. f \in FinishFrames
    BY <1>1, <1>3 DEF AuthFinish, BeginFrames, SecureFrames
  <2> QED
    BY <1>3, <2>1, AuthFinishStep DEF FinishFrames
<1>4. CASE SecureCommand(f)
  <2>1. f \in SecureFrames
    BY <1>1, <1>4 DEF SecureCommand, BeginFrames, FinishFrames
  <2> QED
    BY <1>4, <2>1, SecureCommandStep DEF Received
<1> QED
  BY <1>2, <1>3, <1>4

LEMMA ReceiveNoiseStep == ASSUME IInv, ReceiveNoise PROVE IInv'
<1>1. ASSUME NEW role \in Roles,
             AuthBegin([type |-> "begin", seq |-> 0, role |-> role, client |-> Bad])
      PROVE  IInv'
  <2> DEFINE f == [type |-> "begin", seq |-> 0, role |-> role, client |-> Bad]
  <2>1. f.seq \in Nat /\ f.role \in Roles /\ f.client \in Nat \cup {Bad}
    OBVIOUS
  <2>2. AuthBegin(f)
    BY <1>1
  <2> HIDE DEF f
  <2> QED
    BY <2>1, <2>2, AuthBeginStep
<1>2. ASSUME NEW sid \in SessionIds, NEW role \in Roles,
             AuthFinish([type |-> "finish", seq |-> 0, role |-> role,
                         sid |-> sid, proof |-> Bad])
      PROVE  IInv'
  <2> DEFINE f == [type |-> "finish", seq |-> 0, role |-> role, sid |-> sid,
                   proof |-> Bad]
  <2>1. f.seq \in Nat
    OBVIOUS
  <2>2. AuthFinish(f)
    BY <1>2
  <2> HIDE DEF f
  <2> QED
    BY <2>1, <2>2, AuthFinishStep
<1>3. ASSUME NEW sid \in SessionIds, NEW c \in 1 .. CounterMod - 1,
             NEW cmd \in Commands,
             SecureCommand([type |-> "secure", seq |-> 0, sid |-> sid,
                            counter |-> c, cmd |-> cmd, tag |-> Bad])
      PROVE  IInv'
  <2> DEFINE f == [type |-> "secure", seq |-> 0, sid |-> sid, counter |-> c,
                   cmd |-> cmd, tag |-> Bad]
  <2>1. Received(f)
    BY Counters DEF Received
  <2>2. SecureCommand(f)
    BY <1>3
  <2> HIDE DEF f
  <2> QED
    BY <2>1, <2>2, SecureCommandStep
<1> QED
  BY <1>1, <1>2, <1>3 DEF ReceiveNoise

LEMMA NextIInv == IInv /\ [Next]_vars => IInv'
<1> SUFFICES ASSUME IInv, [Next]_vars PROVE IInv'
  OBVIOUS
<1>1. CASE UNCHANGED vars
  BY <1>1 DEF vars, IInv, DevInv, ReqInv, HostInv, HostOK, LogInv, LogOK, RespInv,
     AtMostOnce, ReportedIsExecuted
<1>2. CASE SecurityConfigure \/ Receive \/ ReceiveNoise \/ Expire \/ DeviceReset
           \/ Tick
  BY <1>2, ConfigureStep, ReceiveStep, ReceiveNoiseStep, ExpireStep, ResetStep,
     TickStep
<1>3. ASSUME NEW h \in Hosts, HostStep(h) PROVE IInv'
  <2>1. ASSUME NEW cmd \in Commands \cup {None}, Authenticate(h, cmd) PROVE IInv'
    BY <2>1, AuthenticateStep
  <2>2. ASSUME NEW cmd \in Commands, Exchange(h, cmd) PROVE IInv'
    BY <2>2, ExchangeStep
  <2>3. ASSUME NEW r \in resps,
               OnChallenge(h, r) \/ OnAuthenticated(h, r) \/ OnSecureResponse(h, r)
        PROVE  IInv'
    BY <2>3, OnChallengeStep, OnAuthenticatedStep, OnSecureResponseStep
  <2>4. CASE HostFails(h) \/ NewProcess(h)
    BY <2>4, HostFailsStep
  <2> QED
    BY <1>3, <2>1, <2>2, <2>3, <2>4 DEF HostStep
<1> QED
  BY <1>1, <1>2, <1>3 DEF Next

\* The inductive invariant holds in every reachable state.
THEOREM SessionInvariant == Spec => []IInv
BY InitIInv, NextIInv, PTL DEF Spec

\* Roles stay within what the device is configured to grant, counters within
\* their range, hosts at one of their stages (guardian_security.c).
THEOREM TypeCorrect == Spec => []TypeOK
<1>1. IInv => TypeOK
  <2> SUFFICES ASSUME IInv PROVE TypeOK
    OBVIOUS
  <2>1. /\ dev.pending.valid => dev.pending.role \in 1 .. MaxRole
        /\ dev.session.valid => /\ dev.session.next \in 1 .. CounterMod - 1
                                /\ dev.session.role \in 1 .. MaxRole
    BY DevType, Shapes DEF Pendings, Sessions
  <2>2. \A h \in Hosts :
          host[h].pc \in {"idle", "begin", "finish", "ready", "command"}
    BY HostType DEF HostOK, HostRecords
  <2> QED
    BY <2>1, <2>2, DevType DEF TypeOK
<1> QED
  BY <1>1, SessionInvariant, PTL

\* No privileged command is carried out twice: for every number of hosts,
\* sessions, resets and repeated frames (guardian_security_unwrap_request).
THEOREM NeverTwice == Spec => []AtMostOnce
<1>1. IInv => AtMostOnce
  BY DEF IInv
<1> QED
  BY <1>1, SessionInvariant, PTL

\* Every command carried out came from a host whose own role suffices for it
\* (guardian_security_auth_finish, guardian_security_authorize).
THEOREM AuthorizedOnly == Spec => []OnlyAuthorized
<1>1. IInv => OnlyAuthorized
  <2> SUFFICES ASSUME IInv, NEW i \in 1 .. Len(log)
               PROVE  \E h \in Hosts :
                        /\ log[i] \in reqs
                        /\ log[i].tag.key.role = Role[h]
                        /\ Role[h] >= RequiredRole[log[i].cmd]
                        /\ Role[h] <= MaxRole
    BY DEF OnlyAuthorized
  <2>1. LogOK(log[i])
    BY DEF IInv, LogInv
  <2>2. Tagged(log[i])
    BY <2>1 DEF LogOK, IInv, ReqInv
  <2> QED
    BY <2>1, <2>2 DEF LogOK, Tagged
<1> QED
  BY <1>1, SessionInvariant, PTL

\* A host reports a command as carried out only if the device carried out that
\* very request (GuardianSecuritySession.exchange, decode_secure_response).
THEOREM ReportsAreTrue == Spec => []ReportedIsExecuted
<1>1. IInv => ReportedIsExecuted
  BY Zenon DEF IInv
<1> QED
  BY <1>1, SessionInvariant, PTL

-----------------------------------------------------------------------------
(* The life of a session.                                                  *)

\* A host cannot reach into the device.
LEMMA HostsAreRemote ==
  ASSUME NEW h \in Hosts, HostStep(h)
  PROVE  UNCHANGED <<dev, log>>
BY DEF HostStep, Authenticate, Exchange, OnChallenge, OnAuthenticated,
   OnSecureResponse, HostFails, NewProcess

\* The steps of the device that may end or move the session.
LEMMA SessionMoves ==
  ASSUME IInv, [Next]_vars, dev.session.valid, dev'.session # dev.session
  PROVE  \/ now - dev.session.last >= SessionTimeout
         \/ dev' = security_init
         \/ dev.session.next = CounterMod - 1
         \/ dev'.session.valid /\ dev'.session.key = dev.session.key
              /\ dev'.session.next = dev.session.next + 1
         \/ \E f \in reqs : /\ f.type = "finish" /\ dev'.session.valid
                            /\ f.proof.client = dev'.session.key.client
                            /\ f.proof.device = dev'.session.key.device
<1> DEFINE Goal ==
      \/ now - dev.session.last >= SessionTimeout
      \/ dev' = security_init
      \/ dev.session.next = CounterMod - 1
      \/ dev'.session.valid /\ dev'.session.key = dev.session.key
           /\ dev'.session.next = dev.session.next + 1
      \/ \E f \in reqs : /\ f.type = "finish" /\ dev'.session.valid
                         /\ f.proof.client = dev'.session.key.client
                         /\ f.proof.device = dev'.session.key.device
<1>1. dev.session \in Sessions /\ dev.session # NoSession
  BY DevType, Shapes
<1>2. CASE Expire
  <2>1. dev'.session = expire_session(dev.session)
    BY <1>2, DevType DEF Expire
  <2> QED
    BY <2>1 DEF expire_session
<1>3. CASE DeviceReset
  BY <1>3 DEF DeviceReset
<1>4. CASE SecurityConfigure
  BY <1>1, <1>4 DEF SecurityConfigure, IInv, DevInv
<1>5. ASSUME NEW f, AuthBegin(f) PROVE Goal
  BY <1>5, DevType DEF AuthBegin
<1>6. ASSUME NEW f, AuthFinish(f), f \in reqs \/ f.proof = Bad PROVE Goal
  <2> DEFINE p == expire_pending(dev.pending)
  <2>1. CASE ~finish_accepts(f, p)
    BY <1>6, <2>1, DevType DEF AuthFinish
  <2>2. CASE finish_accepts(f, p)
    <3>1. p \in Pendings
      BY <2>2, DevType, Shapes DEF finish_accepts
    <3>2. dev'.session = open_session(p)
      BY <1>6, <2>2, DevType DEF AuthFinish
    <3>3. f.proof = handshake_mac("CLIENT", p.role, p.sid, p.client, p.device)
      BY <2>2 DEF finish_accepts
    <3> HIDE DEF p
    <3>4. f.proof \in Macs("CLIENT")
      BY <3>1, <3>3, GrantedRoles DEF handshake_mac, Macs, Pendings
    <3>5. f \in reqs /\ f.type = "finish"
      BY <1>6, <3>4, BadIsNoMac DEF AuthFinish
    <3>6. /\ dev'.session.valid
          /\ f.proof.client = dev'.session.key.client
          /\ f.proof.device = dev'.session.key.device
      BY <3>2, <3>3 DEF open_session, handshake_mac
    <3> QED
      BY <3>5, <3>6
  <2> QED
    BY <2>1, <2>2
<1>7. ASSUME NEW f, SecureCommand(f) PROVE Goal
  <2> DEFINE s == expire_session(dev.session)
  <2>1. dev'.session = unwrap_session(f, s)
    BY <1>7, DevType DEF SecureCommand
  <2>2. CASE s # dev.session
    BY <2>2 DEF expire_session
  <2>3. CASE s = dev.session
    <3>1. dev'.session = consumed(dev.session)
      BY <2>1, <2>3 DEF unwrap_session
    <3>2. \/ dev.session.next = CounterMod - 1
          \/ /\ dev'.session \in Sessions /\ dev'.session.key = dev.session.key
             /\ dev'.session.next = dev.session.next + 1
      BY <1>1, <3>1, ConsumedShape, DevType
    <3>3. dev'.session \in Sessions => dev'.session.valid
      BY Shapes
    <3> QED
      BY <3>2, <3>3
  <2> QED
    BY <2>2, <2>3
<1>8. CASE Receive
  BY <1>5, <1>6, <1>7, <1>8 DEF Receive
<1>9. CASE ReceiveNoise
  <2>1. ASSUME NEW sid \in SessionIds, NEW role \in Roles,
               AuthFinish([type |-> "finish", seq |-> 0, role |-> role,
                           sid |-> sid, proof |-> Bad])
        PROVE  Goal
    <3> DEFINE f == [type |-> "finish", seq |-> 0, role |-> role, sid |-> sid,
                     proof |-> Bad]
    <3>1. AuthFinish(f) /\ f.proof = Bad
      BY <2>1
    <3> HIDE DEF f
    <3> QED
      BY <3>1, <1>6
  <2> QED
    BY <1>5, <1>7, <1>9, <2>1 DEF ReceiveNoise
<1>10. CASE Tick \/ UNCHANGED vars \/ \E h \in Hosts : HostStep(h)
  <2>1. UNCHANGED dev
    BY <1>10, HostsAreRemote DEF Tick, vars
  <2> QED
    BY <2>1
<1> QED
  BY <1>2, <1>3, <1>4, <1>8, <1>9, <1>10 DEF Next

\* Nothing is executed in a session that has been idle for the timeout.
LEMMA ExecutionIsTimely ==
  ASSUME IInv, [Next]_vars, log' # log
  PROVE  now - dev.session.last < SessionTimeout
<1>1. PICK f : SecureCommand(f) /\ log' # log
  <2>1. Receive \/ ReceiveNoise
    BY HostsAreRemote DEF Next, vars, Expire, SecurityConfigure, DeviceReset, Tick
  <2>2. \A f : AuthBegin(f) \/ AuthFinish(f) => log' = log
    BY DEF AuthBegin, AuthFinish
  <2> QED
    BY <2>1, <2>2 DEF Receive, ReceiveNoise
<1>2. expire_session(dev.session).valid
  BY <1>1 DEF SecureCommand, authorize
<1>3. expire_session(dev.session) = dev.session /\ dev.session \in Sessions
      /\ dev.session.valid
  BY <1>2, DevType, Shapes
<1>4. ~(now - dev.session.last >= SessionTimeout)
  BY <1>3, Shapes DEF expire_session
<1>5. dev.session.last \in Nat /\ now \in Nat /\ SessionTimeout \in Nat
  BY <1>3, DevType, SessionAssumption DEF Sessions
<1> QED
  BY <1>4, <1>5

\* A session lives from its proof to its end and no longer: unauthenticated
\* traffic never ends it, and nothing is executed in it once it has expired
\* (auth_begin, auth_finish, expire_session).
THEOREM Lifetime == Spec => SessionLifetime
<1>1. IInv /\ [Next]_vars =>
        [dev.session.valid /\ dev'.session # dev.session =>
           \/ now - dev.session.last >= SessionTimeout
           \/ dev' = security_init
           \/ dev.session.next = CounterMod - 1
           \/ dev'.session.valid /\ dev'.session.key = dev.session.key
                /\ dev'.session.next = dev.session.next + 1
           \/ \E f \in reqs : /\ f.type = "finish" /\ dev'.session.valid
                              /\ f.proof.client = dev'.session.key.client
                              /\ f.proof.device = dev'.session.key.device]_vars
  BY SessionMoves
<1>2. IInv /\ [Next]_vars =>
        [log' # log => now - dev.session.last < SessionTimeout]_vars
  BY ExecutionIsTimely
<1> QED
  BY <1>1, <1>2, SessionInvariant, PTL DEF Spec, SessionLifetime,
     SessionOnlyReplacedByProof, IdleSessionIsDead
=============================================================================
