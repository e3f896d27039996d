---------------------- MODULE AssuranceFreshness_proofs ----------------------
(***************************************************************************)
(* Proofs about the durable freshness and the authorizations of the host   *)
(* assurance library, for any number of callers, epochs, logical times and *)
(* sequences, whatever fails and whenever power is lost, as long as no two *)
(* callers are inside commit of one file (Overlap = FALSE).                *)
(***************************************************************************)
EXTENDS AssuranceFreshness, TLAPS

(***************************************************************************)
(* Orders.  Both kinds of files move forward only: every record that power *)
(* loss may leave is below the committed one.  Freshness states are        *)
(* ordered by generation, transactions by sequence; that both orders agree *)
(* with the transition count is what makes comparing generations alone     *)
(* (projectable) safe.                                                     *)
(***************************************************************************)
fresh == committed["freshness"]

\* Transaction u was committed after t.
Before(t, u) ==
    /\ t.sequence < u.sequence
    /\ t.result.generation < u.result.generation
    /\ t.result.transition < u.result.transition

Upto(t, u) == t = u \/ Before(t, u)
Ordered(t, u) == t = u \/ Before(t, u) \/ Before(u, t)

\* State n replaced s, possibly over several steps.
Below(s, n) ==
    /\ s.generation < n.generation
    /\ \/ s.transition < n.transition
       \/ /\ s.transition = n.transition /\ s.epoch = n.epoch
          /\ n.high # None /\ (s.high # None => s.high < n.high)

\* A state that transaction t may be projected onto is of an earlier tenure.
Behind(s, t) == s.generation < t.result.generation => s.transition < t.result.transition

\* Report r was made before the statement that led to state s.
Precedes(r, s) ==
    \/ r.transition < s.transition
    \/ /\ r.transition = s.transition /\ r.epoch = s.epoch
       /\ s.high # None /\ r.time < s.high

\* The scope of a transaction: a bootstrap makes tenure number 0.
scope(t) == IF t.result.transition = 0 THEN "bootstrap" ELSE "transition"

-----------------------------------------------------------------------------
(***************************************************************************)
(* The inductive invariant: of the files, of each request r, and of each   *)
(* two requests.                                                           *)
(***************************************************************************)
Writing == {"commit", "write", "replace", "sync", "verify", "project"}
Deciding == {"commit", "write", "replace"}

\* r is between commit's comparison and the end of commit.
Committing(r) == r.pc \in {"write", "replace", "sync"}

\* r's file has been replaced, or r took a transaction up.
Replaced(r) == r.pc \in {"sync", "verify", "project"}

\* r carries a transaction that is or was in its scope's file.
Carrying(r) ==
    \/ r.file # "freshness" /\ Replaced(r)
    \/ r.file = "freshness" /\ r.job # "statement" /\ r.pc \in Writing

transaction(r) == IF r.file = "freshness" THEN r.replay ELSE r.next

\* r has prepared a transaction and has not replaced the file yet.
Preparing(r) == r.file # "freshness" /\ r.pc \in Deciding

Kind(f) == IF f = "freshness" THEN FreshnessState ELSE Transaction

\* The committed record is one that power loss may leave, and the newest.
FileInv ==
    /\ \A f \in Files :
         /\ committed[f] \in disk[f] /\ disk[f] \subseteq Kind(f) \cup {None}
         /\ committed[f] = None => disk[f] = {None}
    /\ \A p \in Purposes : \A t \in disk[p] : t # None =>
         /\ scope(t) = p /\ Upto(t, committed[p])
         /\ p = "bootstrap" => t.result.generation = 0
    /\ \A s \in disk["freshness"] : s # None =>
         /\ s = fresh \/ Below(s, fresh)
         /\ \A t \in disk["transition"] : t # None => Behind(s, t)

KindOK(r) ==
    /\ r \in Caller
    /\ r.file # "freshness" => r.job \in {r.file, "recover"}
    /\ r.pc \in Writing => r.next \in Kind(r.file)
    /\ r.pc = "project" => r.file # "freshness"
    /\ Carrying(r) => transaction(r) \in Transaction
    /\ r.pc \in {"told", "loaded"} =>
         /\ r.job \in Purposes /\ r.epoch \in Epochs /\ r.file = "freshness"
         /\ r.job = "bootstrap" => r.time \in LogicalTimes

\* What commit compared with stays until the file is replaced.
CommitOK(r) ==
    /\ r.pc \in {"write", "replace"} =>
         IF r.file = "freshness" THEN fresh = r.state
         ELSE IF r.replay = None THEN committed[r.file] = None
         ELSE /\ committed[r.file] # None
              /\ committed[r.file].sequence = r.replay.sequence
              /\ committed[r.file].result = r.state
    /\ r.pc = "replace" => candidate[r.file] = r.next
    /\ r.pc = "sync" => committed[r.file] = r.next

\* A candidate for the freshness file follows the state it was prepared
\* against; once it is durable and still committed it is newer than every
\* statement declared FRESH.
StateOK(r) ==
    /\ r.file = "freshness" /\ r.job = "statement" /\ r.pc \in Deciding =>
         /\ r.state \in FreshnessState /\ r.state # None /\ Below(r.state, r.next)
         /\ r.next.transition = r.state.transition
    /\ r.file = "freshness" /\ r.job = "statement" /\ r.pc \in Writing => r.next.high # None
    /\ r.file = "freshness" /\ Replaced(r) =>
         /\ fresh # None /\ fresh.generation >= r.next.generation
         /\ r.pc = "verify" /\ fresh = r.next => disk["freshness"] = {fresh}
         /\ r.job = "statement" /\ fresh = r.next =>
              \A i \in DOMAIN reports : Precedes(reports[i], fresh)

\* A prepared transaction follows the one it was prepared against, and is
\* ahead of every freshness state it may be projected onto.
PreparedOK(r) ==
    /\ r.pc = "told" /\ r.job = "transition" => fresh # None
    /\ r.job = "transition" /\ (r.pc = "loaded" \/ Preparing(r)) =>
         /\ r.state \in FreshnessState /\ fresh # None
         /\ fresh.generation >= r.state.generation
         /\ \A s \in disk["freshness"] :
              s # None /\ s.generation <= r.state.generation =>
                s.transition <= r.state.transition
    /\ Preparing(r) =>
         /\ r.job = r.file /\ scope(r.next) = r.job
         /\ r.replay # None => r.next.sequence > r.replay.sequence
         /\ r.job = "bootstrap" => r.replay = None /\ r.next.result.generation = 0
         /\ r.job = "transition" =>
              /\ r.next.result.generation = r.state.generation + 1
              /\ r.next.result.transition = r.state.transition + 1

\* A transaction that is being projected is in line with those that power loss
\* may leave of its scope, which all follow it where a lifecycle projects it
\* (a recovery may project one that is not durable), and ahead of every
\* freshness state that is older than it.
CarriedOK(r) ==
    Carrying(r) =>
      LET t == transaction(r) p == scope(t) IN
      /\ r.job \in {p, "recover"} /\ r.file \in {p, "freshness"}
      /\ committed[p] # None /\ Upto(t, committed[p])
      /\ \A u \in disk[p] : u # None => Ordered(t, u)
      /\ r.job # "recover" /\ ~(r.file = p /\ r.pc = "sync") =>
           \A u \in disk[p] : u # None /\ Upto(t, u)
      /\ r.file = "freshness" =>
           /\ r.next = t.result
           /\ r.pc \in Deciding => projectable(r.state, t.result)
      /\ p = "bootstrap" => t.result.generation = 0
      /\ p = "transition" => \A s \in disk["freshness"] : s # None => Behind(s, t)

\* A lifecycle that has committed its transaction can report it, but not
\* after a later one has been reported.
LifecycleOK(r) ==
    Carrying(r) /\ r.job # "recover" =>
      \A i \in DOMAIN authorized :
          authorized[i].purpose = r.job =>
            \/ authorized[i].sequence < transaction(r).sequence
            \/ fresh # None /\ fresh.generation > transaction(r).result.generation

RequestOK(r) ==
    /\ KindOK(r) /\ CommitOK(r) /\ StateOK(r) /\ PreparedOK(r) /\ CarriedOK(r)
    /\ LifecycleOK(r)

\* Two requests: one inside commit of a file, no generation replaced twice,
\* transactions in a chain, and one lifecycle for each.
PairOK(r, q) ==
    /\ Committing(r) /\ Committing(q) => r.file # q.file
    /\ r.file = "freshness" /\ Replaced(r) /\ q.file = "freshness" /\ Replaced(q) =>
         r.next.generation # q.next.generation
    /\ Carrying(r) /\ Carrying(q) /\ scope(transaction(r)) = scope(transaction(q)) =>
         /\ Ordered(transaction(r), transaction(q))
         /\ r.job = q.job /\ r.job # "recover" =>
              transaction(r).sequence # transaction(q).sequence

HistoryInv == UsedOnce /\ ReportedIsDurable

IInv ==
    /\ TypeOK /\ FileInv /\ HistoryInv
    /\ \A c \in Callers : RequestOK(caller[c])
    /\ \A c, d \in Callers : c # d => PairOK(caller[c], caller[d])

-----------------------------------------------------------------------------
(* The orders *)

LEMMA Numbers ==
  /\ \A n \in 0 .. UINT64_MAX : n \in Nat
  /\ \A n \in LogicalTimes : n \in Nat
  /\ \A n \in AuthorizationSequences : n \in Nat
BY AssuranceAssumption

LEMMA StateFields ==
  \A s \in FreshnessState :
    /\ s.epoch \in Epochs /\ s.high \in Nat \cup {None}
    /\ s.transition \in Nat /\ s.generation \in Nat
<1> SUFFICES ASSUME NEW s \in FreshnessState
             PROVE  /\ s.epoch \in Epochs /\ s.high \in Nat \cup {None}
                    /\ s.transition \in Nat /\ s.generation \in Nat
  OBVIOUS
<1>1. /\ s.epoch \in Epochs /\ s.high \in LogicalTimes \cup {None}
      /\ s.transition \in 0 .. UINT64_MAX /\ s.generation \in 0 .. UINT64_MAX
  BY DEF FreshnessState
<1> QED
  BY <1>1, Numbers

LEMMA TransactionFields ==
  \A t \in Transaction :
    /\ t.sequence \in Nat /\ t.sequence \in AuthorizationSequences
    /\ t.result \in FreshnessState
    /\ t.result.transition \in Nat /\ t.result.generation \in Nat
<1> SUFFICES ASSUME NEW t \in Transaction
             PROVE  /\ t.sequence \in Nat /\ t.sequence \in AuthorizationSequences
                    /\ t.result \in FreshnessState
  BY StateFields
<1>1. t.sequence \in AuthorizationSequences /\ t.result \in FreshnessState
  BY DEF Transaction
<1> QED
  BY <1>1, Numbers

LEMMA UptoTransitive ==
  \A t, u, v \in Transaction : Upto(t, u) /\ Upto(u, v) => Upto(t, v)
BY TransactionFields DEF Upto, Before

LEMMA UptoOrdered ==
  \A t, u, v \in Transaction : Upto(t, v) /\ v = u => Ordered(t, u) /\ Ordered(u, t)
BY DEF Upto, Ordered

LEMMA BelowTransitive ==
  \A s, n, m \in FreshnessState : Below(s, n) /\ Below(n, m) => Below(s, m)
BY StateFields, AssuranceAssumption DEF Below

LEMMA PairSymmetric == \A r, q : PairOK(r, q) => PairOK(q, r)
BY DEF PairOK, Ordered

LEMMA FileNames ==
  /\ Files = {"freshness", "bootstrap", "transition"}
  /\ Purposes = {"bootstrap", "transition"}
  /\ \A f \in Files : f \in Purposes <=> f # "freshness"
BY DEF Files, Purposes

LEMMA CallerFields ==
  \A r \in Caller :
    /\ r.pc \in {"idle", "told", "loaded"} \cup Writing
    /\ r.job \in {"statement", "bootstrap", "transition", "recover"}
    /\ r.file \in Files /\ r.state \in FreshnessFile /\ r.replay \in TransactionFile
    /\ r.epoch \in Epochs \cup {None} /\ r.time \in LogicalTimes \cup {None}
BY DEF Caller, Writing

\* An idle request obliges to nothing.
LEMMA IdleOK == RequestOK(Idle) /\ \A q : PairOK(Idle, q)
<1>1. /\ Idle.pc = "idle" /\ Idle.job = "statement" /\ Idle.file = "freshness"
  BY DEF Idle
<1>2. Idle \in Caller
  BY FileNames DEF Idle, Caller, FreshnessFile, TransactionFile, Content
<1>3. ~Committing(Idle) /\ ~Replaced(Idle) /\ ~Carrying(Idle) /\ ~Preparing(Idle)
  BY <1>1 DEF Committing, Replaced, Carrying, Preparing, Writing, Deciding
<1>4. KindOK(Idle)
  BY <1>1, <1>2, <1>3 DEF KindOK, Writing
<1>5. CommitOK(Idle) /\ StateOK(Idle) /\ PreparedOK(Idle) /\ CarriedOK(Idle) /\ LifecycleOK(Idle)
  BY <1>1, <1>3 DEF CommitOK, StateOK, PreparedOK, CarriedOK, LifecycleOK, Deciding, Writing
<1>6. \A q : PairOK(Idle, q)
  BY <1>3 DEF PairOK
<1> QED
  BY <1>4, <1>5, <1>6 DEF RequestOK

\* Requests that stay, over files and histories that stay.
LEMMA RequestStays ==
  ASSUME NEW r, RequestOK(r), UNCHANGED <<committed, disk, candidate, reports, authorized>>
  PROVE  RequestOK(r)'
<1>1. KindOK(r)' /\ CommitOK(r)'
  BY DEF RequestOK, KindOK, CommitOK, fresh, Carrying, Replaced, transaction
<1>2. StateOK(r)'
  BY DEF RequestOK, StateOK, fresh, Replaced
<1>3. PreparedOK(r)'
  BY DEF RequestOK, PreparedOK, fresh, Preparing
<1>4. CarriedOK(r)' /\ LifecycleOK(r)'
  BY DEF RequestOK, CarriedOK, LifecycleOK, fresh, Carrying, Replaced, transaction, projectable
<1> QED
  BY <1>1, <1>2, <1>3, <1>4 DEF RequestOK

LEMMA OneMoves ==
  ASSUME IInv, NEW c \in Callers, caller' \in [Callers -> Caller],
         \A d \in Callers \ {c} : caller'[d] = caller[d],
         UNCHANGED <<committed, disk, candidate, reports, authorized>>,
         RequestOK(caller'[c]), \A d \in Callers \ {c} : PairOK(caller'[c], caller[d])
  PROVE  IInv'
<1>1. TypeOK' /\ FileInv' /\ HistoryInv'
  <2>1. TypeOK'
    BY DEF IInv, TypeOK
  <2>2. FileInv'
    BY DEF IInv, FileInv, fresh
  <2>3. HistoryInv'
    BY DEF IInv, HistoryInv, UsedOnce, FreshAtMostOnce, ConsumedOnce, ReportedIsDurable
  <2> QED
    BY <2>1, <2>2, <2>3
<1>2. \A d \in Callers : RequestOK(caller[d])'
  <2> TAKE d \in Callers
  <2>1. RequestOK(caller'[d])
    BY DEF IInv
  <2> QED
    BY <2>1, RequestStays
<1>3. \A d, e \in Callers : d # e => PairOK(caller'[d], caller'[e])
  BY PairSymmetric DEF IInv
<1> QED
  BY <1>1, <1>2, <1>3 DEF IInv

LEMMA ContinueFacts ==
  ASSUME TypeOK, NEW c \in Callers, NEW r \in Caller, Continue(c, r)
  PROVE  /\ caller' \in [Callers -> Caller] /\ caller'[c] = r
         /\ \A d \in Callers \ {c} : caller'[d] = caller[d]
BY DEF Continue, TypeOK

LEMMA FailStep ==
  ASSUME IInv, NEW c \in Callers, Continue(c, Idle),
         UNCHANGED <<committed, disk, candidate, reports, authorized>>
  PROVE  IInv'
<1>1. Idle \in Caller /\ TypeOK
  BY IdleOK DEF RequestOK, KindOK, IInv
<1>2. /\ caller' \in [Callers -> Caller] /\ caller'[c] = Idle
      /\ \A d \in Callers \ {c} : caller'[d] = caller[d]
  BY <1>1, ContinueFacts
<1> QED
  BY <1>2, IdleOK, OneMoves

LEMMA RequestFacts ==
  ASSUME IInv, NEW c \in Callers
  PROVE  /\ caller[c] \in Caller /\ TypeOK /\ FileInv
         /\ KindOK(caller[c]) /\ CommitOK(caller[c]) /\ StateOK(caller[c])
         /\ PreparedOK(caller[c]) /\ CarriedOK(caller[c]) /\ LifecycleOK(caller[c])
         /\ fresh # None => fresh \in FreshnessState
BY FileNames DEF IInv, RequestOK, KindOK, FileInv, Kind, fresh

\* A request of the early stages: it holds no file.
LEMMA EarlyOK ==
  ASSUME NEW r \in Caller, r.pc \in {"told", "loaded"}, KindOK(r), PreparedOK(r)
  PROVE  RequestOK(r) /\ \A q : PairOK(r, q)
<1>1. ~Committing(r) /\ ~Replaced(r) /\ ~Carrying(r) /\ r.pc \notin Writing /\ r.pc \notin Deciding
  BY DEF Committing, Replaced, Carrying, Writing, Deciding
<1>2. CommitOK(r) /\ StateOK(r) /\ CarriedOK(r) /\ LifecycleOK(r)
  BY <1>1 DEF CommitOK, StateOK, CarriedOK, LifecycleOK
<1>3. \A q : PairOK(r, q)
  BY <1>1 DEF PairOK
<1> QED
  BY <1>2, <1>3 DEF RequestOK

\* A request that has just prepared a write.
LEMMA CommitStageOK ==
  ASSUME NEW r \in Caller, r.pc = "commit", KindOK(r), StateOK(r), PreparedOK(r), ~Carrying(r)
  PROVE  RequestOK(r) /\ \A q : PairOK(r, q)
<1>1. ~Committing(r) /\ ~Replaced(r)
  BY DEF Committing, Replaced
<1>2. CommitOK(r) /\ CarriedOK(r) /\ LifecycleOK(r)
  BY <1>1 DEF CommitOK, CarriedOK, LifecycleOK
<1>3. \A q : PairOK(r, q)
  BY <1>1 DEF PairOK
<1> QED
  BY <1>2, <1>3 DEF RequestOK

\* A statement that advances the high-water mark gives the next state.
LEMMA AdvancedState ==
  ASSUME NEW s \in FreshnessState, NEW time \in LogicalTimes, generation_left(s),
         s.high # None => time > s.high
  PROVE  LET n == [s EXCEPT !.high = time, !.generation = s.generation + 1] IN
         /\ n \in FreshnessState /\ Below(s, n) /\ n.transition = s.transition
         /\ n.high # None
<1> DEFINE g == s.generation + 1
           n == [s EXCEPT !.high = time, !.generation = g]
<1>1. g \in 0 .. UINT64_MAX /\ s.generation < g
  BY StateFields, AssuranceAssumption DEF generation_left
<1>2. time \in Nat /\ time # None
  BY Numbers, AssuranceAssumption
<1> HIDE DEF g
<1>3. /\ n \in FreshnessState /\ n.epoch = s.epoch /\ n.transition = s.transition
      /\ n.high = time /\ n.generation = g
  BY <1>1 DEF FreshnessState
<1>4. Below(s, n)
  BY <1>1, <1>2, <1>3 DEF Below
<1> QED
  BY <1>2, <1>3, <1>4 DEF g

LEMMA EstablishFreshnessStep ==
  ASSUME IInv, NEW c \in Callers, EstablishFreshness(c) PROVE IInv'
<1>1. PICK epoch \in Epochs, time \in LogicalTimes :
         LET s == load_freshness
             r == [Idle EXCEPT !.pc = "told", !.epoch = epoch]
         IN \/ /\ s = None
               /\ Continue(c, [r EXCEPT !.job = "bootstrap", !.time = time])
            \/ /\ s # None
               /\ evaluate_freshness(s, epoch, time)
                    = "EPOCH_TRANSITION_REQUIRED"
               /\ Continue(c, [r EXCEPT !.job = "transition"])
            \/ /\ s # None
               /\ evaluate_freshness(s, epoch, time) = "FRESH_CANDIDATE"
               /\ generation_left(s)
               /\ Continue(c, [Idle EXCEPT !.pc = "commit", !.state = s,
                     !.next = [s EXCEPT !.high = time,
                                        !.generation = s.generation + 1]])
  BY DEF EstablishFreshness
<1>2. TypeOK /\ (fresh # None => fresh \in FreshnessState)
      /\ UNCHANGED <<committed, disk, candidate, reports, authorized>>
  BY RequestFacts DEF EstablishFreshness, files
<1>3. ASSUME NEW r \in Caller, Continue(c, r), RequestOK(r), \A q : PairOK(r, q)
      PROVE  IInv'
  BY <1>2, <1>3, ContinueFacts, OneMoves
<1>4. CASE fresh = None /\ Continue(c, [[Idle EXCEPT !.pc = "told", !.epoch = epoch]
                                          EXCEPT !.job = "bootstrap", !.time = time])
  <2> DEFINE r == [[Idle EXCEPT !.pc = "told", !.epoch = epoch]
                     EXCEPT !.job = "bootstrap", !.time = time]
  <2>1. /\ r \in Caller /\ r.pc = "told" /\ r.job = "bootstrap" /\ r.epoch = epoch
        /\ r.time = time /\ r.file = "freshness"
    BY IdleOK DEF Idle, Caller, RequestOK, KindOK
  <2> HIDE DEF r
  <2>2. KindOK(r) /\ PreparedOK(r)
    BY <2>1, FileNames DEF KindOK, PreparedOK, Writing, Preparing, Carrying, Replaced, Purposes
  <2>3. RequestOK(r) /\ \A q : PairOK(r, q)
    BY <2>1, <2>2, EarlyOK
  <2> QED
    BY <1>3, <1>4, <2>1, <2>3 DEF r
<1>5. CASE fresh # None /\ Continue(c, [[Idle EXCEPT !.pc = "told", !.epoch = epoch]
                                          EXCEPT !.job = "transition"])
  <2> DEFINE r == [[Idle EXCEPT !.pc = "told", !.epoch = epoch] EXCEPT !.job = "transition"]
  <2>1. /\ r \in Caller /\ r.pc = "told" /\ r.job = "transition" /\ r.epoch = epoch
        /\ r.file = "freshness"
    BY IdleOK DEF Idle, Caller, RequestOK, KindOK
  <2> HIDE DEF r
  <2>2. KindOK(r) /\ PreparedOK(r)
    BY <1>5, <2>1, FileNames
    DEF KindOK, PreparedOK, Writing, Preparing, Carrying, Replaced, Purposes
  <2>3. RequestOK(r) /\ \A q : PairOK(r, q)
    BY <2>1, <2>2, EarlyOK
  <2> QED
    BY <1>3, <1>5, <2>1, <2>3 DEF r
<1>6. CASE /\ fresh # None /\ evaluate_freshness(fresh, epoch, time) = "FRESH_CANDIDATE"
           /\ generation_left(fresh)
           /\ Continue(c, [Idle EXCEPT !.pc = "commit", !.state = fresh,
                 !.next = [fresh EXCEPT !.high = time, !.generation = fresh.generation + 1]])
  <2> DEFINE n == [fresh EXCEPT !.high = time, !.generation = fresh.generation + 1]
             r == [Idle EXCEPT !.pc = "commit", !.state = fresh, !.next = n]
  <2>1. fresh.high # None => time > fresh.high
    BY <1>6 DEF evaluate_freshness, advances
  <2>2. /\ n \in FreshnessState /\ Below(fresh, n) /\ n.transition = fresh.transition
        /\ n.high # None /\ fresh \in FreshnessState
    BY <1>2, <1>6, <2>1, AdvancedState
  <2> HIDE DEF n
  <2>3. /\ r \in Caller /\ r.pc = "commit" /\ r.job = "statement" /\ r.file = "freshness"
        /\ r.state = fresh /\ r.next = n
    BY <2>2, IdleOK DEF Idle, Caller, RequestOK, KindOK, FreshnessFile, Content
  <2> HIDE DEF r
  <2>4. ~Carrying(r) /\ ~Replaced(r) /\ ~Preparing(r)
    BY <2>3 DEF Carrying, Replaced, Preparing
  <2>5. KindOK(r) /\ StateOK(r) /\ PreparedOK(r)
    BY <1>6, <2>2, <2>3, <2>4 DEF KindOK, StateOK, PreparedOK, Kind
  <2>6. RequestOK(r) /\ \A q : PairOK(r, q)
    BY <2>3, <2>4, <2>5, CommitStageOK
  <2> QED
    BY <1>3, <1>6, <2>3, <2>6 DEF r, n
<1> QED
  BY <1>1, <1>4, <1>5, <1>6 DEF load_freshness, fresh

\* Moving on alone, files and histories as they were.
LEMMA MoveStep ==
  ASSUME IInv, NEW c \in Callers, NEW r \in Caller, Continue(c, r), RequestOK(r),
         \A d \in Callers \ {c} : PairOK(r, caller[d]),
         UNCHANGED <<committed, disk, candidate, reports, authorized>>
  PROVE  IInv'
BY RequestFacts, ContinueFacts, OneMoves

LEMMA LoadPreviousStep ==
  ASSUME IInv, NEW c \in Callers, LoadPrevious(c) PROVE IInv'
<1> DEFINE state == IF caller[c].job = "transition" THEN load_freshness ELSE None
           r == [caller[c] EXCEPT !.pc = "loaded", !.state = state,
                                  !.replay = load_transaction(caller[c].job)]
<1>1. /\ caller[c].pc = "told" /\ Continue(c, r)
      /\ UNCHANGED <<committed, disk, candidate, reports, authorized>>
  BY DEF LoadPrevious, files
<1>2. /\ KindOK(caller[c]) /\ PreparedOK(caller[c]) /\ FileInv /\ caller[c] \in Caller
      /\ (fresh # None => fresh \in FreshnessState)
  BY RequestFacts
<1>3. /\ caller[c].job \in Purposes /\ caller[c].file = "freshness"
      /\ caller[c].job = "transition" => fresh # None
  BY <1>1, <1>2 DEF KindOK, PreparedOK
<1>4. state \in FreshnessFile /\ load_transaction(caller[c].job) \in TransactionFile
      /\ (caller[c].job = "transition" => state = fresh)
  BY <1>2, <1>3, FileNames
  DEF load_freshness, load_transaction, FreshnessFile, TransactionFile, FileInv, Kind, fresh
<1> HIDE DEF state
<1>5. /\ r \in Caller /\ r.pc = "loaded" /\ r.state = state /\ r.job = caller[c].job
      /\ r.file = caller[c].file /\ r.epoch = caller[c].epoch /\ r.time = caller[c].time
  BY <1>2, <1>4 DEF Caller
<1> HIDE DEF r
<1>6. KindOK(r)
  BY <1>1, <1>2, <1>3, <1>5 DEF KindOK, Writing, Carrying, Replaced
<1>7. PreparedOK(r)
  <2>1. \A s \in disk["freshness"] : s # None /\ s.generation <= fresh.generation =>
           s.transition <= fresh.transition
    BY <1>2, StateFields, FileNames DEF FileInv, Below, Kind, fresh
  <2> QED
    BY <1>2, <1>3, <1>4, <1>5, <2>1, StateFields DEF PreparedOK, Preparing, Deciding
<1>8. RequestOK(r) /\ \A q : PairOK(r, q)
  BY <1>5, <1>6, <1>7, EarlyOK
<1> QED
  BY <1>1, <1>5, <1>8, MoveStep

\* What a lifecycle prepares.
LEMMA PreparedStep ==
  ASSUME IInv, NEW c \in Callers, NEW purpose \in Purposes, NEW previous \in TransactionFile,
         NEW sequence \in AuthorizationSequences, NEW target \in FreshnessState,
         caller[c].pc = "loaded", caller[c].job = purpose,
         Continue(c, prepared(c, purpose, previous, sequence, target)),
         previous # None => previous.generation < UINT64_MAX /\ sequence > previous.sequence,
         purpose = "bootstrap" =>
           previous = None /\ target.generation = 0 /\ target.transition = 0,
         purpose = "transition" =>
           /\ target.generation = caller[c].state.generation + 1
           /\ target.transition = caller[c].state.transition + 1,
         UNCHANGED <<committed, disk, candidate, reports, authorized>>
  PROVE  IInv'
<1> DEFINE g == IF previous = None THEN 0 ELSE previous.generation + 1
           n == [generation |-> g, sequence |-> sequence, result |-> target]
           r == [caller[c] EXCEPT !.pc = "commit", !.file = purpose, !.replay = previous,
                                  !.epoch = None, !.time = None, !.next = n]
<1>1. KindOK(caller[c]) /\ PreparedOK(caller[c]) /\ caller[c] \in Caller
  BY RequestFacts
<1>2. g \in 0 .. UINT64_MAX
  <2>1. previous # None => previous.generation \in 0 .. UINT64_MAX
    BY DEF TransactionFile, Transaction
  <2> QED
    BY <2>1, AssuranceAssumption
<1> HIDE DEF g
<1>3. n \in Transaction /\ n.sequence = sequence /\ n.result = target
  BY <1>2 DEF Transaction
<1>4. Continue(c, r)
  BY DEF prepared, g
<1> HIDE DEF n
<1>5. /\ r \in Caller /\ r.pc = "commit" /\ r.file = purpose /\ r.job = purpose
      /\ r.replay = previous /\ r.state = caller[c].state /\ r.next = n
  <2>1. n \in Content /\ purpose \in Files
    BY <1>3, FileNames DEF Content, TransactionFile
  <2> QED
    BY <1>1, <2>1 DEF Caller
<1> HIDE DEF r
<1>6. r.file # "freshness" /\ ~Carrying(r) /\ Preparing(r)
  BY <1>5, FileNames DEF Carrying, Replaced, Preparing, Deciding
<1>7. KindOK(r)
  BY <1>3, <1>5, <1>6 DEF KindOK, Kind
<1>8. StateOK(r)
  BY <1>6 DEF StateOK
<1>9. scope(n) = purpose
  <2>1. purpose = "transition" => caller[c].state \in FreshnessState
    BY <1>1 DEF PreparedOK
  <2> QED
    BY <1>3, <2>1, StateFields, FileNames DEF scope
<1>10. PreparedOK(r)
  BY <1>1, <1>3, <1>5, <1>6, <1>9 DEF PreparedOK
<1>11. RequestOK(r) /\ \A q : PairOK(r, q)
  BY <1>5, <1>6, <1>7, <1>8, <1>10, CommitStageOK
<1> QED
  BY <1>4, <1>5, <1>11, MoveStep

LEMMA BootstrapStep == ASSUME IInv, NEW c \in Callers, Bootstrap(c) PROVE IInv'
<1>1. /\ caller[c].pc = "loaded" /\ caller[c].job = "bootstrap"
      /\ UNCHANGED <<committed, disk, candidate, reports, authorized>>
  BY DEF Bootstrap, files
<1>2. PICK sequence \in AuthorizationSequences, high \in {None, caller[c].time} :
         /\ replay_candidate(caller[c].replay, sequence)
         /\ Continue(c, prepared(c, "bootstrap", None, sequence,
                           initial_freshness_state(caller[c].epoch, high)))
  BY DEF Bootstrap
<1> DEFINE target == initial_freshness_state(caller[c].epoch, high)
<1>3. caller[c].epoch \in Epochs /\ high \in LogicalTimes \cup {None}
  BY <1>1, <1>2, RequestFacts DEF KindOK
<1>4. target \in FreshnessState /\ target.generation = 0 /\ target.transition = 0
  BY <1>3, AssuranceAssumption DEF initial_freshness_state, FreshnessState
<1>5. None \in TransactionFile /\ "bootstrap" \in Purposes /\ "bootstrap" # "transition"
  BY FileNames DEF TransactionFile
<1> HIDE DEF target
<1>6. Continue(c, prepared(c, "bootstrap", None, sequence, target))
  BY <1>2 DEF target
<1> QED
  BY <1>1, <1>4, <1>5, <1>6, PreparedStep

LEMMA EpochTransitionStep ==
  ASSUME IInv, NEW c \in Callers, EpochTransition(c) PROVE IInv'
<1> DEFINE s == caller[c].state
           previous == caller[c].replay
<1>1. /\ caller[c].pc = "loaded" /\ caller[c].job = "transition"
      /\ UNCHANGED <<committed, disk, candidate, reports, authorized>>
  BY DEF EpochTransition, files
<1>2. PICK sequence \in AuthorizationSequences, transition \in 0 .. UINT64_MAX :
            /\ replay_candidate(previous, sequence)
            /\ caller[c].epoch # s.epoch
            /\ s.transition # UINT64_MAX
            /\ next_transition(s, transition)
            /\ generation_left(s)
            /\ previous # None => previous.generation # UINT64_MAX
            /\ Continue(c, prepared(c, "transition", previous, sequence,
                   transition_freshness_state(s, caller[c].epoch, transition)))
  BY DEF EpochTransition
<1> DEFINE target == transition_freshness_state(s, caller[c].epoch, transition)
<1>3. /\ caller[c].epoch \in Epochs /\ s \in FreshnessState
      /\ previous \in TransactionFile
  BY <1>1, RequestFacts, CallerFields DEF KindOK, PreparedOK
<1>4. transition = s.transition + 1 /\ s.generation + 1 \in 0 .. UINT64_MAX /\ s.epoch \in Epochs
  BY <1>2, <1>3, StateFields, AssuranceAssumption DEF next_transition, generation_left
<1>5. /\ target \in FreshnessState /\ target.generation = s.generation + 1
      /\ target.transition = s.transition + 1
  BY <1>3, <1>4 DEF transition_freshness_state, FreshnessState
<1>6. previous # None => previous.generation < UINT64_MAX /\ sequence > previous.sequence
  <2>1. previous # None => previous.generation \in 0 .. UINT64_MAX
    BY <1>3 DEF TransactionFile, Transaction
  <2> QED
    BY <1>2, <2>1, AssuranceAssumption DEF replay_candidate
<1>7. "transition" \in Purposes
  BY FileNames
<1> HIDE DEF target, s, previous
<1>8. Continue(c, prepared(c, "transition", previous, sequence, target))
  BY <1>2 DEF target, s, previous
<1> QED
  BY <1>1, <1>3, <1>5, <1>6, <1>7, <1>8, PreparedStep DEF s

\* A request that goes on carrying the transaction it carried.
LEMMA StillCarrying ==
  ASSUME IInv, NEW c \in Callers, NEW r \in Caller, Carrying(caller[c]), Carrying(r),
         transaction(r) = transaction(caller[c]), r.job = caller[c].job,
         Committing(r) => \A d \in Callers \ {c} :
           Committing(caller[d]) => r.file # caller[d].file,
         ~(r.file = "freshness" /\ Replaced(r))
  PROVE  /\ LifecycleOK(r) /\ \A d \in Callers \ {c} : PairOK(r, caller[d])
<1>1. LifecycleOK(r)
  BY RequestFacts DEF LifecycleOK
<1>2. ASSUME NEW d \in Callers \ {c} PROVE PairOK(r, caller[d])
  <2>1. PairOK(caller[c], caller[d])
    BY <1>2 DEF IInv
  <2> QED
    BY <1>2, <2>1 DEF PairOK
<1> QED
  BY <1>1, <1>2

LEMMA ProjectStep ==
  ASSUME IInv, NEW c \in Callers, caller[c].pc = "project",
         projectable(fresh, caller[c].next.result),
         Continue(c, [caller[c] EXCEPT
                    !.pc = "commit", !.file = "freshness",
                    !.state = fresh, !.next = caller[c].next.result,
                    !.replay = caller[c].next]),
         UNCHANGED <<committed, disk, candidate, reports, authorized>>
  PROVE  IInv'
<1> DEFINE t == caller[c].next
           target == t.result
           r == [caller[c] EXCEPT !.pc = "commit", !.file = "freshness", !.state = fresh,
                                  !.next = target, !.replay = t]
<1>1. /\ caller[c] \in Caller /\ KindOK(caller[c]) /\ CarriedOK(caller[c])
      /\ (fresh # None => fresh \in FreshnessState)
  BY RequestFacts
<1>2. /\ caller[c].file # "freshness" /\ Carrying(caller[c]) /\ caller[c].job # "statement"
      /\ transaction(caller[c]) = t /\ t \in Transaction
  BY <1>1, CallerFields, FileNames DEF KindOK, Carrying, Replaced, transaction
<1>3. target \in FreshnessState
  BY <1>2, TransactionFields
<1>4. /\ r \in Caller /\ r.pc = "commit" /\ r.file = "freshness" /\ r.state = fresh
      /\ r.next = target /\ r.replay = t /\ r.job = caller[c].job
  <2>1. /\ target \in Content /\ t \in TransactionFile /\ fresh \in FreshnessFile
        /\ "freshness" \in Files
    BY <1>1, <1>2, <1>3, FileNames DEF Content, TransactionFile, FreshnessFile
  <2> QED
    BY <1>1, <2>1 DEF Caller
<1>5. Continue(c, r)
  OBVIOUS
<1> HIDE DEF r
<1>6. /\ Carrying(r) /\ ~Committing(r) /\ ~Replaced(r) /\ ~Preparing(r)
      /\ transaction(r) = t
  BY <1>2, <1>4 DEF Carrying, Committing, Replaced, Preparing, transaction, Writing
<1>7. KindOK(r)
  BY <1>2, <1>3, <1>4, <1>6 DEF KindOK, Kind
<1>8. CommitOK(r) /\ StateOK(r) /\ PreparedOK(r)
  BY <1>2, <1>4, <1>6 DEF CommitOK, StateOK, PreparedOK
<1>9. CarriedOK(r)
  BY <1>1, <1>2, <1>4, <1>6 DEF CarriedOK
<1>10. LifecycleOK(r) /\ \A d \in Callers \ {c} : PairOK(r, caller[d])
  BY <1>2, <1>4, <1>6, StillCarrying
<1> QED
  BY <1>4, <1>5, <1>7, <1>8, <1>9, <1>10, MoveStep DEF RequestOK

LEMMA VerifyTransactionStep ==
  ASSUME IInv, NEW c \in Callers, VerifyTransaction(c) PROVE IInv'
<1> DEFINE r == [caller[c] EXCEPT !.pc = "project"]
<1>1. /\ caller[c].pc = "verify" /\ caller[c].file \in Purposes /\ Continue(c, r)
      /\ UNCHANGED <<committed, disk, candidate, reports, authorized>>
  BY DEF VerifyTransaction, files
<1>2. caller[c] \in Caller /\ KindOK(caller[c]) /\ CarriedOK(caller[c])
  BY RequestFacts
<1>3. /\ r \in Caller /\ r.pc = "project" /\ r.file = caller[c].file /\ r.job = caller[c].job
      /\ r.next = caller[c].next /\ r.replay = caller[c].replay
  BY <1>2 DEF Caller
<1> HIDE DEF r
<1>4. /\ r.file # "freshness" /\ Carrying(caller[c]) /\ Carrying(r) /\ ~Committing(r)
      /\ ~Preparing(r) /\ transaction(r) = transaction(caller[c])
  BY <1>1, <1>3, FileNames
  DEF Carrying, Committing, Replaced, Preparing, transaction, Deciding
<1>5. KindOK(r)
  BY <1>1, <1>2, <1>3, <1>4 DEF KindOK, Writing
<1>6. CommitOK(r) /\ StateOK(r) /\ PreparedOK(r)
  BY <1>3, <1>4 DEF CommitOK, StateOK, PreparedOK
<1>7. CarriedOK(r)
  BY <1>1, <1>2, <1>3, <1>4 DEF CarriedOK
<1>8. LifecycleOK(r) /\ \A d \in Callers \ {c} : PairOK(r, caller[d])
  BY <1>3, <1>4, StillCarrying
<1> QED
  BY <1>1, <1>3, <1>5, <1>6, <1>7, <1>8, MoveStep DEF RequestOK

LEMMA RecoverStep == ASSUME IInv, NEW c \in Callers, Recover(c) PROVE IInv'
<1>1. PICK p \in Purposes :
         /\ committed[p] # None
         /\ Continue(c, [Idle EXCEPT !.pc = "project", !.job = "recover",
                                     !.file = p, !.next = committed[p]])
  BY DEF Recover, load_transaction
<1> DEFINE t == committed[p]
           r == [Idle EXCEPT !.pc = "project", !.job = "recover", !.file = p, !.next = t]
<1>2. UNCHANGED <<committed, disk, candidate, reports, authorized>> /\ FileInv
  BY RequestFacts DEF Recover, files
<1>3. p \in Files /\ p # "freshness" /\ t \in Transaction /\ t \in disk[p]
  BY <1>1, <1>2, FileNames DEF FileInv, Kind
<1>4. Idle \in Caller
  BY IdleOK DEF RequestOK, KindOK
<1>5. /\ r \in Caller /\ r.pc = "project" /\ r.job = "recover" /\ r.file = p /\ r.next = t
  <2>1. t \in Content
    BY <1>3 DEF Content, TransactionFile
  <2> QED
    BY <1>3, <1>4, <2>1 DEF Caller, Idle
<1>6. Continue(c, r)
  BY <1>1
<1> HIDE DEF r
<1>7. /\ Carrying(r) /\ ~Committing(r) /\ ~Preparing(r) /\ transaction(r) = t
  BY <1>3, <1>5 DEF Carrying, Committing, Replaced, Preparing, transaction, Deciding
<1>8. KindOK(r) /\ CommitOK(r) /\ StateOK(r) /\ PreparedOK(r) /\ LifecycleOK(r)
  BY <1>3, <1>5, <1>7 DEF KindOK, Kind, CommitOK, StateOK, PreparedOK, LifecycleOK
<1>9. scope(t) = p /\ Upto(t, t)
  BY <1>1, <1>2, <1>3 DEF FileInv, Upto
<1>10. CarriedOK(r)
  <2>1. p = "bootstrap" => t.result.generation = 0
    BY <1>1, <1>2, <1>3 DEF FileInv
  <2>2. p = "transition" => \A s \in disk["freshness"] : s # None => Behind(s, t)
    BY <1>1, <1>2, <1>3 DEF FileInv
  <2>3. \A u \in disk[p] : u # None => Ordered(t, u)
    BY <1>2, <1>3 DEF FileInv, Upto, Ordered
  <2> QED
    BY <1>1, <1>3, <1>5, <1>7, <1>9, <2>1, <2>2, <2>3 DEF CarriedOK
<1>11. ASSUME NEW d \in Callers \ {c} PROVE PairOK(r, caller[d])
  <2>1. Carrying(caller[d]) /\ scope(transaction(caller[d])) = p =>
           Upto(transaction(caller[d]), t)
    BY RequestFacts DEF CarriedOK
  <2> QED
    BY <1>3, <1>5, <1>7, <1>9, <2>1 DEF PairOK, Ordered, Upto
<1> QED
  BY <1>2, <1>5, <1>6, <1>8, <1>10, <1>11, MoveStep DEF RequestOK

LEMMA CommitCheckStep ==
  ASSUME Overlap = FALSE, IInv, NEW c \in Callers, CommitCheck(c) PROVE IInv'
<1> DEFINE r == [caller[c] EXCEPT !.pc = "write"]
<1>1. /\ caller[c].pc = "commit"
      /\ UNCHANGED <<committed, disk, candidate, reports, authorized>>
      /\ \A d \in Callers \ {c} :
           caller[d].file # caller[c].file \/ ~Committing(caller[d])
  BY DEF CommitCheck, files, Committing
<1>2. CASE Continue(c, Idle)
  BY <1>1, <1>2, FailStep
<1>3. CASE /\ Continue(c, r)
           /\ IF caller[c].file = "freshness" THEN freshness_unchanged(c)
              ELSE transaction_unchanged(c)
  <2>1. /\ caller[c] \in Caller /\ KindOK(caller[c]) /\ StateOK(caller[c])
        /\ PreparedOK(caller[c]) /\ CarriedOK(caller[c])
    BY RequestFacts
  <2>2. /\ r \in Caller /\ r.pc = "write" /\ r.file = caller[c].file /\ r.job = caller[c].job
        /\ r.next = caller[c].next /\ r.replay = caller[c].replay /\ r.state = caller[c].state
    BY <2>1 DEF Caller
  <2> HIDE DEF r
  <2>4. Carrying(r) = Carrying(caller[c]) /\ Preparing(r) = Preparing(caller[c])
        /\ ~Replaced(r) /\ transaction(r) = transaction(caller[c])
    BY <1>1, <2>2 DEF Carrying, Replaced, Preparing, Deciding, Writing, transaction
  <2>5. KindOK(r)
    BY <1>1, <2>1, <2>2, <2>4 DEF KindOK, Writing
  <2>6. CommitOK(r)
    BY <1>3, <2>2 DEF CommitOK, freshness_unchanged, transaction_unchanged, load_freshness,
                      load_transaction, fresh
  <2>7. StateOK(r)
    BY <1>1, <2>1, <2>2, <2>4 DEF StateOK, Deciding, Writing
  <2>8. PreparedOK(r)
    BY <1>1, <2>1, <2>2, <2>4 DEF PreparedOK
  <2>9. CarriedOK(r)
    BY <1>1, <2>1, <2>2, <2>4 DEF CarriedOK, Deciding
  <2>10. LifecycleOK(r) /\ \A d \in Callers \ {c} : PairOK(r, caller[d])
    <3>1. CASE Carrying(r)
      BY <1>1, <2>2, <2>4, <3>1, StillCarrying
    <3>2. CASE ~Carrying(r)
      BY <1>1, <2>2, <2>4, <3>2 DEF LifecycleOK, PairOK
    <3> QED
      BY <3>1, <3>2
  <2> QED
    BY <1>1, <1>3, <2>2, <2>5, <2>6, <2>7, <2>8, <2>9, <2>10, MoveStep DEF RequestOK
<1> QED
  BY <1>2, <1>3 DEF CommitCheck

-----------------------------------------------------------------------------
(* Steps that change a file *)

\* Requests over a candidate file that changes.
LEMMA RequestKeeps ==
  ASSUME NEW r, KindOK(r), StateOK(r), PreparedOK(r), CarriedOK(r), LifecycleOK(r),
         CommitOK(r)', UNCHANGED <<committed, disk, reports, authorized>>
  PROVE  RequestOK(r)'
<1>1. KindOK(r)'
  BY DEF KindOK, Carrying, Replaced, transaction
<1>2. StateOK(r)'
  BY DEF StateOK, fresh, Replaced
<1>3. PreparedOK(r)'
  BY DEF PreparedOK, fresh, Preparing
<1>4. CarriedOK(r)' /\ LifecycleOK(r)'
  BY DEF CarriedOK, LifecycleOK, fresh, Carrying, Replaced, transaction, projectable
<1> QED
  BY <1>1, <1>2, <1>3, <1>4 DEF RequestOK

LEMMA WriteCandidateStep ==
  ASSUME IInv, NEW c \in Callers, WriteCandidate(c) PROVE IInv'
<1> DEFINE r == [caller[c] EXCEPT !.pc = "replace"]
           f == caller[c].file
<1>1. /\ caller[c].pc = "write" /\ UNCHANGED <<committed, disk, reports, authorized>>
      /\ \/ candidate' = [candidate EXCEPT ![f] = caller[c].next] /\ Continue(c, r)
         \/ candidate' = [candidate EXCEPT ![f] = None] /\ Continue(c, Idle)
  BY DEF WriteCandidate
<1>2. /\ caller[c] \in Caller /\ KindOK(caller[c]) /\ StateOK(caller[c]) /\ CommitOK(caller[c])
      /\ PreparedOK(caller[c]) /\ CarriedOK(caller[c]) /\ TypeOK /\ f \in Files
  BY RequestFacts, CallerFields
<1>3. Idle \in Caller /\ RequestOK(Idle) /\ Idle.pc = "idle"
  BY IdleOK DEF RequestOK, KindOK, Idle
<1>4. /\ r \in Caller /\ r.pc = "replace" /\ r.file = f /\ r.job = caller[c].job
      /\ r.next = caller[c].next /\ r.replay = caller[c].replay /\ r.state = caller[c].state
  BY <1>2 DEF Caller
<1> HIDE DEF r
<1>5. /\ candidate' \in [Files -> Content] /\ \A g \in Files \ {f} : candidate'[g] = candidate[g]
      /\ candidate'[f] = r.next \/ caller'[c] = Idle
      /\ caller' \in [Callers -> Caller] /\ caller'[c] \in {r, Idle}
      /\ \A d \in Callers \ {c} : caller'[d] = caller[d]
  <2>1. caller[c].next \in Content /\ None \in Content
    BY <1>2 DEF Caller, Content, FreshnessFile
  <2>2. CASE candidate' = [candidate EXCEPT ![f] = caller[c].next] /\ Continue(c, r)
    BY <1>2, <1>4, <2>1, <2>2, ContinueFacts DEF TypeOK
  <2>3. CASE candidate' = [candidate EXCEPT ![f] = None] /\ Continue(c, Idle)
    BY <1>2, <1>3, <2>1, <2>3, ContinueFacts DEF TypeOK
  <2> QED
    BY <1>1, <2>2, <2>3
<1>6. /\ KindOK(r) /\ StateOK(r) /\ PreparedOK(r) /\ CarriedOK(r) /\ LifecycleOK(r)
      /\ \A d \in Callers \ {c} : PairOK(r, caller[d])
  <2>1. /\ Carrying(r) = Carrying(caller[c]) /\ Preparing(r) = Preparing(caller[c])
        /\ ~Replaced(r) /\ transaction(r) = transaction(caller[c])
        /\ Committing(r) /\ Committing(caller[c])
    BY <1>1, <1>4 DEF Carrying, Committing, Replaced, Preparing, Deciding, Writing, transaction
  <2>2. KindOK(r)
    BY <1>1, <1>2, <1>4, <2>1 DEF KindOK, Writing
  <2>3. StateOK(r)
    BY <1>1, <1>2, <1>4, <2>1 DEF StateOK, Deciding, Writing
  <2>4. PreparedOK(r) /\ CarriedOK(r)
    BY <1>1, <1>2, <1>4, <2>1 DEF PreparedOK, CarriedOK, Deciding
  <2>5. \A d \in Callers \ {c} : Committing(caller[d]) => r.file # caller[d].file
    BY <1>4, <2>1 DEF IInv, PairOK
  <2>6. LifecycleOK(r) /\ \A d \in Callers \ {c} : PairOK(r, caller[d])
    <3>1. CASE Carrying(r)
      BY <1>4, <2>1, <2>5, <3>1, StillCarrying
    <3>2. CASE ~Carrying(r)
      BY <2>1, <2>5, <3>2 DEF LifecycleOK, PairOK
    <3> QED
      BY <3>1, <3>2
  <2> QED
    BY <2>2, <2>3, <2>4, <2>6
<1>7. CommitOK(caller[c])'
  BY <1>1, <1>2, <1>3, <1>4, <1>5 DEF CommitOK, fresh
<1>8. RequestOK(caller[c])'
  BY <1>1, <1>3, <1>5, <1>6, <1>7, RequestKeeps DEF RequestOK
<1>9. ASSUME NEW d \in Callers \ {c} PROVE RequestOK(caller[d])'
  <2>1. RequestOK(caller[d]) /\ caller[d].file \in Files
    BY RequestFacts, CallerFields DEF IInv
  <2>2. caller[d].pc = "replace" => caller[d].file # f
    <3>1. PairOK(caller[c], caller[d]) /\ Committing(caller[c])
      BY <1>1 DEF IInv, Committing
    <3> QED
      BY <3>1 DEF PairOK, Committing
  <2>3. CommitOK(caller[d])'
    BY <1>1, <1>5, <2>1, <2>2 DEF CommitOK, RequestOK, fresh
  <2> QED
    BY <1>1, <1>5, <2>1, <2>3, RequestKeeps DEF RequestOK
<1>10. \A d, e \in Callers : d # e => PairOK(caller'[d], caller'[e])
  BY <1>5, <1>6, IdleOK, PairSymmetric DEF IInv
<1>11. TypeOK' /\ FileInv' /\ HistoryInv'
  <2>1. TypeOK'
    BY <1>1, <1>2, <1>5 DEF TypeOK
  <2>2. FileInv'
    BY <1>1 DEF IInv, FileInv, fresh
  <2>3. HistoryInv'
    BY <1>1 DEF IInv, HistoryInv, UsedOnce, FreshAtMostOnce, ConsumedOnce, ReportedIsDurable
  <2> QED
    BY <2>1, <2>2, <2>3
<1> QED
  BY <1>8, <1>9, <1>10, <1>11 DEF IInv

LEMMA HistoryTypes ==
  ASSUME IInv
  PROVE  /\ \A i \in DOMAIN authorized :
              authorized[i].purpose \in Purposes /\ authorized[i].sequence \in Nat
         /\ \A i \in DOMAIN reports : reports[i].transition \in Nat /\ reports[i].time \in Nat
<1>1. authorized \in Seq(Consumed) /\ reports \in Seq(Reports)
  BY DEF IInv, TypeOK
<1>2. \A e \in Consumed : e.purpose \in Purposes /\ e.sequence \in Nat
  BY Numbers DEF Consumed
<1>3. \A e \in Reports : e.transition \in Nat /\ e.time \in Nat
  <2>1. \A e \in Reports : e.transition \in 0 .. UINT64_MAX /\ e.time \in LogicalTimes
    BY DEF Reports
  <2> QED
    BY <2>1, Numbers
<1>4. \A i \in DOMAIN authorized : authorized[i] \in Consumed
  BY <1>1
<1>5. \A i \in DOMAIN reports : reports[i] \in Reports
  BY <1>1
<1> QED
  BY <1>2, <1>3, <1>4, <1>5

LEMMA PowerLossStep == ASSUME IInv, PowerLoss PROVE IInv'
<1>1. PICK b \in disk["bootstrap"], t \in disk["transition"], s \in disk["freshness"] :
         committed' = [bootstrap |-> b, transition |-> t, freshness |-> s]
  BY DEF PowerLoss
<1>2. /\ disk' = [f \in Files |-> {committed'[f]}]
      /\ caller' = [c \in Callers |-> Idle]
      /\ candidate' = [f \in Files |-> None]
      /\ reports' = reports /\ authorized' = authorized
  BY DEF PowerLoss
<1>3. \A f \in Files : committed'[f] \in disk[f] /\ disk'[f] = {committed'[f]}
  BY <1>1, <1>2, FileNames
<1>4. Idle \in Caller /\ Idle.pc = "idle" /\ Idle.job = "statement" /\ Idle.file = "freshness"
  BY IdleOK DEF RequestOK, KindOK, Idle
<1>5. TypeOK'
  <2>1. committed' \in [Files -> Content]
    <3>1. DOMAIN committed' = Files /\ committed' = [f \in Files |-> committed'[f]]
      BY <1>1, FileNames
    <3> QED
      BY <1>3, <3>1 DEF IInv, TypeOK
  <2>2. disk' \in [Files -> SUBSET Content]
    BY <1>2, <1>3, <2>1
  <2>3. None \in Content
    BY DEF Content, FreshnessFile
  <2> QED
    BY <1>2, <1>4, <2>1, <2>2, <2>3 DEF IInv, TypeOK
<1>6. FileInv'
  <2>1. FileInv
    BY DEF IInv
  <2>2. \A f \in Files :
         /\ committed'[f] \in disk'[f] /\ disk'[f] \subseteq Kind(f) \cup {None}
         /\ committed'[f] = None => disk'[f] = {None}
    BY <1>3, <2>1 DEF FileInv
  <2>3. \A p \in Purposes : committed'[p] # None =>
          /\ scope(committed'[p]) = p /\ Upto(committed'[p], committed'[p])
          /\ p = "bootstrap" => committed'[p].result.generation = 0
    BY <1>3, <2>1, FileNames DEF FileInv, Upto
  <2>4. committed'["freshness"] # None /\ committed'["transition"] # None =>
          Behind(committed'["freshness"], committed'["transition"])
    BY <1>3, <2>1, FileNames DEF FileInv
  <2> QED
    BY <1>3, <2>2, <2>3, <2>4, FileNames DEF FileInv, fresh
<1>7. HistoryInv'
  <2>1. HistoryInv
    BY DEF IInv
  <2>2. ConsumedOnce'
    <3>1. \A i \in DOMAIN authorized : authorized[i].purpose \in Files
      BY HistoryTypes, FileNames
    <3> QED
      BY <1>2, <1>3, <2>1, <3>1 DEF HistoryInv, UsedOnce, ConsumedOnce
  <2>3. FreshAtMostOnce'
    BY <1>2, <2>1 DEF HistoryInv, UsedOnce, FreshAtMostOnce
  <2>4. ReportedIsDurable'
    BY <1>2, <1>3, <2>1, FileNames DEF HistoryInv, ReportedIsDurable, Covers
  <2> QED
    BY <2>2, <2>3, <2>4 DEF HistoryInv, UsedOnce
<1>8. \A c \in Callers : caller'[c] = Idle
  BY <1>2
<1>9. \A c \in Callers : RequestOK(caller[c])'
  <2> SUFFICES RequestOK(Idle)'
    BY <1>8 DEF RequestOK, KindOK, CommitOK, StateOK, PreparedOK, CarriedOK, LifecycleOK,
                Committing, Replaced, Carrying, Preparing, transaction, fresh
  <2>1. ~Carrying(Idle) /\ ~Replaced(Idle) /\ ~Preparing(Idle)
    BY <1>4 DEF Carrying, Replaced, Preparing, Writing, Deciding
  <2> QED
    BY <1>4, <2>1 DEF RequestOK, KindOK, CommitOK, StateOK, PreparedOK, CarriedOK, LifecycleOK,
                      Writing, Deciding
<1>10. \A c, d \in Callers : c # d => PairOK(caller'[c], caller'[d])
  BY <1>8, IdleOK
<1> QED
  BY <1>5, <1>6, <1>7, <1>9, <1>10 DEF IInv

\* Requests over a file whose older versions power loss can no longer leave.
LEMMA RequestNarrows ==
  ASSUME NEW r, RequestOK(r), UNCHANGED <<committed, candidate, reports, authorized>>,
         \A g \in Files : disk'[g] \subseteq disk[g],
         disk'["freshness"] = disk["freshness"] \/ disk'["freshness"] = {fresh}
  PROVE  RequestOK(r)'
<1>0. KindOK(r) /\ CommitOK(r) /\ StateOK(r) /\ PreparedOK(r) /\ CarriedOK(r) /\ LifecycleOK(r)
  BY DEF RequestOK
<1>1. KindOK(r)' /\ CommitOK(r)'
  BY <1>0 DEF KindOK, CommitOK, fresh, Carrying, Replaced, transaction
<1>2. StateOK(r)'
  BY <1>0 DEF StateOK, fresh, Replaced
<1>3. PreparedOK(r)'
  BY <1>0, FileNames DEF PreparedOK, fresh, Preparing
<1>4. CarriedOK(r)'
  <2>1. Carrying(r) => scope(transaction(r)) \in Files
    BY FileNames DEF scope
  <2> QED
    BY <1>0, <2>1, FileNames DEF CarriedOK, Carrying, Replaced, transaction, projectable
<1>5. LifecycleOK(r)'
  BY <1>0 DEF LifecycleOK, fresh, Carrying, Replaced, transaction
<1> QED
  BY <1>1, <1>2, <1>3, <1>4, <1>5 DEF RequestOK

LEMMA SyncDirectoryStep ==
  ASSUME IInv, NEW c \in Callers, SyncDirectory(c) PROVE IInv'
<1> DEFINE r == [caller[c] EXCEPT !.pc = "verify"]
           f == caller[c].file
<1>1. /\ caller[c].pc = "sync" /\ UNCHANGED <<committed, candidate, reports, authorized>>
      /\ \/ disk' = [disk EXCEPT ![f] = {committed[f]}] /\ Continue(c, r)
         \/ Continue(c, Idle) /\ disk' = disk
  BY DEF SyncDirectory
<1>2. CASE Continue(c, Idle) /\ disk' = disk
  BY <1>1, <1>2, FailStep
<1>3. CASE disk' = [disk EXCEPT ![f] = {committed[f]}] /\ Continue(c, r)
  <2>1. /\ caller[c] \in Caller /\ KindOK(caller[c]) /\ StateOK(caller[c]) /\ CommitOK(caller[c])
        /\ PreparedOK(caller[c]) /\ CarriedOK(caller[c]) /\ LifecycleOK(caller[c])
        /\ TypeOK /\ FileInv /\ f \in Files
    BY RequestFacts, CallerFields
  <2>2. /\ r \in Caller /\ r.pc = "verify" /\ r.file = f /\ r.job = caller[c].job
        /\ r.next = caller[c].next /\ r.replay = caller[c].replay /\ r.state = caller[c].state
    BY <2>1 DEF Caller
  <2>3. /\ caller' \in [Callers -> Caller] /\ caller'[c] = r
        /\ \A d \in Callers \ {c} : caller'[d] = caller[d]
    BY <1>3, <2>1, <2>2, ContinueFacts
  <2> HIDE DEF r
  <2>4. /\ disk'[f] = {committed[f]} /\ \A g \in Files \ {f} : disk'[g] = disk[g]
        /\ \A g \in Files : disk'[g] \subseteq disk[g] /\ committed[g] \in disk'[g]
        /\ disk' \in [Files -> SUBSET Content]
    BY <1>3, <2>1 DEF TypeOK, FileInv
  <2>5. disk'["freshness"] = disk["freshness"] \/ disk'["freshness"] = {fresh}
    BY <2>4, FileNames DEF fresh
  <2>6. /\ Carrying(r) = Carrying(caller[c]) /\ ~Preparing(r) /\ ~Committing(r)
        /\ Replaced(r) /\ Replaced(caller[c]) /\ transaction(r) = transaction(caller[c])
        /\ committed[f] = caller[c].next
    BY <1>1, <2>1, <2>2 DEF Carrying, Committing, Replaced, Preparing, Deciding, Writing,
                            transaction, CommitOK
  <2>7. RequestOK(caller[c])'
    <3>1. KindOK(caller[c])' /\ CommitOK(caller[c])' /\ PreparedOK(caller[c])'
      <4>1. KindOK(r)
        BY <1>1, <2>1, <2>2, <2>6 DEF KindOK, Writing
      <4>2. CommitOK(caller[c])' /\ PreparedOK(caller[c])'
        BY <2>2, <2>3 DEF CommitOK, PreparedOK, Preparing, Deciding
      <4> QED
        BY <2>3, <4>1, <4>2 DEF KindOK, Carrying, Replaced, transaction
    <3>2. StateOK(caller[c])'
      BY <1>1, <2>1, <2>2, <2>3, <2>4, <2>6 DEF StateOK, Deciding, Writing, Replaced, fresh
    <3>3. CarriedOK(caller[c])'
      <4>1. SUFFICES ASSUME Carrying(r) PROVE CarriedOK(caller[c])'
        BY <2>3 DEF CarriedOK, Carrying, Replaced
      <4> DEFINE t == transaction(r)
      <4>2. scope(t) \in Files /\ scope(t) # "freshness"
        BY FileNames DEF scope
      <4>3. /\ \A u \in disk'[scope(t)] : u # None => Ordered(t, u)
            /\ r.job # "recover" => \A u \in disk'[scope(t)] : u # None /\ Upto(t, u)
        <5>1. CASE f = scope(t)
          BY <2>1, <2>4, <2>6, <4>1, <4>2, <5>1 DEF CarriedOK, Ordered, Upto
        <5>2. CASE f # scope(t)
          BY <1>1, <2>1, <2>2, <2>4, <2>6, <4>1, <4>2, <5>2 DEF CarriedOK
        <5> QED
          BY <5>1, <5>2
      <4>4. /\ r.job \in {scope(t), "recover"} /\ r.file \in {scope(t), "freshness"}
            /\ committed[scope(t)] # None /\ Upto(t, committed[scope(t)])
            /\ r.file = "freshness" => r.next = t.result
            /\ scope(t) = "bootstrap" => t.result.generation = 0
            /\ scope(t) = "transition" =>
                 \A s \in disk["freshness"] : s # None => Behind(s, t)
        BY <2>1, <2>2, <2>6, <4>1 DEF CarriedOK
      <4>5. disk'["freshness"] \subseteq disk["freshness"] /\ r.pc \notin Deciding
        BY <2>2, <2>4, FileNames DEF Deciding
      <4>6. t = transaction(caller'[c])
        BY <2>3
      <4> HIDE DEF t
      <4> QED
        BY <1>1, <2>3, <4>3, <4>4, <4>5, <4>6 DEF CarriedOK, transaction
    <3>4. LifecycleOK(caller[c])'
      BY <1>1, <2>1, <2>2, <2>3, <2>6 DEF LifecycleOK, Carrying, Replaced, transaction, fresh
    <3> QED
      BY <3>1, <3>2, <3>3, <3>4 DEF RequestOK
  <2>8. ASSUME NEW d \in Callers \ {c} PROVE RequestOK(caller[d])'
    <3>1. RequestOK(caller[d]) /\ caller'[d] = caller[d]
      BY <2>3 DEF IInv
    <3> QED
      BY <1>1, <2>4, <2>5, <3>1, RequestNarrows
  <2>9. \A d \in Callers \ {c} : PairOK(r, caller[d])
    BY <2>2, <2>6 DEF IInv, PairOK
  <2>10. \A d, e \in Callers : d # e => PairOK(caller'[d], caller'[e])
    BY <2>3, <2>9, PairSymmetric DEF IInv
  <2>11. TypeOK'
    BY <1>1, <2>1, <2>3, <2>4 DEF TypeOK
  <2>12. FileInv'
    BY <1>1, <2>1, <2>4, FileNames DEF FileInv, fresh
  <2>13. HistoryInv'
    <3>1. \A i \in DOMAIN authorized : authorized[i].purpose \in Files
      BY HistoryTypes, FileNames
    <3>2. ConsumedOnce' /\ FreshAtMostOnce'
      BY <1>1, <2>4, <3>1 DEF IInv, HistoryInv, UsedOnce, ConsumedOnce, FreshAtMostOnce
    <3>3. ReportedIsDurable'
      BY <1>1, <2>4, FileNames DEF IInv, HistoryInv, ReportedIsDurable, Covers
    <3> QED
      BY <3>2, <3>3 DEF HistoryInv, UsedOnce
  <2> QED
    BY <2>7, <2>8, <2>10, <2>11, <2>12, <2>13 DEF IInv
<1> QED
  BY <1>1, <1>2, <1>3

\* The candidate that replaces the freshness file: newer than the committed
\* state, still behind every later transaction, and beyond every report.
LEMMA FreshCandidate ==
  ASSUME IInv, NEW c \in Callers, caller[c].pc = "replace", caller[c].file = "freshness",
         NEW n, n = caller[c].next
  PROVE  /\ n \in FreshnessState
         /\ fresh # None => Below(fresh, n)
         /\ \A t \in disk["transition"] : t # None => Behind(n, t)
         /\ \A d \in Callers \ {c} :
              Carrying(caller[d]) /\ scope(transaction(caller[d])) = "transition" =>
                Behind(n, transaction(caller[d]))
         /\ caller[c].job = "statement" =>
              n.high # None /\ \A i \in DOMAIN reports : Precedes(reports[i], n)
<1>1. /\ KindOK(caller[c]) /\ CommitOK(caller[c]) /\ StateOK(caller[c]) /\ CarriedOK(caller[c])
      /\ FileInv /\ HistoryInv /\ (fresh # None => fresh \in FreshnessState)
  BY RequestFacts DEF IInv
<1>2. n \in FreshnessState /\ fresh = caller[c].state /\ fresh \in disk["freshness"]
  BY <1>1, FileNames DEF KindOK, Kind, Writing, CommitOK, FileInv, fresh
<1>3. \A d \in Callers : Carrying(caller[d]) => transaction(caller[d]) \in Transaction
  BY RequestFacts DEF KindOK
<1>4. \A t \in disk["transition"] : t # None =>
        t \in Transaction /\ scope(t) = "transition" /\ t.result.transition > 0
  BY <1>1, FileNames, TransactionFields DEF FileInv, Kind, scope
<1>5. CASE caller[c].job = "statement"
  <2>1. /\ fresh \in FreshnessState /\ Below(fresh, n) /\ n.transition = fresh.transition
        /\ n.high # None
    BY <1>1, <1>2, <1>5 DEF StateOK, Deciding, Writing
  <2>3. \A t \in Transaction : Behind(fresh, t) => Behind(n, t)
    BY <1>2, <2>1, StateFields, TransactionFields DEF Behind, Below
  <2>4. fresh # None
    BY <1>1, <1>2, <1>5 DEF StateOK, Deciding
  <2>5. \A t \in disk["transition"] : t # None => Behind(n, t)
    BY <1>1, <1>2, <1>4, <2>3, <2>4 DEF FileInv
  <2>6. \A d \in Callers \ {c} :
          Carrying(caller[d]) /\ scope(transaction(caller[d])) = "transition" =>
            Behind(n, transaction(caller[d]))
    BY <1>2, <1>3, <2>3, <2>4, RequestFacts DEF CarriedOK
  <2>7. ASSUME NEW i \in DOMAIN reports PROVE Precedes(reports[i], n)
    <3>1. Covers(fresh, reports[i])
      BY <1>1, <1>2 DEF HistoryInv, ReportedIsDurable
    <3>2. /\ reports[i].transition \in Nat /\ reports[i].time \in Nat
          /\ n.high \in Nat /\ fresh.high \in Nat \cup {None}
      BY <1>2, <2>1, HistoryTypes, StateFields
    <3> QED
      BY <1>2, <2>1, <3>1, <3>2, StateFields DEF Covers, Below, Precedes
  <2> QED
    BY <1>2, <2>1, <2>5, <2>6, <2>7
<1>6. CASE caller[c].job # "statement"
  <2> DEFINE t2 == transaction(caller[c])
  <2>1. Carrying(caller[c]) /\ t2 \in Transaction
    BY <1>3, <1>6 DEF Carrying, Writing
  <2>2. /\ n = t2.result /\ projectable(fresh, n) /\ scope(t2) \in {"bootstrap", "transition"}
        /\ committed[scope(t2)] # None
        /\ \A u \in disk[scope(t2)] : u # None => Ordered(t2, u)
        /\ scope(t2) = "bootstrap" => n.generation = 0 /\ n.transition = 0
        /\ scope(t2) = "transition" =>
             n.transition > 0 /\ \A s \in disk["freshness"] : s # None => Behind(s, t2)
    <3>1. scope(t2) \in {"bootstrap", "transition"}
          /\ (scope(t2) = "bootstrap" => t2.result.transition = 0)
          /\ (scope(t2) = "transition" => t2.result.transition > 0)
      BY <2>1, TransactionFields DEF scope
    <3> HIDE DEF t2
    <3>2. CarriedOK(caller[c]) /\ t2 = transaction(caller[c])
      BY <1>1 DEF t2
    <3> QED
      BY <1>2, <2>1, <3>1, <3>2 DEF CarriedOK, Deciding
  <2> HIDE DEF t2
  <2>3. fresh # None => Below(fresh, n)
    BY <1>1, <1>2, <2>1, <2>2, StateFields DEF projectable, Behind, Below
  <2>4. \A t \in Transaction : scope(t) = "transition"
          /\ (scope(t2) = "transition" => Ordered(t2, t)) => Behind(n, t)
    BY <1>2, <2>1, <2>2, TransactionFields DEF Behind, Ordered, Before, scope
  <2>5. \A t \in disk["transition"] : t # None => Behind(n, t)
    BY <1>4, <2>2, <2>4
  <2>6. ASSUME NEW d \in Callers \ {c}, Carrying(caller[d]),
               scope(transaction(caller[d])) = "transition"
        PROVE  Behind(n, transaction(caller[d]))
    <3>1. PairOK(caller[c], caller[d]) /\ transaction(caller[d]) \in Transaction
      BY <1>3, <2>6 DEF IInv
    <3>2. scope(t2) = "transition" => Ordered(t2, transaction(caller[d]))
      BY <2>1, <2>6, <3>1 DEF PairOK, t2
    <3> QED
      BY <2>4, <2>6, <3>1, <3>2
  <2> QED
    BY <1>2, <1>6, <2>3, <2>5, <2>6
<1> QED
  BY <1>5, <1>6

\* Requests that are not inside commit of the freshness file, when it is
\* replaced by a newer state n.
LEMMA RequestOutlivesState ==
  ASSUME NEW r, RequestOK(r), NEW n \in FreshnessState, n # None, fresh # None => Below(fresh, n),
         fresh # None => fresh \in FreshnessState,
         disk["freshness"] \subseteq FreshnessState \cup {None},
         Committing(r) => r.file # "freshness",
         Carrying(r) /\ scope(transaction(r)) = "transition" => Behind(n, transaction(r)),
         committed'["freshness"] = n, \A p \in Purposes : committed'[p] = committed[p],
         disk'["freshness"] = disk["freshness"] \cup {n}, \A p \in Purposes : disk'[p] = disk[p],
         \A p \in Purposes : candidate'[p] = candidate[p],
         UNCHANGED <<reports, authorized>>
  PROVE  RequestOK(r)'
<1>0. /\ KindOK(r) /\ CommitOK(r) /\ StateOK(r) /\ PreparedOK(r) /\ CarriedOK(r) /\ LifecycleOK(r)
      /\ r \in Caller
  BY DEF RequestOK, KindOK
<1>1. fresh # None => n.generation > fresh.generation
  BY StateFields DEF Below
<1>2. KindOK(r)'
  BY <1>0 DEF KindOK, Carrying, Replaced, transaction
<1>3. CommitOK(r)'
  BY <1>0, CallerFields, FileNames DEF CommitOK, Committing
<1>4. StateOK(r)'
  <2>1. r.file = "freshness" /\ Replaced(r) =>
          fresh # None /\ n.generation > r.next.generation /\ r.next \in FreshnessState
    BY <1>0, <1>1, StateFields DEF KindOK, Kind, StateOK, Replaced, Writing
  <2>2. r.file = "freshness" /\ Replaced(r) => n # r.next /\ n.generation >= r.next.generation
    BY <2>1, StateFields
  <2> QED
    BY <1>0, <2>2 DEF StateOK, fresh, Replaced
<1>5. PreparedOK(r)'
  <2>1. r.job = "transition" /\ (r.pc = "loaded" \/ Preparing(r)) =>
          /\ n.generation > r.state.generation /\ n.generation >= r.state.generation
          /\ ~(n.generation <= r.state.generation)
    BY <1>0, <1>1, StateFields DEF PreparedOK
  <2> QED
    BY <1>0, <2>1 DEF PreparedOK, fresh, Preparing
<1>6. CarriedOK(r)'
  <2>1. scope(transaction(r)) \in Purposes
    BY FileNames DEF scope
  <2> QED
    BY <1>0, <2>1 DEF CarriedOK, Carrying, Replaced, transaction, projectable
<1>7. LifecycleOK(r)'
  <2>1. Carrying(r) => transaction(r) \in Transaction
    BY <1>0 DEF KindOK
  <2> QED
    BY <1>0, <1>1, <2>1, StateFields, TransactionFields
    DEF LifecycleOK, fresh, Carrying, Replaced, transaction
<1> QED
  BY <1>2, <1>3, <1>4, <1>5, <1>6, <1>7 DEF RequestOK

LEMMA ReplaceFreshness ==
  ASSUME IInv, NEW c \in Callers, caller[c].pc = "replace", caller[c].file = "freshness",
         candidate["freshness"] # None,
         committed' = [committed EXCEPT !["freshness"] = candidate["freshness"]],
         disk' = [disk EXCEPT !["freshness"] = @ \cup {candidate["freshness"]}],
         candidate' = [candidate EXCEPT !["freshness"] = None],
         Continue(c, [caller[c] EXCEPT !.pc = "sync"]),
         UNCHANGED <<reports, authorized>>
  PROVE  IInv'
<1> DEFINE n == caller[c].next
           r == [caller[c] EXCEPT !.pc = "sync"]
<1>1. /\ caller[c] \in Caller /\ KindOK(caller[c]) /\ StateOK(caller[c]) /\ CommitOK(caller[c])
      /\ PreparedOK(caller[c]) /\ CarriedOK(caller[c]) /\ LifecycleOK(caller[c])
      /\ TypeOK /\ FileInv /\ HistoryInv
      /\ (fresh # None => fresh \in FreshnessState)
  BY RequestFacts DEF IInv
<1>2. candidate["freshness"] = n /\ n # None
  BY <1>1 DEF CommitOK
<1>3. /\ n \in FreshnessState
      /\ fresh # None => Below(fresh, n)
      /\ \A t \in disk["transition"] : t # None => Behind(n, t)
      /\ \A d \in Callers \ {c} :
           Carrying(caller[d]) /\ scope(transaction(caller[d])) = "transition" =>
             Behind(n, transaction(caller[d]))
      /\ caller[c].job = "statement" =>
           n.high # None /\ \A i \in DOMAIN reports : Precedes(reports[i], n)
  BY FreshCandidate
<1>4. /\ r \in Caller /\ r.pc = "sync" /\ r.file = "freshness" /\ r.job = caller[c].job
      /\ r.next = n /\ r.replay = caller[c].replay /\ r.state = caller[c].state
  BY <1>1 DEF Caller
<1>5. /\ caller' \in [Callers -> Caller] /\ caller'[c] = r
      /\ \A d \in Callers \ {c} : caller'[d] = caller[d]
  BY <1>1, <1>4, ContinueFacts
<1> HIDE DEF r, n
<1>6. /\ committed' \in [Files -> Content] /\ disk' \in [Files -> SUBSET Content]
      /\ candidate' \in [Files -> Content]
      /\ committed'["freshness"] = n /\ \A p \in Purposes : committed'[p] = committed[p]
      /\ disk'["freshness"] = disk["freshness"] \cup {n}
      /\ \A p \in Purposes : disk'[p] = disk[p]
      /\ \A p \in Purposes : candidate'[p] = candidate[p]
  <2>1. n \in Content /\ None \in Content
    BY <1>3 DEF Content, FreshnessFile
  <2> QED
    BY <1>1, <1>2, <2>1, FileNames DEF TypeOK
<1>7. disk["freshness"] \subseteq FreshnessState \cup {None}
  BY <1>1, FileNames DEF FileInv, Kind
<1>8. ASSUME NEW d \in Callers \ {c} PROVE RequestOK(caller[d])'
  <2>1. RequestOK(caller[d]) /\ caller'[d] = caller[d]
    BY <1>5 DEF IInv
  <2>2. Committing(caller[d]) => caller[d].file # "freshness"
    <3>1. PairOK(caller[c], caller[d]) /\ Committing(caller[c])
      BY DEF IInv, Committing
    <3> QED
      BY <3>1 DEF PairOK
  <2>3. Carrying(caller[d]) /\ scope(transaction(caller[d])) = "transition" =>
          Behind(n, transaction(caller[d]))
    BY <1>3
  <2> QED
    BY <1>1, <1>2, <1>3, <1>6, <1>7, <2>1, <2>2, <2>3, RequestOutlivesState
<1>9. /\ Carrying(r) = Carrying(caller[c]) /\ ~Preparing(r) /\ Committing(r)
      /\ Committing(caller[c]) /\ Replaced(r) /\ transaction(r) = transaction(caller[c])
  BY <1>4 DEF Carrying, Committing, Replaced, Preparing, Deciding, Writing, transaction
<1>10. RequestOK(caller[c])'
  <2>1. KindOK(caller[c])' /\ CommitOK(caller[c])' /\ PreparedOK(caller[c])'
    <3>1. KindOK(r)
      BY <1>1, <1>3, <1>4, <1>9 DEF KindOK, Kind
    <3>2. CommitOK(caller[c])' /\ PreparedOK(caller[c])'
      BY <1>4, <1>5, <1>6 DEF CommitOK, PreparedOK, Preparing, Deciding
    <3> QED
      BY <1>5, <3>1, <3>2 DEF KindOK, Carrying, Replaced, transaction
  <2>2. StateOK(caller[c])'
    BY <1>2, <1>3, <1>4, <1>5, <1>6, StateFields DEF StateOK, Deciding, Writing, Replaced, fresh
  <2>3. CarriedOK(caller[c])'
    <3>1. SUFFICES ASSUME Carrying(r) PROVE CarriedOK(caller[c])'
      BY <1>5 DEF CarriedOK, Carrying, Replaced
    <3> DEFINE t == transaction(r)
    <3>2. scope(t) \in Purposes /\ scope(t) # "freshness"
      BY FileNames DEF scope
    <3>3. /\ r.job \in {scope(t), "recover"} /\ r.file \in {scope(t), "freshness"}
          /\ committed[scope(t)] # None /\ Upto(t, committed[scope(t)])
          /\ \A u \in disk[scope(t)] : u # None => Ordered(t, u)
          /\ r.job # "recover" => \A u \in disk[scope(t)] : u # None /\ Upto(t, u)
          /\ r.next = t.result
          /\ scope(t) = "bootstrap" => t.result.generation = 0
          /\ scope(t) = "transition" =>
               \A s \in disk["freshness"] : s # None => Behind(s, t)
      BY <1>1, <1>4, <1>9, <3>1, <3>2 DEF CarriedOK, n
    <3>4. Behind(n, t) /\ r.pc \notin Deciding
      BY <1>3, <1>4, <3>3, StateFields DEF Behind, Deciding
    <3>5. t = transaction(caller'[c])
      BY <1>5
    <3> HIDE DEF t
    <3> QED
      BY <1>5, <1>6, <3>2, <3>3, <3>4, <3>5 DEF CarriedOK, transaction
  <2>4. LifecycleOK(caller[c])'
    <3>1. Carrying(caller[c]) => transaction(caller[c]) \in Transaction
      BY <1>1 DEF KindOK
    <3> QED
      BY <1>1, <1>2, <1>3, <1>4, <1>5, <1>6, <1>9, <3>1, StateFields, TransactionFields
      DEF LifecycleOK, Carrying, Replaced, transaction, fresh, Below
  <2> QED
    BY <2>1, <2>2, <2>3, <2>4 DEF RequestOK
<1>11. ASSUME NEW d \in Callers \ {c} PROVE PairOK(r, caller[d])
  <2>1. PairOK(caller[c], caller[d])
    BY DEF IInv
  <2>2. caller[d].file = "freshness" /\ Replaced(caller[d]) =>
          n.generation # caller[d].next.generation
    <3>1. KindOK(caller[d]) /\ StateOK(caller[d])
      BY RequestFacts
    <3> QED
      BY <1>1, <1>3, <3>1, StateFields DEF KindOK, Kind, StateOK, Replaced, Writing, Below
  <2> QED
    BY <1>4, <1>9, <2>1, <2>2 DEF PairOK
<1>12. \A d, e \in Callers : d # e => PairOK(caller'[d], caller'[e])
  BY <1>5, <1>11, PairSymmetric DEF IInv
<1>13. TypeOK'
  BY <1>1, <1>5, <1>6 DEF TypeOK
<1>14. FileInv'
  <2>1. \A f \in Files :
         /\ committed'[f] \in disk'[f] /\ disk'[f] \subseteq Kind(f) \cup {None}
         /\ committed'[f] = None => disk'[f] = {None}
    BY <1>1, <1>2, <1>3, <1>6, <1>7, FileNames DEF FileInv, Kind
  <2>2. \A s \in disk'["freshness"] : s # None =>
         /\ s = n \/ Below(s, n)
         /\ \A t \in disk'["transition"] : t # None => Behind(s, t)
    <3>1. \A s \in disk["freshness"] : s # None => fresh # None
      BY <1>1, FileNames DEF FileInv, fresh
    <3>2. \A s \in disk["freshness"] : s # None => Below(s, n)
      BY <1>1, <1>3, <1>7, <3>1, BelowTransitive DEF FileInv
    <3> QED
      BY <1>1, <1>3, <1>6, <3>2, FileNames DEF FileInv
  <2> QED
    BY <1>1, <1>6, <2>1, <2>2, FileNames DEF FileInv, fresh
<1>15. HistoryInv'
  <2>1. ConsumedOnce' /\ FreshAtMostOnce'
    BY <1>1, <1>6, HistoryTypes DEF HistoryInv, UsedOnce, ConsumedOnce, FreshAtMostOnce
  <2>2. ReportedIsDurable'
    <3>1. ASSUME NEW i \in DOMAIN reports PROVE Covers(n, reports[i])
      <4>1. fresh # None /\ Covers(fresh, reports[i])
        BY <1>1, FileNames DEF HistoryInv, ReportedIsDurable, Covers, FileInv, fresh
      <4>2. reports[i].transition \in Nat /\ reports[i].time \in Nat
        BY HistoryTypes
      <4> QED
        BY <1>1, <1>2, <1>3, <4>1, <4>2, StateFields, AssuranceAssumption DEF Covers, Below
    <3> QED
      BY <1>1, <1>6, <3>1 DEF HistoryInv, ReportedIsDurable, Covers
  <2> QED
    BY <2>1, <2>2 DEF HistoryInv, UsedOnce
<1> QED
  BY <1>8, <1>10, <1>12, <1>13, <1>14, <1>15 DEF IInv

\* The transaction that replaces a scope's file follows the committed one.
LEMMA TransactionCandidate ==
  ASSUME IInv, NEW c \in Callers, caller[c].pc = "replace", caller[c].file # "freshness",
         NEW n, n = caller[c].next, NEW p, p = caller[c].file
  PROVE  /\ n \in Transaction /\ p \in Purposes /\ caller[c].job = p /\ scope(n) = p
         /\ committed[p] # None => committed[p] \in Transaction /\ Before(committed[p], n)
         /\ p = "bootstrap" => n.result.generation = 0
         /\ p = "transition" => \A s \in disk["freshness"] : s # None => Behind(s, n)
<1>1. /\ caller[c] \in Caller /\ KindOK(caller[c]) /\ CommitOK(caller[c])
      /\ PreparedOK(caller[c]) /\ FileInv /\ HistoryInv
  BY RequestFacts DEF IInv
<1>2. n \in Transaction /\ p \in Purposes /\ p \in Files
  BY <1>1, CallerFields, FileNames DEF KindOK, Kind, Writing
<1>3. /\ Preparing(caller[c]) /\ caller[c].job = p /\ scope(n) = p
      /\ p = "bootstrap" => n.result.generation = 0
  BY <1>1, <1>2 DEF PreparedOK, Preparing, Deciding
<1>4. ASSUME committed[p] # None
      PROVE  committed[p] \in Transaction /\ Before(committed[p], n)
  <2>1. committed[p] \in Transaction
    BY <1>1, <1>2, <1>4, FileNames DEF FileInv, Kind
  <2>2. /\ caller[c].replay # None /\ committed[p].sequence = caller[c].replay.sequence
        /\ committed[p].result = caller[c].state
    BY <1>1, <1>4 DEF CommitOK
  <2>3. p = "transition"
    BY <1>1, <1>2, <1>3, <2>2, FileNames DEF PreparedOK
  <2>4. /\ n.result.generation = caller[c].state.generation + 1
        /\ n.result.transition = caller[c].state.transition + 1
        /\ n.sequence > caller[c].replay.sequence
    BY <1>1, <1>3, <2>2, <2>3 DEF PreparedOK
  <2> QED
    BY <1>2, <2>1, <2>2, <2>4, TransactionFields DEF Before
<1>5. ASSUME p = "transition"
      PROVE  \A s \in disk["freshness"] : s # None => Behind(s, n)
  <2>1. /\ fresh # None /\ caller[c].state \in FreshnessState
        /\ n.result.generation = caller[c].state.generation + 1
        /\ n.result.transition = caller[c].state.transition + 1
        /\ \A s \in disk["freshness"] :
              s # None /\ s.generation <= caller[c].state.generation =>
                s.transition <= caller[c].state.transition
    BY <1>1, <1>3, <1>5 DEF PreparedOK
  <2>2. \A s \in disk["freshness"] : s # None => s \in FreshnessState
    BY <1>1, FileNames DEF FileInv, Kind
  <2> QED
    BY <2>1, <2>2, StateFields DEF Behind
<1> QED
  BY <1>2, <1>3, <1>4, <1>5

\* Requests that are not inside commit of scope p's file, when it is replaced
\* by a later transaction n.
LEMMA RequestOutlivesTransaction ==
  ASSUME NEW r, RequestOK(r), NEW p \in Purposes, NEW n \in Transaction, n # None,
         committed[p] # None => committed[p] \in Transaction /\ Before(committed[p], n),
         Committing(r) => r.file # p,
         committed'[p] = n, \A g \in Files \ {p} : committed'[g] = committed[g],
         disk'[p] = disk[p] \cup {n}, \A g \in Files \ {p} : disk'[g] = disk[g],
         \A g \in Files \ {p} : candidate'[g] = candidate[g],
         UNCHANGED <<reports, authorized>>
  PROVE  RequestOK(r)'
<1>0. /\ KindOK(r) /\ CommitOK(r) /\ StateOK(r) /\ PreparedOK(r) /\ CarriedOK(r) /\ LifecycleOK(r)
      /\ r \in Caller
  BY DEF RequestOK, KindOK
<1>1. "freshness" \in Files \ {p}
  BY FileNames
<1>2. KindOK(r)'
  BY <1>0 DEF KindOK, Carrying, Replaced, transaction
<1>3. CommitOK(r)'
  BY <1>0, <1>1, CallerFields DEF CommitOK, Committing, fresh
<1>4. StateOK(r)' /\ PreparedOK(r)'
  BY <1>0, <1>1 DEF StateOK, PreparedOK, fresh, Replaced, Preparing
<1>5. LifecycleOK(r)'
  BY <1>0, <1>1 DEF LifecycleOK, fresh, Carrying, Replaced, transaction
<1>6. CarriedOK(r)'
  <2> DEFINE t == transaction(r)
  <2>1. SUFFICES ASSUME Carrying(r) PROVE CarriedOK(r)'
    BY DEF CarriedOK, Carrying, Replaced
  <2>2. t \in Transaction /\ scope(t) \in Files
    BY <1>0, <2>1, FileNames DEF KindOK, scope
  <2>3. scope(t) = p => Upto(t, n)
    BY <1>0, <2>1, <2>2, UptoTransitive DEF CarriedOK, Upto
  <2>4. scope(t) = p => Ordered(t, n)
    BY <2>3 DEF Upto, Ordered
  <2> HIDE DEF t
  <2> QED
    BY <1>0, <1>1, <2>1, <2>2, <2>3, <2>4 DEF CarriedOK, Carrying, Replaced, transaction, projectable, t
<1> QED
  BY <1>2, <1>3, <1>4, <1>5, <1>6 DEF RequestOK

LEMMA ReplaceTransaction ==
  ASSUME IInv, NEW c \in Callers, caller[c].pc = "replace", caller[c].file # "freshness",
         NEW p, p = caller[c].file, candidate[p] # None,
         committed' = [committed EXCEPT ![p] = candidate[p]],
         disk' = [disk EXCEPT ![p] = @ \cup {candidate[p]}],
         candidate' = [candidate EXCEPT ![p] = None],
         Continue(c, [caller[c] EXCEPT !.pc = "sync"]),
         UNCHANGED <<reports, authorized>>
  PROVE  IInv'
<1> DEFINE n == caller[c].next
           r == [caller[c] EXCEPT !.pc = "sync"]
<1>1. /\ caller[c] \in Caller /\ KindOK(caller[c]) /\ CommitOK(caller[c])
      /\ TypeOK /\ FileInv /\ HistoryInv
  BY RequestFacts DEF IInv
<1>2. candidate[p] = n /\ n # None
  BY <1>1 DEF CommitOK
<1>3. /\ n \in Transaction /\ p \in Purposes /\ caller[c].job = p /\ scope(n) = p
      /\ committed[p] # None => committed[p] \in Transaction /\ Before(committed[p], n)
      /\ p = "bootstrap" => n.result.generation = 0
      /\ p = "transition" => \A s \in disk["freshness"] : s # None => Behind(s, n)
  BY TransactionCandidate
<1>4. /\ r \in Caller /\ r.pc = "sync" /\ r.file = p /\ r.job = p /\ r.next = n
  BY <1>1, <1>3 DEF Caller
<1>5. /\ caller' \in [Callers -> Caller] /\ caller'[c] = r
      /\ \A d \in Callers \ {c} : caller'[d] = caller[d]
  BY <1>1, <1>4, ContinueFacts
<1> HIDE DEF r, n
<1>6. /\ committed' \in [Files -> Content] /\ disk' \in [Files -> SUBSET Content]
      /\ candidate' \in [Files -> Content]
      /\ committed'[p] = n /\ \A g \in Files \ {p} : committed'[g] = committed[g]
      /\ disk'[p] = disk[p] \cup {n} /\ \A g \in Files \ {p} : disk'[g] = disk[g]
      /\ \A g \in Files \ {p} : candidate'[g] = candidate[g]
  <2>1. n \in Content /\ None \in Content /\ p \in Files
    BY <1>3, FileNames DEF Content, TransactionFile
  <2> QED
    BY <1>1, <1>2, <2>1 DEF TypeOK
<1>7. "freshness" \in Files \ {p} /\ p \in Files /\ p # "freshness"
  BY <1>3, FileNames
<1>8. ASSUME NEW d \in Callers \ {c} PROVE RequestOK(caller[d])'
  <2>1. RequestOK(caller[d]) /\ caller'[d] = caller[d]
    BY <1>5 DEF IInv
  <2>2. Committing(caller[d]) => caller[d].file # p
    <3>1. PairOK(caller[c], caller[d]) /\ Committing(caller[c])
      BY DEF IInv, Committing
    <3> QED
      BY <3>1 DEF PairOK
  <2> QED
    BY <1>2, <1>3, <1>6, <2>1, <2>2, RequestOutlivesTransaction
<1>9. Carrying(r) /\ ~Preparing(r) /\ Committing(r) /\ Committing(caller[c]) /\ transaction(r) = n
  BY <1>4, <1>7 DEF Carrying, Committing, Replaced, Preparing, Deciding, transaction
<1>10. RequestOK(caller[c])'
  <2>1. KindOK(caller[c])' /\ CommitOK(caller[c])' /\ StateOK(caller[c])' /\ PreparedOK(caller[c])'
    <3>1. KindOK(r)
      BY <1>3, <1>4, <1>7, <1>9 DEF KindOK, Kind
    <3>2. CommitOK(caller[c])' /\ StateOK(caller[c])' /\ PreparedOK(caller[c])'
      BY <1>4, <1>5, <1>6, <1>7 DEF CommitOK, StateOK, PreparedOK, Preparing, Deciding
    <3> QED
      BY <1>5, <3>1, <3>2 DEF KindOK, Carrying, Replaced, transaction
  <2>2. CarriedOK(caller[c])'
    <3>1. Upto(n, n) /\ transaction(caller'[c]) = n
      BY <1>5, <1>9 DEF Upto
    <3>2. \A u \in disk'[p] : u # None => Ordered(n, u)
      <4>1. \A u \in disk[p] : u # None =>
              /\ committed[p] # None /\ u \in Transaction /\ Upto(u, committed[p])
        BY <1>1, <1>3, <1>7 DEF FileInv, Kind
      <4>2. \A u \in disk[p] : u # None => Upto(u, n)
        BY <1>3, <4>1, UptoTransitive DEF Upto
      <4> QED
        BY <1>6, <4>2 DEF Upto, Ordered
    <3> QED
      BY <1>2, <1>3, <1>4, <1>5, <1>6, <1>7, <3>1, <3>2 DEF CarriedOK, transaction
  <2>3. LifecycleOK(caller[c])'
    <3>1. ASSUME NEW i \in DOMAIN authorized, authorized[i].purpose = p
          PROVE  authorized[i].sequence < n.sequence
      <4>1. committed[p] \in disk[p]
        BY <1>1, <1>7 DEF FileInv
      <4>2. committed[p] # None /\ committed[p].sequence >= authorized[i].sequence
        BY <1>1, <3>1, <4>1 DEF HistoryInv, UsedOnce, ConsumedOnce
      <4> QED
        BY <1>3, <4>2, HistoryTypes, TransactionFields DEF Before
    <3>2. transaction(caller'[c]) = n /\ caller'[c].job = p
      BY <1>4, <1>5, <1>9
    <3> QED
      BY <3>1, <3>2 DEF LifecycleOK, transaction
  <2> QED
    BY <2>1, <2>2, <2>3 DEF RequestOK
<1>11. ASSUME NEW d \in Callers \ {c} PROVE PairOK(r, caller[d])
  <2>1. PairOK(caller[c], caller[d])
    BY DEF IInv
  <2>2. ASSUME Carrying(caller[d]), scope(transaction(caller[d])) = p
        PROVE  /\ Before(transaction(caller[d]), n)
               /\ transaction(caller[d]).sequence # n.sequence
    <3>1. KindOK(caller[d]) /\ CarriedOK(caller[d])
      BY RequestFacts
    <3>2. /\ transaction(caller[d]) \in Transaction /\ committed[p] # None
          /\ Upto(transaction(caller[d]), committed[p])
      BY <2>2, <3>1 DEF KindOK, CarriedOK
    <3> QED
      BY <1>3, <3>2, TransactionFields DEF Upto, Before
  <2> QED
    BY <1>3, <1>4, <1>7, <1>9, <2>1, <2>2 DEF PairOK, Ordered
<1>12. \A d, e \in Callers : d # e => PairOK(caller'[d], caller'[e])
  BY <1>5, <1>11, PairSymmetric DEF IInv
<1>13. TypeOK'
  BY <1>1, <1>5, <1>6 DEF TypeOK
<1>14. FileInv'
  <2>1. \A f \in Files :
         /\ committed'[f] \in disk'[f] /\ disk'[f] \subseteq Kind(f) \cup {None}
         /\ committed'[f] = None => disk'[f] = {None}
    BY <1>1, <1>2, <1>3, <1>6, <1>7 DEF FileInv, Kind
  <2>2. \A q \in Purposes : \A t \in disk'[q] : t # None =>
         /\ scope(t) = q /\ Upto(t, committed'[q])
         /\ q = "bootstrap" => t.result.generation = 0
    <3>1. \A t \in disk[p] : t # None => committed[p] # None /\ t \in Transaction
      BY <1>1, <1>7 DEF FileInv, Kind
    <3>2. \A t \in disk[p] : t # None => Upto(t, n)
      BY <1>1, <1>3, <3>1, UptoTransitive DEF FileInv, Upto
    <3> QED
      BY <1>1, <1>3, <1>6, <3>2, FileNames DEF FileInv, Upto
  <2>3. \A s \in disk'["freshness"] : s # None =>
         /\ s = committed'["freshness"] \/ Below(s, committed'["freshness"])
         /\ \A t \in disk'["transition"] : t # None => Behind(s, t)
    BY <1>1, <1>3, <1>6, <1>7, FileNames DEF FileInv, fresh
  <2> QED
    BY <2>1, <2>2, <2>3 DEF FileInv, fresh
<1>15. HistoryInv'
  <2>1. committed[p] \in disk[p]
    BY <1>1, <1>7 DEF FileInv
  <2>2. ASSUME NEW i \in DOMAIN authorized, NEW t \in disk'[authorized[i].purpose]
        PROVE  t # None /\ t.sequence >= authorized[i].sequence
    <3>1. authorized[i].purpose \in Files
      BY HistoryTypes, FileNames
    <3>2. CASE t \in disk[authorized[i].purpose]
      BY <1>1, <3>2 DEF HistoryInv, UsedOnce, ConsumedOnce
    <3>3. CASE t = n /\ authorized[i].purpose = p
      <4>1. committed[p] # None /\ committed[p].sequence >= authorized[i].sequence
        BY <1>1, <2>1, <3>3 DEF HistoryInv, UsedOnce, ConsumedOnce
      <4> QED
        BY <1>2, <1>3, <3>3, <4>1, HistoryTypes, TransactionFields DEF Before
    <3> QED
      BY <1>6, <2>2, <3>1, <3>2, <3>3
  <2>3. ConsumedOnce' /\ FreshAtMostOnce'
    BY <1>1, <2>2 DEF HistoryInv, UsedOnce, ConsumedOnce, FreshAtMostOnce
  <2>4. ReportedIsDurable'
    BY <1>1, <1>6, <1>7 DEF HistoryInv, ReportedIsDurable, Covers
  <2> QED
    BY <2>3, <2>4 DEF HistoryInv, UsedOnce
<1> QED
  BY <1>8, <1>10, <1>12, <1>13, <1>14, <1>15 DEF IInv

\* os.replace fails, and the candidate file is as good as gone.
LEMMA ReplaceFails ==
  ASSUME IInv, NEW c \in Callers, Committing(caller[c]), Continue(c, Idle),
         candidate' = [candidate EXCEPT ![caller[c].file] = None],
         UNCHANGED <<committed, disk, reports, authorized>>
  PROVE  IInv'
<1>1. TypeOK /\ caller[c].file \in Files
  BY RequestFacts, CallerFields
<1>2. Idle \in Caller /\ RequestOK(Idle) /\ Idle.pc = "idle"
  BY IdleOK DEF RequestOK, KindOK, Idle
<1>3. /\ caller' \in [Callers -> Caller] /\ caller'[c] = Idle
      /\ \A d \in Callers \ {c} : caller'[d] = caller[d]
  BY <1>1, <1>2, ContinueFacts
<1>4. /\ candidate' \in [Files -> Content]
      /\ \A g \in Files \ {caller[c].file} : candidate'[g] = candidate[g]
  BY <1>1 DEF TypeOK, Content, FreshnessFile
<1>5. RequestOK(caller[c])'
  <2>1. CommitOK(caller[c])'
    BY <1>2, <1>3 DEF CommitOK
  <2> QED
    BY <1>2, <1>3, <2>1, RequestKeeps DEF RequestOK
<1>6. ASSUME NEW d \in Callers \ {c} PROVE RequestOK(caller[d])'
  <2>1. RequestOK(caller[d]) /\ caller[d].file \in Files
    BY RequestFacts, CallerFields DEF IInv
  <2>2. caller[d].pc = "replace" => caller[d].file # caller[c].file
    <3>1. PairOK(caller[c], caller[d])
      BY DEF IInv
    <3> QED
      BY <3>1 DEF PairOK, Committing
  <2>3. CommitOK(caller[d])'
    BY <1>3, <1>4, <2>1, <2>2 DEF CommitOK, RequestOK, fresh
  <2> QED
    BY <1>3, <2>1, <2>3, RequestKeeps DEF RequestOK
<1>7. \A d, e \in Callers : d # e => PairOK(caller'[d], caller'[e])
  BY <1>3, IdleOK, PairSymmetric DEF IInv
<1>8. TypeOK' /\ FileInv'
  BY <1>1, <1>3, <1>4 DEF TypeOK, IInv, FileInv, fresh
<1>9. HistoryInv'
  BY DEF IInv, HistoryInv, UsedOnce, FreshAtMostOnce, ConsumedOnce, ReportedIsDurable
<1> QED
  BY <1>5, <1>6, <1>7, <1>8, <1>9 DEF IInv

LEMMA ReplaceStep ==
  ASSUME Overlap = FALSE, IInv, NEW c \in Callers, Replace(c) PROVE IInv'
<1> DEFINE f == caller[c].file
<1>1. /\ caller[c].pc = "replace" /\ UNCHANGED <<reports, authorized>>
      /\ \/ /\ candidate[f] # None
            /\ committed' = [committed EXCEPT ![f] = candidate[f]]
            /\ disk' = [disk EXCEPT ![f] = @ \cup {candidate[f]}]
            /\ candidate' = [candidate EXCEPT ![f] = None]
            /\ Continue(c, [caller[c] EXCEPT !.pc = "sync"])
         \/ /\ Continue(c, Idle)
            /\ candidate' = [candidate EXCEPT ![f] = None]
            /\ UNCHANGED <<committed, disk>>
  BY DEF Replace
<1>2. CASE UNCHANGED <<committed, disk>> /\ Continue(c, Idle)
           /\ candidate' = [candidate EXCEPT ![f] = None]
  BY <1>1, <1>2, ReplaceFails DEF Committing
<1>3. CASE /\ candidate[f] # None
           /\ committed' = [committed EXCEPT ![f] = candidate[f]]
           /\ disk' = [disk EXCEPT ![f] = @ \cup {candidate[f]}]
           /\ candidate' = [candidate EXCEPT ![f] = None]
           /\ Continue(c, [caller[c] EXCEPT !.pc = "sync"])
  <2>1. CASE f = "freshness"
    BY <1>1, <1>3, <2>1, ReplaceFreshness
  <2>2. CASE f # "freshness"
    BY <1>1, <1>3, <2>2, ReplaceTransaction
  <2> QED
    BY <2>1, <2>2
<1> QED
  BY <1>1, <1>2, <1>3

-----------------------------------------------------------------------------
(* Steps that report *)

LEMMA AppendFacts ==
  ASSUME NEW S, NEW q \in Seq(S), NEW e \in S
  PROVE  /\ Append(q, e) \in Seq(S)
         /\ \A i \in DOMAIN Append(q, e) :
              \/ i \in DOMAIN q /\ Append(q, e)[i] = q[i]
              \/ Append(q, e)[i] = e /\ \A j \in DOMAIN Append(q, e) : ~(i < j)
OBVIOUS

LEMMA DeclareFreshStep ==
  ASSUME IInv, NEW c \in Callers, DeclareFresh(c) PROVE IInv'
<1> DEFINE e == [transition |-> caller[c].next.transition, epoch |-> caller[c].next.epoch,
                 time |-> caller[c].next.high]
<1>1. /\ caller[c].pc = "verify" /\ caller[c].file = "freshness" /\ caller[c].job = "statement"
      /\ fresh = caller[c].next /\ Continue(c, Idle) /\ reports' = Append(reports, e)
      /\ UNCHANGED <<committed, disk, candidate, authorized>>
  BY DEF DeclareFresh, files, load_freshness, fresh
<1>2. KindOK(caller[c]) /\ StateOK(caller[c]) /\ TypeOK /\ FileInv /\ HistoryInv
  BY RequestFacts DEF IInv
<1>3. /\ fresh \in FreshnessState /\ fresh # None /\ fresh.high # None
      /\ disk["freshness"] = {fresh} /\ \A i \in DOMAIN reports : Precedes(reports[i], fresh)
  BY <1>1, <1>2 DEF KindOK, StateOK, Kind, Writing, Replaced
<1>4. /\ e \in Reports /\ e.transition = fresh.transition /\ e.epoch = fresh.epoch
      /\ e.time = fresh.high
  BY <1>1, <1>3 DEF Reports, FreshnessState
<1> HIDE DEF e
<1>5. /\ reports' \in Seq(Reports)
      /\ \A i \in DOMAIN reports' :
           \/ i \in DOMAIN reports /\ reports'[i] = reports[i]
           \/ reports'[i] = e /\ \A j \in DOMAIN reports' : ~(i < j)
  <2>1. reports \in Seq(Reports)
    BY <1>2 DEF TypeOK
  <2> QED
    BY <1>1, <1>4, <2>1, AppendFacts
<1>6. Idle \in Caller /\ RequestOK(Idle)
  BY IdleOK DEF RequestOK, KindOK
<1>7. /\ caller' \in [Callers -> Caller] /\ caller'[c] = Idle
      /\ \A d \in Callers \ {c} : caller'[d] = caller[d]
  BY <1>1, <1>2, <1>6, ContinueFacts
<1>8. ASSUME NEW d \in Callers PROVE RequestOK(caller[d])'
  <2>1. RequestOK(caller'[d])
    BY <1>6, <1>7 DEF IInv
  <2>2. caller'[d].file = "freshness" /\ Replaced(caller'[d]) => fresh # caller'[d].next
    <3>1. CASE d = c
      BY <1>7, <3>1 DEF Replaced, Idle
    <3>2. CASE d # c
      <4>1. PairOK(caller[c], caller[d]) /\ caller'[d] = caller[d]
        BY <1>7, <3>2 DEF IInv
      <4> QED
        BY <1>1, <4>1 DEF PairOK, Replaced
    <3> QED
      BY <3>1, <3>2
  <2>3. KindOK(caller[d])' /\ CommitOK(caller[d])' /\ PreparedOK(caller[d])'
    BY <1>1, <2>1 DEF RequestOK, KindOK, CommitOK, PreparedOK, fresh, Carrying, Replaced,
                      transaction, Preparing
  <2>4. StateOK(caller[d])'
    BY <1>1, <2>1, <2>2 DEF RequestOK, StateOK, fresh, Replaced
  <2>5. CarriedOK(caller[d])' /\ LifecycleOK(caller[d])'
    BY <1>1, <2>1 DEF RequestOK, CarriedOK, LifecycleOK, fresh, Carrying, Replaced, transaction,
                      projectable
  <2> QED
    BY <2>3, <2>4, <2>5 DEF RequestOK
<1>9. \A d, g \in Callers : d # g => PairOK(caller'[d], caller'[g])
  BY <1>7, IdleOK, PairSymmetric DEF IInv
<1>10. TypeOK' /\ FileInv'
  BY <1>1, <1>2, <1>5, <1>7 DEF TypeOK, FileInv, fresh
<1>11. HistoryInv'
  <2>1. FreshAtMostOnce'
    <3>1. ASSUME NEW i \in DOMAIN reports', NEW j \in DOMAIN reports', i < j
          PROVE  \/ reports'[i].transition < reports'[j].transition
                 \/ /\ reports'[i].transition = reports'[j].transition
                    /\ reports'[i].epoch = reports'[j].epoch
                    /\ reports'[i].time < reports'[j].time
      <4>1. i \in DOMAIN reports /\ reports'[i] = reports[i]
        BY <1>5, <3>1
      <4>2. CASE j \in DOMAIN reports /\ reports'[j] = reports[j]
        BY <1>2, <3>1, <4>1, <4>2 DEF HistoryInv, UsedOnce, FreshAtMostOnce
      <4>3. CASE reports'[j] = e
        BY <1>3, <1>4, <4>1, <4>3 DEF Precedes
      <4> QED
        BY <1>5, <4>2, <4>3
    <3> QED
      BY <3>1 DEF FreshAtMostOnce
  <2>2. ReportedIsDurable'
    <3>1. Covers(fresh, e)
      BY <1>3, <1>4, StateFields DEF Covers
    <3> QED
      BY <1>1, <1>2, <1>3, <1>5, <3>1 DEF HistoryInv, ReportedIsDurable, Covers
  <2>3. ConsumedOnce'
    BY <1>1, <1>2 DEF HistoryInv, UsedOnce, ConsumedOnce
  <2> QED
    BY <2>1, <2>2, <2>3 DEF HistoryInv, UsedOnce
<1> QED
  BY <1>8, <1>9, <1>10, <1>11 DEF IInv

\* A lifecycle reports its transaction: the freshness file is its result.
LEMMA ReportAuthorization ==
  ASSUME IInv, NEW c \in Callers, Carrying(caller[c]), caller[c].job # "recover",
         ~(caller[c].file # "freshness" /\ caller[c].pc = "sync"),
         fresh = transaction(caller[c]).result, fresh # None,
         Continue(c, Idle),
         authorized' = Append(authorized, [purpose |-> caller[c].job,
                                           sequence |-> transaction(caller[c]).sequence]),
         UNCHANGED <<committed, disk, candidate, reports>>
  PROVE  IInv'
<1> DEFINE t == transaction(caller[c])
           p == caller[c].job
           e == [purpose |-> p, sequence |-> t.sequence]
<1>1. /\ KindOK(caller[c]) /\ CarriedOK(caller[c]) /\ LifecycleOK(caller[c])
      /\ TypeOK /\ FileInv /\ HistoryInv
  BY RequestFacts DEF IInv
<1>2. /\ t \in Transaction /\ scope(t) = p /\ p \in Purposes
      /\ \A u \in disk[p] : u # None /\ Upto(t, u)
  <2>1. scope(t) \in Purposes /\ scope(t) # "freshness"
    BY FileNames DEF scope
  <2> QED
    BY <1>1, <2>1 DEF KindOK, CarriedOK
<1>3. \A i \in DOMAIN authorized : authorized[i].purpose = p => authorized[i].sequence < t.sequence
  BY <1>1, <1>2, TransactionFields DEF LifecycleOK
<1>4. e \in Consumed /\ e.purpose = p /\ e.sequence = t.sequence
  BY <1>2, TransactionFields DEF Consumed
<1>5. authorized' = Append(authorized, e)
  OBVIOUS
<1> HIDE DEF t, e, p
<1>6. /\ authorized' \in Seq(Consumed)
      /\ \A i \in DOMAIN authorized' :
           \/ i \in DOMAIN authorized /\ authorized'[i] = authorized[i]
           \/ authorized'[i] = e /\ \A j \in DOMAIN authorized' : ~(i < j)
  <2>1. authorized \in Seq(Consumed)
    BY <1>1 DEF TypeOK
  <2> QED
    BY <1>4, <1>5, <2>1, AppendFacts
<1>7. Idle \in Caller /\ RequestOK(Idle)
  BY IdleOK DEF RequestOK, KindOK
<1>8. /\ caller' \in [Callers -> Caller] /\ caller'[c] = Idle
      /\ \A d \in Callers \ {c} : caller'[d] = caller[d]
  BY <1>1, <1>7, ContinueFacts
<1>9. ASSUME NEW d \in Callers PROVE RequestOK(caller[d])'
  <2>1. RequestOK(caller'[d])
    BY <1>7, <1>8 DEF IInv
  <2>2. ASSUME Carrying(caller'[d]), caller'[d].job = p
        PROVE  \/ t.sequence < transaction(caller'[d]).sequence
               \/ fresh.generation > transaction(caller'[d]).result.generation
    <3>1. d # c
      BY <1>8, <2>2 DEF Carrying, Replaced, Idle
    <3>2. PairOK(caller[c], caller[d]) /\ caller'[d] = caller[d]
      BY <1>8, <3>1 DEF IInv
    <3>3. transaction(caller[d]) \in Transaction /\ scope(transaction(caller[d])) = p
      <4>1. KindOK(caller[d]) /\ CarriedOK(caller[d]) /\ p # "recover"
        BY RequestFacts DEF p
      <4> QED
        BY <2>2, <3>2, <4>1 DEF KindOK, CarriedOK
    <3>4. Ordered(t, transaction(caller[d])) /\ t.sequence # transaction(caller[d]).sequence
      BY <1>2, <2>2, <3>2, <3>3 DEF PairOK, t, p
    <3>5. fresh = t.result
      BY DEF t
    <3> QED
      BY <1>2, <3>2, <3>3, <3>4, <3>5, TransactionFields DEF Ordered, Before
  <2>3. KindOK(caller[d])' /\ CommitOK(caller[d])' /\ PreparedOK(caller[d])' /\ StateOK(caller[d])'
    BY <2>1 DEF RequestOK, KindOK, CommitOK, PreparedOK, StateOK, fresh, Carrying, Replaced,
                transaction, Preparing
  <2>4. CarriedOK(caller[d])'
    BY <2>1 DEF RequestOK, CarriedOK, fresh, Carrying, Replaced, transaction, projectable
  <2>5. LifecycleOK(caller[d])'
    <3>1. ASSUME Carrying(caller'[d]), caller'[d].job # "recover",
                 NEW i \in DOMAIN authorized', authorized'[i].purpose = caller'[d].job
          PROVE  \/ authorized'[i].sequence < transaction(caller'[d]).sequence
                 \/ fresh # None /\ fresh.generation > transaction(caller'[d]).result.generation
      <4>1. CASE i \in DOMAIN authorized /\ authorized'[i] = authorized[i]
        BY <2>1, <3>1, <4>1 DEF RequestOK, LifecycleOK
      <4>2. CASE authorized'[i] = e
        BY <1>4, <2>2, <3>1, <4>2
      <4> QED
        BY <1>6, <3>1, <4>1, <4>2
    <3> QED
      BY <3>1 DEF LifecycleOK, fresh, Carrying, Replaced, transaction
  <2> QED
    BY <2>3, <2>4, <2>5 DEF RequestOK
<1>10. \A d, g \in Callers : d # g => PairOK(caller'[d], caller'[g])
  BY <1>8, IdleOK, PairSymmetric DEF IInv
<1>11. TypeOK' /\ FileInv'
  BY <1>1, <1>6, <1>8 DEF TypeOK, FileInv, fresh
<1>12. HistoryInv'
  <2>1. ASSUME NEW i \in DOMAIN authorized', NEW j \in DOMAIN authorized', i < j,
               authorized'[i].purpose = authorized'[j].purpose
        PROVE  authorized'[i].sequence < authorized'[j].sequence
    <3>1. i \in DOMAIN authorized /\ authorized'[i] = authorized[i]
      BY <1>6, <2>1
    <3>2. CASE j \in DOMAIN authorized /\ authorized'[j] = authorized[j]
      BY <1>1, <2>1, <3>1, <3>2 DEF HistoryInv, UsedOnce, ConsumedOnce
    <3>3. CASE authorized'[j] = e
      BY <1>3, <1>4, <2>1, <3>1, <3>3
    <3> QED
      BY <1>6, <3>2, <3>3
  <2>2. ASSUME NEW i \in DOMAIN authorized', NEW u \in disk[authorized'[i].purpose]
        PROVE  u # None /\ u.sequence >= authorized'[i].sequence
    <3>1. CASE i \in DOMAIN authorized /\ authorized'[i] = authorized[i]
      BY <1>1, <2>2, <3>1 DEF HistoryInv, UsedOnce, ConsumedOnce
    <3>2. CASE authorized'[i] = e
      <4>1. u # None /\ Upto(t, u)
        BY <1>2, <1>4, <2>2, <3>2
      <4>2. u \in Transaction
        BY <1>1, <1>2, <1>4, <2>2, <3>2, <4>1, FileNames DEF FileInv, Kind
      <4> QED
        BY <1>2, <1>4, <3>2, <4>1, <4>2, TransactionFields DEF Upto, Before
    <3> QED
      BY <1>6, <3>1, <3>2
  <2>3. ConsumedOnce'
    BY <2>1, <2>2 DEF ConsumedOnce
  <2>4. FreshAtMostOnce' /\ ReportedIsDurable'
    BY <1>1 DEF HistoryInv, UsedOnce, FreshAtMostOnce, ReportedIsDurable, Covers
  <2> QED
    BY <2>3, <2>4 DEF HistoryInv, UsedOnce
<1> QED
  BY <1>9, <1>10, <1>11, <1>12 DEF IInv

LEMMA AuthorizeStep == ASSUME IInv, NEW c \in Callers, Authorize(c) PROVE IInv'
<1>1. /\ caller[c].pc = "verify" /\ caller[c].file = "freshness" /\ caller[c].job # "statement"
      /\ fresh = caller[c].next /\ Continue(c, Idle)
      /\ authorized' = consumed(caller[c].job, caller[c].replay.sequence)
      /\ UNCHANGED <<committed, disk, candidate, reports>>
  BY DEF Authorize, files, load_freshness, fresh
<1>2. Carrying(caller[c]) /\ transaction(caller[c]) = caller[c].replay
  BY <1>1 DEF Carrying, transaction, Writing
<1>3. fresh = transaction(caller[c]).result /\ fresh # None
  BY <1>1, <1>2, RequestFacts DEF CarriedOK, StateOK, Replaced
<1>4. CASE caller[c].job = "recover"
  BY <1>1, <1>4, FailStep DEF consumed
<1>5. CASE caller[c].job # "recover"
  BY <1>1, <1>2, <1>3, <1>5, ReportAuthorization DEF consumed
<1> QED
  BY <1>4, <1>5

LEMMA ReconcileStep == ASSUME IInv, NEW c \in Callers, Reconcile(c) PROVE IInv'
<1> DEFINE target == caller[c].next.result
<1>1. /\ caller[c].pc = "project" /\ UNCHANGED <<committed, disk, candidate, reports>>
      /\ \/ /\ fresh = target
            /\ Continue(c, Idle)
            /\ authorized' = consumed(caller[c].job, caller[c].next.sequence)
         \/ /\ projectable(fresh, target)
            /\ Continue(c, [caller[c] EXCEPT
                    !.pc = "commit", !.file = "freshness",
                    !.state = fresh, !.next = target,
                    !.replay = caller[c].next])
            /\ UNCHANGED authorized
         \/ /\ Continue(c, Idle)
            /\ UNCHANGED authorized
  BY DEF Reconcile, files, load_freshness, fresh
<1>2. /\ caller[c].file # "freshness" /\ Carrying(caller[c])
      /\ transaction(caller[c]) = caller[c].next /\ transaction(caller[c]) \in Transaction
  BY <1>1, RequestFacts DEF KindOK, Carrying, Replaced, transaction
<1>3. target # None
  BY <1>2, TransactionFields, NoneIsNoState
<1>4. CASE /\ fresh = target /\ Continue(c, Idle)
           /\ authorized' = consumed(caller[c].job, caller[c].next.sequence)
  <2>1. CASE caller[c].job = "recover"
    BY <1>1, <1>4, <2>1, FailStep DEF consumed
  <2>2. CASE caller[c].job # "recover"
    BY <1>1, <1>2, <1>3, <1>4, <2>2, ReportAuthorization DEF consumed
  <2> QED
    BY <2>1, <2>2
<1>5. CASE /\ projectable(fresh, target) /\ UNCHANGED authorized
           /\ Continue(c, [caller[c] EXCEPT
                    !.pc = "commit", !.file = "freshness",
                    !.state = fresh, !.next = target,
                    !.replay = caller[c].next])
  BY <1>1, <1>5, ProjectStep
<1>6. CASE Continue(c, Idle) /\ UNCHANGED authorized
  BY <1>1, <1>6, FailStep
<1> QED
  BY <1>1, <1>4, <1>5, <1>6

-----------------------------------------------------------------------------
LEMMA InitInv == ASSUME Init PROVE IInv
<1>1. /\ committed = [f \in Files |-> None] /\ disk = [f \in Files |-> {None}]
      /\ candidate = [f \in Files |-> None] /\ caller = [c \in Callers |-> Idle]
      /\ reports = <<>> /\ authorized = <<>>
  BY DEF Init
<1>2. Idle \in Caller /\ None \in Content
  BY IdleOK DEF RequestOK, KindOK, Content, FreshnessFile
<1>3. TypeOK
  BY <1>1, <1>2 DEF TypeOK
<1>4. FileInv
  BY <1>1, FileNames DEF FileInv
<1>5. HistoryInv
  BY <1>1, FileNames DEF HistoryInv, UsedOnce, FreshAtMostOnce, ConsumedOnce, ReportedIsDurable
<1>6. \A c \in Callers : RequestOK(caller[c])
  BY <1>1, IdleOK
<1>7. \A c, d \in Callers : c # d => PairOK(caller[c], caller[d])
  BY <1>1, IdleOK
<1> QED
  BY <1>3, <1>4, <1>5, <1>6, <1>7 DEF IInv

LEMMA NextInv == ASSUME Overlap = FALSE, IInv, [Next]_vars PROVE IInv'
<1>1. CASE UNCHANGED vars
  <2>1. UNCHANGED <<committed, disk, candidate, caller, reports, authorized>>
    BY <1>1 DEF vars
  <2>2. \A c \in Callers : RequestOK(caller[c])'
    <3> TAKE c \in Callers
    <3>1. RequestOK(caller'[c])
      BY <2>1 DEF IInv
    <3> QED
      BY <2>1, <3>1, RequestStays
  <2>3. TypeOK' /\ FileInv'
    BY <2>1 DEF IInv, TypeOK, FileInv, fresh
  <2>4. HistoryInv'
    BY <2>1 DEF IInv, HistoryInv, UsedOnce, FreshAtMostOnce, ConsumedOnce, ReportedIsDurable
  <2>5. \A c, d \in Callers : c # d => PairOK(caller'[c], caller'[d])
    BY <2>1 DEF IInv
  <2> QED
    BY <2>2, <2>3, <2>4, <2>5 DEF IInv
<1>2. ASSUME NEW c \in Callers, Step(c) PROVE IInv'
  <2>1. CASE LifecycleRefuses(c) \/ VerifyFails(c)
    BY <2>1, FailStep DEF LifecycleRefuses, VerifyFails, Fail, files
  <2> QED
    BY <1>2, <2>1, EstablishFreshnessStep, LoadPreviousStep, BootstrapStep, EpochTransitionStep,
       ReconcileStep, RecoverStep, CommitCheckStep, WriteCandidateStep, ReplaceStep,
       SyncDirectoryStep, VerifyTransactionStep, DeclareFreshStep, AuthorizeStep
    DEF Step
<1>3. CASE PowerLoss
  BY <1>3, PowerLossStep
<1> QED
  BY <1>1, <1>2, <1>3 DEF Next

\* The invariant, for callers whose commits of one file do not overlap.
THEOREM FreshnessInvariant == ASSUME Overlap = FALSE PROVE Spec => []IInv
BY InitInv, NextInv, PTL DEF Spec

\* No generation or sequence of a record, a candidate or a prepared write
\* leaves its 64 bits.
THEOREM TypeCorrect == ASSUME Overlap = FALSE PROVE Spec => []TypeOK
BY FreshnessInvariant, PTL DEF IInv

\* Statements declared FRESH by establish_freshness advance, and the
\* authorizations the lifecycles report as consumed are never reusable.
THEOREM NothingCountsTwice == ASSUME Overlap = FALSE PROVE Spec => []UsedOnce
BY FreshnessInvariant, PTL DEF IInv, HistoryInv

\* A statement declared FRESH is in every freshness file that power loss can
\* leave from then on.
THEOREM FreshStaysRecorded == ASSUME Overlap = FALSE PROVE Spec => []ReportedIsDurable
BY FreshnessInvariant, PTL DEF IInv, HistoryInv

\* A lifecycle that changes the freshness file holds an authorization that is
\* consumed in every transaction file power loss can leave.
THEOREM LifecycleConsumesFirst ==
  ASSUME Overlap = FALSE PROVE Spec => []ConsumedBeforeProjected
<1>1. ASSUME IInv PROVE ConsumedBeforeProjected
  <2>1. ASSUME NEW c \in Callers, Projecting(c), NEW u \in disk[caller[c].job]
        PROVE  u # None /\ u.sequence >= projected(c).sequence
    <3>1. /\ caller[c].job \in Purposes /\ Carrying(caller[c])
          /\ projected(c) = transaction(caller[c])
          /\ ~(caller[c].file # "freshness" /\ caller[c].pc = "sync")
      BY <1>1, <2>1, RequestFacts, FileNames
      DEF Projecting, projected, transaction, KindOK, Carrying, Replaced, Writing
    <3>2. KindOK(caller[c]) /\ CarriedOK(caller[c]) /\ FileInv
      BY <1>1, RequestFacts
    <3>3. /\ projected(c) \in Transaction /\ caller[c].job # "recover"
          /\ scope(transaction(caller[c])) = caller[c].job
      BY <3>1, <3>2, FileNames DEF KindOK, CarriedOK, scope
    <3>4. u # None /\ Upto(projected(c), u)
      BY <2>1, <3>1, <3>2, <3>3, FileNames DEF CarriedOK
    <3>5. u \in Transaction
      BY <2>1, <3>1, <3>2, <3>4, FileNames DEF FileInv, Kind
    <3> QED
      BY <3>3, <3>4, <3>5, TransactionFields DEF Upto, Before
  <2> QED
    BY <2>1 DEF ConsumedBeforeProjected
<1> QED
  BY <1>1, FreshnessInvariant, PTL
=============================================================================
