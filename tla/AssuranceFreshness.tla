------------------------- MODULE AssuranceFreshness -------------------------
(***************************************************************************)
(* The host assurance library (assurance/src/guardian_assurance): durable  *)
(* freshness of one producer's statements, and the authorizations          *)
(* (bootstrap, epoch transition) of one authority that may change it.      *)
(* A composite transaction file per replay scope is authoritative for an   *)
(* authorization; the freshness file is the projection that ordinary       *)
(* statements use.  Every file is replaced through a sibling candidate:    *)
(* check, write, os.replace, fsync of the directory, verify.               *)
(*                                                                         *)
(* Callers are in-flight requests that share the two directories.  Every   *)
(* step may fail (OSError, or the end of the process, which come to the    *)
(* same) and power may be lost between any two.  Statements and            *)
(* authorizations are authenticated ones: anything else returns before it  *)
(* reads a file.                                                           *)
(***************************************************************************)
EXTENDS Naturals, Sequences, FiniteSets, TLC

CONSTANTS
    Callers,
    Epochs,
    LogicalTimes,            \* the logical times of statements
    AuthorizationSequences,  \* the sequences of authorizations
    UINT64_MAX,              \* largest generation and sequence
    Overlap,                 \* may two callers be inside commit of one file?
    None                     \* no file, no previous state

ASSUME AssuranceAssumption ==
    /\ UINT64_MAX \in Nat
    /\ LogicalTimes \subseteq Nat
    /\ AuthorizationSequences \subseteq 0 .. UINT64_MAX
    /\ Overlap \in BOOLEAN
    /\ None \notin Nat
    /\ None \notin Epochs

VARIABLES
    committed,   \* committed[f]: the file as a read finds it
    disk,        \* disk[f]: what power loss may leave of it
    candidate,   \* candidate[f]: the sibling .candidate file
    caller,      \* caller[c]: the request c is working on
    reports,     \* history: the statements declared FRESH, in order
    authorized   \* history: the authorizations reported as consumed, in order

files == <<committed, disk, candidate>>
vars == <<committed, disk, candidate, caller, reports, authorized>>

Purposes == {"bootstrap", "transition"}
Files == Purposes \cup {"freshness"}

\* One freshness record; high is None while the high-water mark is UNSET.
FreshnessState ==
    [epoch: Epochs, previous: Epochs \cup {None},
     high: LogicalTimes \cup {None},
     transition: 0 .. UINT64_MAX, generation: 0 .. UINT64_MAX]

ASSUME NoneIsNoState == None \notin FreshnessState

\* One composite transaction: replay high-water mark and resulting state.
Transaction ==
    [generation: 0 .. UINT64_MAX, sequence: AuthorizationSequences,
     result: FreshnessState]

\* What a read of a file gives: a record that passed the schema and digest
\* checks, or nothing.
FreshnessFile == FreshnessState \cup {None}
TransactionFile == Transaction \cup {None}
Content == FreshnessFile \cup TransactionFile

Caller ==
    [pc: {"idle", "told", "loaded", "commit", "write", "replace", "sync",
          "verify", "project"},
     job: {"statement", "bootstrap", "transition", "recover"},
     file: Files,
     epoch: Epochs \cup {None},         \* the statement's claims, kept until
                                        \* a candidate holds them
     time: LogicalTimes \cup {None},
     state: FreshnessFile,              \* freshness state prepared against
     replay: TransactionFile,           \* transaction prepared against; the
                                        \* one projected while file is freshness
     next: Content]                     \* the prepared candidate

Idle ==
    [pc |-> "idle", job |-> "statement", file |-> "freshness",
     epoch |-> None, time |-> None, state |-> None, replay |-> None,
     next |-> None]

Init ==
    /\ committed = [f \in Files |-> None]
    /\ disk = [f \in Files |-> {None}]
    /\ candidate = [f \in Files |-> None]
    /\ caller = [c \in Callers |-> Idle]
    /\ reports = <<>>
    /\ authorized = <<>>

load_freshness == committed["freshness"]
load_transaction(purpose) == committed[purpose]

\* Caller c goes on as r.
Continue(c, r) == caller' = [caller EXCEPT ![c] = r]

\* A failure ends the request; the files stay as they are.
Fail(c) == Continue(c, Idle) /\ UNCHANGED <<files, reports, authorized>>

-----------------------------------------------------------------------------
(* Ordinary statements *)

\* Mutant: a statement at the high-water mark passes.
advances_or_equals(s, time) == s.high # None => time >= s.high

\* The logical time advances the high-water mark of the current epoch.
advances(s, time) == s.high # None => time > s.high

\* evaluate_freshness of an established state; REPLAY stands for REPLAY and
\* LOGICAL_TIME_ROLLBACK.
evaluate_freshness(s, epoch, time) ==
    CASE epoch = s.epoch /\ advances(s, time)      -> "FRESH_CANDIDATE"
      [] epoch = s.epoch /\ ~advances(s, time)     -> "REPLAY"
      [] epoch # s.epoch /\ epoch = s.previous     -> "EPOCH_ROLLBACK"
      [] epoch # s.epoch /\ epoch # s.previous     ->
             "EPOCH_TRANSITION_REQUIRED"

\* A further generation of the record exists.
generation_left(s) == s.generation < UINT64_MAX

\* establish_freshness up to prepare: one read of the freshness file.  The
\* results FIRST_SEEN and EPOCH_TRANSITION_REQUIRED are kept by the caller;
\* any other terminal result, an unreadable file included, changes nothing.
EstablishFreshness(c) ==
    /\ caller[c].pc = "idle"
    /\ \E epoch \in Epochs, time \in LogicalTimes :
         LET s == load_freshness
             r == [Idle EXCEPT !.pc = "told", !.epoch = epoch]
         IN \/ /\ s = None
               /\ Continue(c, [r EXCEPT !.job = "bootstrap", !.time = time])
            \/ /\ s # None
               /\ evaluate_freshness(s, epoch, time)
                    = "EPOCH_TRANSITION_REQUIRED"
               /\ Continue(c, [r EXCEPT !.job = "transition"])
            \/ /\ s # None
               /\ evaluate_freshness(s, epoch, time) = "FRESH_CANDIDATE"
               /\ generation_left(s)
               /\ Continue(c, [Idle EXCEPT !.pc = "commit", !.state = s,
                     !.next = [s EXCEPT !.high = time,
                                        !.generation = s.generation + 1]])
    /\ UNCHANGED <<files, reports, authorized>>

-----------------------------------------------------------------------------
(* Authorizations *)

\* The caller reads the states the lifecycles are given: the transaction of
\* the replay scope, and the freshness state for a transition.
LoadPrevious(c) ==
    /\ caller[c].pc = "told"
    /\ Continue(c, [caller[c] EXCEPT
                      !.pc = "loaded",
                      !.state = IF caller[c].job = "transition"
                                THEN load_freshness ELSE None,
                      !.replay = load_transaction(caller[c].job)])
    /\ UNCHANGED <<files, reports, authorized>>

\* evaluate_authorization_replay gives AUTHORIZATION_CANDIDATE.
replay_candidate(previous, sequence) ==
    previous # None => /\ previous.sequence # UINT64_MAX
                       /\ sequence > previous.sequence

\* prepare_authorization_transaction and the backend's prepare: generation
\* follows the one passed as previous_generation.
prepared(c, purpose, previous, sequence, target) ==
    [caller[c] EXCEPT
       !.pc = "commit", !.file = purpose, !.replay = previous,
       !.epoch = None, !.time = None,
       !.next = [generation |-> IF previous = None THEN 0
                                ELSE previous.generation + 1,
                 sequence |-> sequence, result |-> target]]

\* The first freshness state of the producer.
initial_freshness_state(epoch, high) ==
    [epoch |-> epoch, previous |-> None, high |-> high,
     transition |-> 0, generation |-> 0]

\* execute_bootstrap_lifecycle up to commit: the authorization names the
\* statement's epoch and leaves the high-water mark UNSET or sets it to the
\* statement's time; previous_generation is always None.
Bootstrap(c) ==
    /\ caller[c].pc = "loaded"
    /\ caller[c].job = "bootstrap"
    /\ \E sequence \in AuthorizationSequences,
          high \in {None, caller[c].time} :
         /\ replay_candidate(caller[c].replay, sequence)
         /\ Continue(c, prepared(c, "bootstrap", None, sequence,
                           initial_freshness_state(caller[c].epoch, high)))
    /\ UNCHANGED <<files, reports, authorized>>

\* The authorization's transition_sequence is the exact next one.
next_transition(s, transition) == transition = s.transition + 1

\* The state of the new epoch: its high-water mark is UNSET.
transition_freshness_state(s, epoch, transition) ==
    [epoch |-> epoch, previous |-> s.epoch, high |-> None,
     transition |-> transition, generation |-> s.generation + 1]

\* execute_epoch_transition_lifecycle up to commit: from_epoch is the epoch
\* of the freshness state the caller holds, to_epoch that of its statement.
EpochTransition(c) ==
    /\ caller[c].pc = "loaded"
    /\ caller[c].job = "transition"
    /\ LET s == caller[c].state
           previous == caller[c].replay
       IN \E sequence \in AuthorizationSequences,
             transition \in 0 .. UINT64_MAX :
            /\ replay_candidate(previous, sequence)
            /\ caller[c].epoch # s.epoch
            /\ s.transition # UINT64_MAX
            /\ next_transition(s, transition)
            /\ generation_left(s)
            /\ previous # None => previous.generation # UINT64_MAX
            /\ Continue(c, prepared(c, "transition", previous, sequence,
                   transition_freshness_state(s, caller[c].epoch, transition)))
    /\ UNCHANGED <<files, reports, authorized>>

\* An authorization the lifecycle refuses ends the request.
LifecycleRefuses(c) == caller[c].pc \in {"told", "loaded"} /\ Fail(c)

\* Mutant: the projection overwrites whatever it finds.
projectable_any(current, target) == TRUE

\* The projection may move to the target: it is older than it, or missing.
projectable(current, target) ==
    current # None => current.generation < target.generation

\* What a finished lifecycle reports; a recovery reports nothing consumed.
consumed(job, sequence) ==
    IF job = "recover" THEN authorized
    ELSE Append(authorized, [purpose |-> job, sequence |-> sequence])

\* reconcile_verified_authorization_transaction up to commit.
Reconcile(c) ==
    /\ caller[c].pc = "project"
    /\ LET target == caller[c].next.result
           current == load_freshness
       IN \/ /\ current = target
             /\ Continue(c, Idle)
             /\ authorized' = consumed(caller[c].job, caller[c].next.sequence)
          \/ /\ current # target
             /\ projectable(current, target)
             /\ Continue(c, [caller[c] EXCEPT
                    !.pc = "commit", !.file = "freshness",
                    !.state = current, !.next = target,
                    !.replay = caller[c].next])
             /\ UNCHANGED authorized
          \/ /\ current # target
             /\ ~projectable(current, target)
             /\ Continue(c, Idle)
             /\ UNCHANGED authorized
    /\ UNCHANGED <<files, reports>>

\* After a restart, or a commit that was reported as failed: a caller takes up
\* the transaction it finds, has it verified and projects it.  It sees what the
\* last os.replace left, which need not be durable; verify compares the file
\* with what was just read from it, so load and verify are one step.
Recover(c) ==
    /\ caller[c].pc = "idle"
    /\ \E p \in Purposes :
         /\ load_transaction(p) # None
         /\ Continue(c, [Idle EXCEPT !.pc = "project", !.job = "recover",
                               !.file = p, !.next = load_transaction(p)])
    /\ UNCHANGED <<files, reports, authorized>>

-----------------------------------------------------------------------------
(* The file backends: load, commit, verify *)

\* The freshness file is the one the candidate was prepared against.
freshness_unchanged(c) == load_freshness = caller[c].state

\* The transaction file is the one prepared against: its generation, replay
\* state and resulting freshness state are.
transaction_unchanged(c) ==
    LET current == load_transaction(caller[c].file)
        previous == caller[c].replay
    IN IF previous = None THEN current = None
       ELSE /\ current # None
            /\ current.generation = previous.generation
            /\ current.sequence = previous.sequence
            /\ current.result = caller[c].state

\* commit: the read and comparison of the committed file; a file that changed
\* or cannot be read ends the request.
CommitCheck(c) ==
    /\ caller[c].pc = "commit"
    /\ \A d \in Callers \ {c} :
         Overlap \/ caller[d].file # caller[c].file
                 \/ caller[d].pc \notin {"write", "replace", "sync"}
    /\ \/ /\ IF caller[c].file = "freshness" THEN freshness_unchanged(c)
             ELSE transaction_unchanged(c)
          /\ Continue(c, [caller[c] EXCEPT !.pc = "write"])
       \/ Continue(c, Idle)
    /\ UNCHANGED <<files, reports, authorized>>

\* commit: the candidate file is written, synced, read back and compared; a
\* write that fails leaves a truncated one, which counts as none.
WriteCandidate(c) ==
    LET f == caller[c].file IN
    /\ caller[c].pc = "write"
    /\ \/ /\ candidate' = [candidate EXCEPT ![f] = caller[c].next]
          /\ Continue(c, [caller[c] EXCEPT !.pc = "replace"])
       \/ /\ candidate' = [candidate EXCEPT ![f] = None]
          /\ Continue(c, Idle)
    /\ UNCHANGED <<committed, disk, reports, authorized>>

\* commit: os.replace moves whatever the candidate file holds now.  Where it
\* fails the candidate stays; unless commits overlap the next one rewrites it
\* before reading it, so it counts as none.
Replace(c) ==
    LET f == caller[c].file IN
    /\ caller[c].pc = "replace"
    /\ \/ /\ candidate[f] # None
          /\ committed' = [committed EXCEPT ![f] = candidate[f]]
          /\ disk' = [disk EXCEPT ![f] = @ \cup {candidate[f]}]
          /\ candidate' = [candidate EXCEPT ![f] = None]
          /\ Continue(c, [caller[c] EXCEPT !.pc = "sync"])
       \/ /\ Continue(c, Idle)
          /\ candidate' = IF Overlap THEN candidate
                          ELSE [candidate EXCEPT ![f] = None]
          /\ UNCHANGED <<committed, disk>>
    /\ UNCHANGED <<reports, authorized>>

\* Mutant: a failed sync of the directory counts as a commit.
SyncDirectoryIgnored(c) ==
    /\ caller[c].pc = "sync"
    /\ Continue(c, [caller[c] EXCEPT !.pc = "verify"])
    /\ disk' \in {disk, [disk EXCEPT ![caller[c].file] =
                              {committed[caller[c].file]}]}
    /\ UNCHANGED <<committed, candidate, reports, authorized>>

\* commit: _sync_directory makes the replacement durable, or fails after it.
SyncDirectory(c) ==
    /\ caller[c].pc = "sync"
    /\ \/ /\ disk' = [disk EXCEPT ![caller[c].file] =
                          {committed[caller[c].file]}]
          /\ Continue(c, [caller[c] EXCEPT !.pc = "verify"])
       \/ Continue(c, Idle) /\ UNCHANGED disk
    /\ UNCHANGED <<committed, candidate, reports, authorized>>

\* verify of a transaction: it is projected next.
VerifyTransaction(c) ==
    /\ caller[c].pc = "verify"
    /\ caller[c].file \in Purposes
    /\ load_transaction(caller[c].file) = caller[c].next
    /\ Continue(c, [caller[c] EXCEPT !.pc = "project"])
    /\ UNCHANGED <<files, reports, authorized>>

\* verify of the freshness file by establish_freshness: the statement is FRESH.
DeclareFresh(c) ==
    /\ caller[c].pc = "verify"
    /\ caller[c].file = "freshness"
    /\ caller[c].job = "statement"
    /\ load_freshness = caller[c].next
    /\ Continue(c, Idle)
    /\ reports' = Append(reports, [transition |-> caller[c].next.transition,
                                   epoch |-> caller[c].next.epoch,
                                   time |-> caller[c].next.high])
    /\ UNCHANGED <<files, authorized>>

\* verify of the freshness file by the reconciliation: the transaction is
\* projected; a lifecycle reports its authorization as consumed.
Authorize(c) ==
    /\ caller[c].pc = "verify"
    /\ caller[c].file = "freshness"
    /\ caller[c].job # "statement"
    /\ load_freshness = caller[c].next
    /\ Continue(c, Idle)
    /\ authorized' = consumed(caller[c].job, caller[c].replay.sequence)
    /\ UNCHANGED <<files, reports>>

\* verify or the projection's read finds something else, or cannot read.
VerifyFails(c) == caller[c].pc \in {"verify", "project"} /\ Fail(c)

\* Power loss: a replacement not yet synced may be gone.
PowerLoss ==
    /\ \E b \in disk["bootstrap"], t \in disk["transition"],
          s \in disk["freshness"] :
         committed' = [bootstrap |-> b, transition |-> t, freshness |-> s]
    /\ disk' = [f \in Files |-> {committed'[f]}]
    /\ caller' = [c \in Callers |-> Idle]
    /\ candidate' = [f \in Files |-> None]
    /\ UNCHANGED <<reports, authorized>>

Step(c) ==
    \/ EstablishFreshness(c)
    \/ LoadPrevious(c)
    \/ Bootstrap(c)
    \/ EpochTransition(c)
    \/ LifecycleRefuses(c)
    \/ Reconcile(c)
    \/ Recover(c)
    \/ CommitCheck(c)
    \/ WriteCandidate(c)
    \/ Replace(c)
    \/ SyncDirectory(c)
    \/ VerifyTransaction(c)
    \/ DeclareFresh(c)
    \/ Authorize(c)
    \/ VerifyFails(c)

Next == (\E c \in Callers : Step(c)) \/ PowerLoss

Spec == Init /\ [][Next]_vars

-----------------------------------------------------------------------------
(* Properties *)

Reports == [transition: 0 .. UINT64_MAX, epoch: Epochs, time: LogicalTimes]
Consumed == [purpose: Purposes, sequence: AuthorizationSequences]

\* The type invariant: no generation or sequence of a committed record, a
\* candidate or a prepared write leaves its 64 bits.
TypeOK ==
    /\ committed \in [Files -> Content]
    /\ disk \in [Files -> SUBSET Content]
    /\ candidate \in [Files -> Content]
    /\ caller \in [Callers -> Caller]
    /\ reports \in Seq(Reports)
    /\ authorized \in Seq(Consumed)

\* Statements declared FRESH advance: two of them never carry the same logical
\* time in the same tenure of an epoch, and none is declared after a later
\* one, whatever failed or was lost between establish_freshness's read and
\* its verify.
FreshAtMostOnce ==
    \A i, j \in DOMAIN reports :
        i < j =>
          \/ reports[i].transition < reports[j].transition
          \/ /\ reports[i].transition = reports[j].transition
             /\ reports[i].epoch = reports[j].epoch
             /\ reports[i].time < reports[j].time

\* State s remembers that report r was made.
Covers(s, r) ==
    /\ s # None
    /\ \/ s.transition > r.transition
       \/ /\ s.transition = r.transition
          /\ s.epoch = r.epoch
          /\ s.high # None
          /\ s.high >= r.time

\* A statement declared FRESH stays recorded: every freshness file that power
\* loss can leave from then on covers it, so a restart never makes it fresh
\* again (commit syncs the directory before verify).
ReportedIsDurable ==
    \A i \in DOMAIN reports : \A s \in disk["freshness"] :
        Covers(s, reports[i])

\* Authorizations reported as consumed are consumed once and for good: the
\* sequences reported in one scope increase, and the scope's transaction file
\* records them whatever power loss leaves.
ConsumedOnce ==
    /\ \A i, j \in DOMAIN authorized :
         i < j /\ authorized[i].purpose = authorized[j].purpose =>
             authorized[i].sequence < authorized[j].sequence
    /\ \A i \in DOMAIN authorized : \A t \in disk[authorized[i].purpose] :
         t # None /\ t.sequence >= authorized[i].sequence

\* Neither a fresh statement nor an authorization counts twice.
UsedOnce == FreshAtMostOnce /\ ConsumedOnce

\* The lifecycle of caller c is changing the freshness file.
Projecting(c) ==
    /\ caller[c].job \in Purposes
    /\ \/ caller[c].pc = "project"
       \/ /\ caller[c].file = "freshness"
          /\ caller[c].pc \in {"commit", "write", "replace", "sync", "verify"}

\* The transaction a caller projects.
projected(c) ==
    IF caller[c].file = "freshness" THEN caller[c].replay ELSE caller[c].next

\* A lifecycle makes the change its authorization protects only once the
\* authorization is consumed for good: while it changes the freshness file,
\* every transaction file of its scope that power loss can leave holds the
\* authorization or a later one, whatever other callers commit meanwhile.
ConsumedBeforeProjected ==
    \A c \in Callers : Projecting(c) =>
        \A t \in disk[caller[c].job] :
            t # None /\ t.sequence >= projected(c).sequence

\* What the authorization design says of a failed or interrupted transaction
\* and a recovery does not keep: the change never outlives the consumption of
\* its authorization.  Where the freshness file shows a bootstrap or the k-th
\* transition, every transaction file that power loss can leave has consumed
\* it, so that the authorization is not reusable.
ConsumptionPrecedesMutation ==
    \A s \in disk["freshness"] \cup {committed["freshness"]} :
        s # None =>
          /\ \A t \in disk["bootstrap"] : t # None
          /\ s.transition > 0 =>
               \A t \in disk["transition"] :
                   t # None /\ t.result.transition >= s.transition

\* What the authorization design says of a failed or interrupted transaction
\* and the code does not meet: an authorization never stays consumed while the
\* change it protects can no longer become authoritative.
ConsumedIsApplied ==
    LET t == committed["transition"]
        s == committed["freshness"]
    IN t # None /\ s # None =>
         s.transition >= t.result.transition \/ projectable(s, t.result)
---------------------------------------------------------------------------
(* Callers and epochs are interchangeable: nothing orders either.          *)
Symmetry == Permutations(Callers) \cup Permutations(Epochs)
=============================================================================
