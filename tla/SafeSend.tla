------------------------------ MODULE SafeSend ------------------------------
(***************************************************************************)
(* The safe-send gate: one confirmed draft, its single row of the sends    *)
(* table, the jobs queued for it, the workers that run those jobs, the     *)
(* sweeper that recovers orphaned ones, the API callers, and the provider  *)
(* (Gmail's drafts or Slack's channel) that the message finally reaches.   *)
(*                                                                         *)
(* Every read and every write of the sends row is a transaction of its own *)
(* in the code, so each is an action here; a provider call is an action;   *)
(* a worker may die, or its handler be cancelled, between any two of them. *)
(* Conventions: 0 is "no id"; dispatchedAt is the provider's clock (the    *)
(* number of messages it had accepted) when dispatched_at was written, and *)
(* NULL when it never was.                                                 *)
(***************************************************************************)
EXTENDS Integers, Sequences

CONSTANTS
    Workers,      \* run_once invocations, each running one send job at a time
    Sweeper,      \* the one sweep that holds the advisory lock
    Callers,      \* concurrent API requests
    Contents,     \* what a draft can say; its digest identifies it
    NoContent,    \* no message at hand
    Channel,      \* "gmail" or "slack": how the provider sends and is probed
    Faults,       \* what the environment may do beyond crashing (see FaultKinds)
    MaxAttempts,  \* settings.max_attempts
    MaxReconciles,\* MAX_RECONCILE_ATTEMPTS
    MaxRequests,  \* bound: operator requests (retry, resolve)
    MaxCrashes    \* bound: deaths of a worker or of the sweeper

(* zombie:    a lease expires while its worker is still running;           *)
(* late:      a request whose answer timed out is accepted later;          *)
(* busy:      over PROBE_LIMIT newer messages hide ours from the probe;    *)
(* bad_body:  the provider answers with an empty or unreadable body;       *)
(* cancel:    wait_for cancels a handler at its deadline;                  *)
(* db_error:  a statement on the sends row raises;                         *)
(* same_pid:  the workers are tasks of one process, hence of one identity. *)
FaultKinds == {"zombie", "late", "busy", "bad_body", "cancel", "db_error", "same_pid"}

ASSUME ConstantsAssumption ==
    /\ Sweeper \notin Workers
    /\ NoContent \notin Contents
    /\ Channel \in {"gmail", "slack"}
    /\ Faults \subseteq FaultKinds
    /\ MaxAttempts \in Nat \ {0}
    /\ MaxReconciles \in Nat \ {0}
    /\ MaxRequests \in Nat
    /\ MaxCrashes \in Nat

VARIABLES
    draft,      \* the drafts row's content now
    send,       \* the sends row
    jobs,       \* the jobs rows for this send: one partition
    njobs,      \* jobs inserted so far; the newest has this id
    loc,        \* local state of each worker and of the sweeper
    call,       \* local state of each API request
    gdrafts,    \* the drafts ever created at Gmail, by id
    gone,       \* the ids of those sent or deleted since
    delivered,  \* the messages the provider accepted, in order
    wire,       \* requests given up on that the provider may yet accept
    forced,     \* how often an operator ordered a resend that took effect
    requests,   \* operator requests begun
    crashes     \* processes that died

vars == <<draft, send, jobs, njobs, loc, call, gdrafts, gone, delivered,
          wire, forced, requests, crashes>>

NULL == -1       \* dispatched_at IS NULL
Attested == -1   \* provider_message_id = 'operator-attested'
EmptyId == -2    \* provider_message_id = ''

Actors == Workers \cup {Sweeper}

(* worker_identity is host:pid; claimed_by holds it. *)
Identity(w) == IF "same_pid" \in Faults THEN "host:pid" ELSE w
Nobody == "nobody"
Identities == Workers \cup {"host:pid", Nobody}
Jobs == 1..(MaxRequests + 1)

SettledStates == {"delivered", "failed_transient", "failed_permanent", "uncertain"}
FailedStates == {"failed_transient", "failed_permanent"}

HandlerPcs == {"load", "rec_load", "rec_bump", "rec_probe", "rec_adopt", "rec_doubt",
               "build", "commit", "send", "record", "book", "fail_transient",
               "fail_permanent", "discard"}
Pcs == {"idle", "finish", "raise_transient", "raise_permanent", "requeue", "resolve"}
         \cup HandlerPcs

SendRow == [state: {"none", "in_flight"} \cup SettledStates,
            confirmed: Contents \cup {NoContent}, dispatchedAt: Int,
            draftId: Nat, messageId: Int, reconciles: Nat]
JobRow == [state: {"none", "ready", "running", "succeeded", "failed", "parked"},
           attempts: Nat, max: Nat, by: Identities]
Local == [pc: Pcs, ctx: {"run", "ceiling", "sweep"}, job: Nat, last: BOOLEAN,
          did: Nat, since: Int, spent: BOOLEAN, content: Contents \cup {NoContent},
          mid: Int]
Call == [op: {"idle", "claim", "retry", "marked_delivered", "forced_resend"},
         digest: Contents \cup {NoContent}]
Request == [did: Nat, content: Contents \cup {NoContent}]

(* The rows have the types of the schema and meet its CHECK constraints:   *)
(* jobs_attempts_bounded, sends_uncertain_was_dispatched and               *)
(* sends_delivered_has_evidence. A statement that broke one would raise.   *)
TypeOK ==
    /\ draft \in Contents
    /\ send \in SendRow
    /\ jobs \in [Jobs -> JobRow]
    /\ \A j \in Jobs : jobs[j].attempts <= jobs[j].max
    /\ send.state = "uncertain" => send.dispatchedAt # NULL
    /\ send.state = "delivered" => send.messageId # 0
    /\ njobs \in Nat
    /\ loc \in [Actors -> Local]
    /\ call \in [Callers -> Call]
    /\ gdrafts \in Seq(Contents)
    /\ gone \subseteq Nat
    /\ delivered \in Seq(Contents)
    /\ wire \subseteq Request
    /\ forced \in Nat /\ requests \in Nat /\ crashes \in Nat

Idle == [pc |-> "idle", ctx |-> "run", job |-> 0, last |-> FALSE, did |-> 0,
         since |-> NULL, spent |-> FALSE, content |-> NoContent, mid |-> 0]
NoCall == [op |-> "idle", digest |-> NoContent]
NoJob == [state |-> "none", attempts |-> 0, max |-> MaxAttempts, by |-> Nobody]

(* create_draft has inserted the draft; nobody has confirmed it yet. *)
Init ==
    /\ draft \in Contents
    /\ send = [state |-> "none", confirmed |-> NoContent, dispatchedAt |-> NULL,
               draftId |-> 0, messageId |-> 0, reconciles |-> 0]
    /\ jobs = [j \in Jobs |-> NoJob]
    /\ njobs = 0
    /\ loc = [p \in Actors |-> Idle]
    /\ call = [k \in Callers |-> NoCall]
    /\ gdrafts = <<>> /\ gone = {} /\ delivered = <<>> /\ wire = {}
    /\ forced = 0 /\ requests = 0 /\ crashes = 0

provider == <<gdrafts, gone, delivered, wire>>
bounds == <<forced, requests, crashes>>

-----------------------------------------------------------------------------
(* Helpers *)

(* Execution p continues with local state l, or just at pc. *)
Become(p, l) == loc' = [loc EXCEPT ![p] = l]
Goto(p, pc) == Become(p, [loc[p] EXCEPT !.pc = pc])

(* Where an execution goes once reconcile_send has returned a verdict:     *)
(* run_send itself, _finalize_failure at the ceiling, or the sweeper.      *)
After(ctx, verdict) ==
    CASE ctx = "run" /\ verdict = "not_sent"         -> "build"
      [] ctx = "run" /\ verdict = "retry_later"      -> "raise_transient"
      [] ctx = "run" /\ verdict = "settled"          -> "finish"
      [] ctx = "ceiling" /\ verdict = "not_sent"     -> "fail_transient"
      [] ctx = "ceiling" /\ verdict = "retry_later"  -> "rec_doubt"
      [] ctx = "ceiling" /\ verdict = "settled"      -> "raise_transient"
      [] ctx = "sweep" /\ verdict = "settled"        -> "resolve"
      [] OTHER                                       -> "requeue"

(* Mutant: the ceiling is reached and nobody asks the provider. *)
FailUnasked(l, class) ==
    [l EXCEPT !.content = NoContent,
              !.pc = IF class = "permanent" THEN "fail_permanent"
                     ELSE IF l.last THEN "fail_transient" ELSE "raise_transient"]

(* _finalize_failure: what a failed provider call does next. *)
FinalizeFailure(l, class) ==
    [l EXCEPT !.content = NoContent,
              !.pc = IF class = "permanent" THEN "fail_permanent"
                     ELSE IF l.last THEN "rec_load" ELSE "raise_transient",
              !.ctx = IF class # "permanent" /\ l.last THEN "ceiling" ELSE @]

(* queue.enqueue of a send job. *)
Enqueue ==
    /\ njobs' = njobs + 1
    /\ jobs' = [jobs EXCEPT ![njobs + 1] = [NoJob EXCEPT !.state = "ready"]]

(* queue.operator_retry of job j: at least one more attempt. *)
Resumable(j) == j # 0 /\ jobs[j].state \in {"parked", "failed"}
MoreAttempts(j) ==
    IF jobs[j].max > jobs[j].attempts THEN jobs[j].max ELSE jobs[j].attempts + 1
Resume(j) ==
    /\ jobs' = [jobs EXCEPT ![j] = [@ EXCEPT !.state = "ready", !.max = MoreAttempts(j)]]
    /\ UNCHANGED njobs

-----------------------------------------------------------------------------
(* The provider (external; modelled from how the send providers use it) *)

(* Gmail sends a draft once and deletes it; Slack posts whatever it gets.  *)
CanAccept(did) == IF Channel = "gmail" THEN did \notin gone ELSE TRUE
Accept(did, content) ==
    /\ CanAccept(did)
    /\ IF Channel = "gmail"
       THEN /\ delivered' = Append(delivered, gdrafts[did])
            /\ gone' = gone \cup {did}
       ELSE /\ delivered' = Append(delivered, content)
            /\ UNCHANGED gone

(* A request abandoned by its client reaches the provider after all. *)
LateAccept(r) ==
    /\ r \in wire
    /\ wire' = wire \ {r}
    /\ IF CanAccept(r.did) THEN Accept(r.did, r.content)
       ELSE UNCHANGED <<gone, delivered>>
    /\ UNCHANGED <<draft, send, jobs, njobs, loc, call, gdrafts, bounds>>

(* What probe_by_fingerprint may answer execution l. Gmail: the draft we   *)
(* recorded still exists, or is gone (found, but it names no message).     *)
(* Slack: the newest message carrying our key, which is inside the window  *)
(* if it was posted after dispatched_at and may be if it was posted        *)
(* shortly before; ABSENT when no such message is on the page read.        *)
ProbeAnswers(l) ==
    {<<"inconclusive", 0>>} \cup
    IF Channel = "gmail"
    THEN IF l.did = 0 THEN {}
         ELSE IF l.did \notin gone THEN {<<"absent", 0>>}
         ELSE {<<"found", 0>>} \cup
              (IF "bad_body" \in Faults THEN {<<"absent", 0>>} ELSE {})
    ELSE (IF delivered # <<>> THEN {<<"found", Len(delivered)>>} ELSE {}) \cup
         (IF Len(delivered) <= l.since \/ "busy" \in Faults
          THEN {<<"absent", 0>>} ELSE {})

-----------------------------------------------------------------------------
(* API requests (each one session, committed by its route) *)

(* update_draft: nothing ties it to a send that already exists. *)
UpdateDraft(c) ==
    /\ c # draft
    /\ draft' = c
    /\ UNCHANGED <<send, jobs, njobs, loc, call, provider, bounds>>

(* send_draft up to the claim: the digest must be the draft's as read now. *)
(* A wrong digest, or a send that already exists, changes nothing.         *)
SendDraft(k) ==
    /\ call[k].op = "idle"
    /\ send.state = "none"
    /\ call' = [call EXCEPT ![k] = [op |-> "claim", digest |-> draft]]
    /\ UNCHANGED <<draft, send, jobs, njobs, loc, provider, bounds>>

(* claim_send: ON CONFLICT DO NOTHING on the idempotency key; the winner   *)
(* books the job in the same transaction, the loser replays its row.       *)
Claimed(digest) == [send EXCEPT !.state = "in_flight", !.confirmed = digest]

ClaimSend(k) ==
    /\ call[k].op = "claim"
    /\ IF send.state = "none"
       THEN send' = Claimed(call[k].digest) /\ Enqueue
       ELSE UNCHANGED <<send, jobs, njobs>>
    /\ call' = [call EXCEPT ![k] = NoCall]
    /\ UNCHANGED <<draft, loc, provider, bounds>>

(* operator_retry and resolve_send first load the row and refuse by state. *)
OperatorLoads(k, op, states) ==
    /\ call[k].op = "idle"
    /\ send.state \in states
    /\ requests < MaxRequests
    /\ requests' = requests + 1
    /\ call' = [call EXCEPT ![k].op = op]
    /\ UNCHANGED <<draft, send, jobs, njobs, loc, provider, forced, crashes>>

(* Mutant: the retry also forgets that a dispatch was attempted. *)
ReopenedBlank == [send EXCEPT !.state = "in_flight", !.reconciles = 0,
                              !.dispatchedAt = NULL]

Reopened == [send EXCEPT !.state = "in_flight", !.reconciles = 0]

(* operator_retry's writes: the row back to in_flight, whatever its state  *)
(* has become since it was loaded, and the newest job resumed if it can be.*)
OperatorRetry(k) ==
    /\ call[k].op = "retry"
    /\ send' = Reopened
    /\ IF Resumable(njobs) THEN Resume(njobs) ELSE UNCHANGED <<jobs, njobs>>
    /\ call' = [call EXCEPT ![k] = NoCall]
    /\ UNCHANGED <<draft, loc, provider, bounds>>

(* Mutant: the attestation does not look at the state again. *)
AttestedBlind ==
    [send EXCEPT !.state = "delivered", !.messageId = IF @ = 0 THEN Attested ELSE @]

(* resolve_send, marked_delivered: a person attests to the delivery. *)
AttestedRow ==
    IF send.state = "uncertain"
    THEN [send EXCEPT !.state = "delivered",
                      !.messageId = IF @ = 0 THEN Attested ELSE @]
    ELSE send

MarkDelivered(k) ==
    /\ call[k].op = "marked_delivered"
    /\ send' = AttestedRow
    /\ call' = [call EXCEPT ![k] = NoCall]
    /\ UNCHANGED <<draft, jobs, njobs, loc, provider, bounds>>

(* resolve_send, forced_resend: the one path that clears dispatched_at.    *)
(* Work is booked whether or not the compare-and-swap found the row.       *)
Resent == [send EXCEPT !.state = "in_flight", !.reconciles = 0, !.dispatchedAt = NULL]

ForcedResend(k) ==
    /\ call[k].op = "forced_resend"
    /\ IF send.state = "uncertain"
       THEN send' = Resent /\ forced' = forced + 1
       ELSE UNCHANGED <<send, forced>>
    /\ IF Resumable(njobs) THEN Resume(njobs) ELSE Enqueue
    /\ call' = [call EXCEPT ![k] = NoCall]
    /\ UNCHANGED <<draft, loc, provider, requests, crashes>>

-----------------------------------------------------------------------------
(* The worker: queue.claim, run_send, and queue.succeed or queue.fail *)

(* Mutant: the attempt ceiling is not looked at. *)
ClaimableForever(j) ==
    jobs[j].state = "ready" /\ \A i \in Jobs : jobs[i].state # "running"

(* Every job of this send has the partition of its connection, so none may *)
(* be running.                                                             *)
Claimable(j) ==
    /\ jobs[j].state = "ready" /\ jobs[j].attempts < jobs[j].max
    /\ \A i \in Jobs : jobs[i].state # "running"

(* The claim commits before the handler starts. *)
Claim(w, j) ==
    /\ loc[w].pc = "idle"
    /\ Claimable(j)
    /\ jobs' = [jobs EXCEPT ![j].state = "running", ![j].attempts = @ + 1,
                            ![j].by = Identity(w)]
    /\ Become(w, [Idle EXCEPT !.pc = "load", !.job = j,
                              !.last = (jobs[j].attempts + 1 >= jobs[j].max)])
    /\ UNCHANGED <<draft, send, njobs, call, provider, bounds>>

(* Mutant: a retry dispatches again without reconciling. *)
DispatchUnasked == IF send.state = "in_flight" THEN "build" ELSE "finish"

(* Nothing to do unless the row is in flight, and a dispatched one is      *)
(* reconciled first.                                                       *)
FirstStep ==
    IF send.state # "in_flight" THEN "finish"
    ELSE IF send.dispatchedAt # NULL THEN "rec_load"
    ELSE "build"

(* run_send reads the row. *)
LoadSend(w) ==
    /\ loc[w].pc = "load"
    /\ Become(w, [loc[w] EXCEPT !.did = send.draftId, !.pc = FirstStep])
    /\ UNCHANGED <<draft, send, jobs, njobs, call, provider, bounds>>

(* Mutant: prepare ignores the draft the row records. *)
AlwaysDrafts(l) == Channel = "gmail"

(* Slack prepares nothing; Gmail creates a draft once. *)
NeedsDraft(l) == Channel = "gmail" /\ l.did = 0

(* run_send builds the request from the draft as it is now, and prepare    *)
(* creates the Gmail draft unless the row already records one.             *)
Build(w) ==
    LET l == loc[w]
        create == NeedsDraft(l)
    IN /\ l.pc = "build"
       /\ \/ /\ ~create
             /\ Become(w, [l EXCEPT !.pc = "commit", !.content =
                              IF Channel = "slack" THEN draft ELSE NoContent])
             /\ UNCHANGED gdrafts
          \/ /\ create
             /\ gdrafts' = Append(gdrafts, draft)
             /\ Become(w, [l EXCEPT !.pc = "commit", !.did = Len(gdrafts) + 1])
          \/ /\ create \* the draft is made and the answer lost
             /\ gdrafts' = Append(gdrafts, draft)
             /\ Become(w, FinalizeFailure(l, "transient"))
          \/ /\ create
             /\ \E class \in {"transient", "permanent"} :
                   Become(w, FinalizeFailure(l, class))
             /\ UNCHANGED gdrafts
       /\ UNCHANGED <<draft, send, jobs, njobs, call, gone, delivered, wire, bounds>>

(* Mutant: the row is not told before the provider is. *)
DispatchUnrecorded(did) == send

(* _commit_dispatch_attempt: COALESCE both columns, only while in flight.  *)
Dispatched(did) ==
    IF send.state = "in_flight"
    THEN [send EXCEPT !.dispatchedAt = IF @ = NULL THEN Len(delivered) ELSE @,
                      !.draftId = IF @ = 0 THEN did ELSE @]
    ELSE send

(* The row count is not looked at: the call to the provider follows. *)
CommitDispatchAttempt(w) ==
    /\ loc[w].pc = "commit"
    /\ send' = Dispatched(loc[w].did)
    /\ Goto(w, "send")
    /\ UNCHANGED <<draft, jobs, njobs, call, provider, bounds>>

(* provider.send, by what became of the request and of its answer. *)
SendAccepted(w) ==
    /\ Accept(loc[w].did, loc[w].content)
    /\ Become(w, [loc[w] EXCEPT !.pc = "record", !.content = NoContent,
                                !.mid = Len(delivered) + 1])
    /\ UNCHANGED wire

SendAnswerLost(w) ==
    /\ Accept(loc[w].did, loc[w].content)
    /\ Become(w, FinalizeFailure(loc[w], "transient"))
    /\ UNCHANGED wire

(* Mutant: an unreadable answer is a delivery on either channel. *)
AssumeDelivered(l) ==
    [l EXCEPT !.pc = "record", !.content = NoContent, !.mid = EmptyId]

(* An unreadable 2xx is a permanent error on Slack; on Gmail an empty body *)
(* is taken for success before its status is looked at.                    *)
Unreadable(l) ==
    IF Channel = "slack" THEN FinalizeFailure(l, "permanent")
    ELSE [l EXCEPT !.pc = "record", !.content = NoContent, !.mid = EmptyId]

SendGarbled(w) ==
    /\ "bad_body" \in Faults
    /\ \/ Accept(loc[w].did, loc[w].content)
       \/ UNCHANGED <<gone, delivered>>
    /\ Become(w, Unreadable(loc[w]))
    /\ UNCHANGED wire

SendRefused(w) ==
    /\ \E class \in {"transient", "permanent"} :
          Become(w, FinalizeFailure(loc[w], class))
    /\ UNCHANGED <<gone, delivered, wire>>

SendDelayed(w) ==
    LET r == [did |-> loc[w].did, content |-> loc[w].content]
    IN /\ "late" \in Faults
       /\ r \notin wire
       /\ wire' = wire \cup {r}
       /\ Become(w, FinalizeFailure(loc[w], "transient"))
       /\ UNCHANGED <<gone, delivered>>

ProviderSend(w) ==
    /\ loc[w].pc = "send"
    /\ \/ SendAccepted(w)
       \/ SendAnswerLost(w)
       \/ SendGarbled(w)
       \/ SendRefused(w)
       \/ SendDelayed(w)
    /\ UNCHANGED <<draft, send, jobs, njobs, call, gdrafts, bounds>>

(* Mutant: _mark_delivered without its state predicate. *)
DeliveredAnyway(mid, did) ==
    [send EXCEPT !.state = "delivered", !.messageId = mid,
                 !.draftId = IF did = 0 THEN @ ELSE did]

(* _mark_delivered: a compare-and-swap on in_flight. *)
Delivered(mid, did) ==
    IF send.state = "in_flight"
    THEN [send EXCEPT !.state = "delivered", !.messageId = mid,
                      !.draftId = IF did = 0 THEN @ ELSE did]
    ELSE send

RecordDelivery(w) ==
    /\ loc[w].pc = "record"
    /\ send' = Delivered(loc[w].mid, loc[w].did)
    /\ Goto(w, "book")
    /\ UNCHANGED <<draft, jobs, njobs, call, provider, bounds>>

(* connections.record_success, after the delivery has committed. *)
RecordSuccess(w) ==
    /\ loc[w].pc = "book"
    /\ Goto(w, "finish")
    /\ UNCHANGED <<draft, send, jobs, njobs, call, provider, bounds>>

(* _set_terminal, then the tidy-up of a permanent failure's Gmail draft.   *)
Fails(state) == IF send.state = "in_flight" THEN [send EXCEPT !.state = state] ELSE send

SetTerminal(w) ==
    /\ \/ /\ loc[w].pc = "fail_transient"
          /\ send' = Fails("failed_transient")
          /\ Goto(w, "raise_transient")
       \/ /\ loc[w].pc = "fail_permanent"
          /\ send' = Fails("failed_permanent")
          /\ Goto(w, IF loc[w].did # 0 THEN "discard" ELSE "raise_permanent")
    /\ UNCHANGED <<draft, jobs, njobs, call, provider, bounds>>

(* provider.discard is best effort: the draft may survive it. *)
Discard(w) ==
    /\ loc[w].pc = "discard"
    /\ \/ gone' = gone \cup {loc[w].did}
       \/ UNCHANGED gone
    /\ Goto(w, "raise_permanent")
    /\ UNCHANGED <<draft, send, jobs, njobs, call, gdrafts, delivered, wire, bounds>>

-----------------------------------------------------------------------------
(* reconcile_send, run by a worker or by the sweeper *)

ReconcileLoad(p) ==
    LET ctx == loc[p].ctx
    IN /\ loc[p].pc = "rec_load"
       /\ Become(p, [loc[p] EXCEPT !.did = send.draftId, !.since = send.dispatchedAt,
             !.pc =
               IF send.state # "in_flight" THEN After(ctx, "settled")
               ELSE IF send.dispatchedAt = NULL THEN After(ctx, "not_sent")
               ELSE IF send.reconciles >= MaxReconciles THEN "rec_doubt"
               ELSE "rec_bump"])
       /\ UNCHANGED <<draft, send, jobs, njobs, call, provider, bounds>>

(* _bump_reconcile_attempts, in whatever state the row is. *)
Bumped == [send EXCEPT !.reconciles = @ + 1]

ReconcileBump(p) ==
    /\ loc[p].pc = "rec_bump"
    /\ send' = Bumped
    /\ Become(p, [loc[p] EXCEPT !.pc = "rec_probe",
                                !.spent = (send.reconciles + 1 >= MaxReconciles)])
    /\ UNCHANGED <<draft, jobs, njobs, call, provider, bounds>>

(* What reconcile_send makes of the answer: a message without an id is no  *)
(* evidence, and the last inconclusive answer is one too many.             *)
Judge(l, a) ==
    CASE a[1] = "found"        -> IF a[2] # 0 THEN "rec_adopt" ELSE "rec_doubt"
      [] a[1] = "absent"       -> After(l.ctx, "not_sent")
      [] a[1] = "inconclusive" -> IF l.spent THEN "rec_doubt"
                                  ELSE After(l.ctx, "retry_later")

ReconcileProbe(p) ==
    LET l == loc[p]
    IN /\ l.pc = "rec_probe"
       /\ \E a \in ProbeAnswers(l) :
             Become(p, [l EXCEPT !.spent = FALSE, !.since = NULL,
                                 !.mid = a[2], !.pc = Judge(l, a)])
       /\ UNCHANGED <<draft, send, jobs, njobs, call, provider, bounds>>

(* _mark_delivered with the message found at the provider. *)
ReconcileAdopt(p) ==
    /\ loc[p].pc = "rec_adopt"
    /\ send' = Delivered(loc[p].mid, loc[p].did)
    /\ Goto(p, After(loc[p].ctx, "settled"))
    /\ UNCHANGED <<draft, jobs, njobs, call, provider, bounds>>

(* _mark_uncertain: a compare-and-swap on in_flight and dispatched. *)
Doubted ==
    IF send.state = "in_flight" /\ send.dispatchedAt # NULL
    THEN [send EXCEPT !.state = "uncertain"] ELSE send

ReconcileDoubt(p) ==
    /\ loc[p].pc = "rec_doubt"
    /\ send' = Doubted
    /\ Goto(p, After(loc[p].ctx, "settled"))
    /\ UNCHANGED <<draft, jobs, njobs, call, provider, bounds>>

-----------------------------------------------------------------------------
(* How an execution ends *)

(* The sweeper's transaction locks the job it is recovering. *)
Unlocked(j) == loc[Sweeper].job # j

(* The compare-and-swap of _SUCCEED, _RETRY and _TERMINAL. *)
FinishJob(w, state) ==
    LET j == loc[w].job
    IN /\ Unlocked(j)
       /\ jobs' = IF jobs[j].state = "running" /\ jobs[j].by = Identity(w)
                  THEN [jobs EXCEPT ![j].state = state] ELSE jobs
       /\ Become(w, Idle)
       /\ UNCHANGED <<draft, send, njobs, call, provider, bounds>>

Succeed(w) == loc[w].pc = "finish" /\ FinishJob(w, "succeeded")

(* queue.fail: only a transient error below the ceiling is retried. *)
Fail(w) ==
    \/ /\ loc[w].pc = "raise_transient"
       /\ FinishJob(w, IF loc[w].last THEN "parked" ELSE "ready")
    \/ /\ loc[w].pc = "raise_permanent"
       /\ FinishJob(w, "failed")

(* asyncio.wait_for cancels the handler. CancelledError passes by every    *)
(* except Exception, and TimeoutError then classifies as transient.        *)
CancelHandler(w) ==
    /\ "cancel" \in Faults
    /\ loc[w].pc \in HandlerPcs
    /\ Goto(w, "raise_transient")
    /\ UNCHANGED <<draft, send, jobs, njobs, call, provider, bounds>>

(* A statement of the handler, or queue.succeed after it, raises; a        *)
(* driver's error classifies as permanent. Errors inside a probe, a send,  *)
(* a discard or record_success are caught.                                 *)
DbError(w) ==
    /\ "db_error" \in Faults
    /\ loc[w].pc \in (HandlerPcs \cup {"finish"}) \ {"rec_probe", "send", "discard", "book"}
    /\ Goto(w, "raise_permanent")
    /\ UNCHANGED <<draft, send, jobs, njobs, call, provider, bounds>>

(* A process dies. Its local state and open transaction are gone; a        *)
(* worker's job stays running under its lease.                             *)
Crash(p) ==
    /\ loc[p].pc # "idle"
    /\ crashes < MaxCrashes
    /\ crashes' = crashes + 1
    /\ Become(p, Idle)
    /\ UNCHANGED <<draft, send, jobs, njobs, call, provider, forced, requests>>

-----------------------------------------------------------------------------
(* The sweeper *)

(* Mutant: leases are not looked at. *)
AnyRunning(j) == jobs[j].state = "running"

(* select_stale: the lease (300 s) outlives a handler (cancelled at 120 s),*)
(* so it expires on a live worker only if that worker was frozen.          *)
Stale(j) ==
    /\ jobs[j].state = "running"
    /\ IF "zombie" \in Faults THEN TRUE ELSE \A w \in Workers : loc[w].job # j

SweepStale(j) ==
    /\ loc[Sweeper].pc = "idle"
    /\ Stale(j)
    /\ Become(Sweeper, [Idle EXCEPT !.pc = "rec_load", !.ctx = "sweep", !.job = j])
    /\ UNCHANGED <<draft, send, jobs, njobs, call, provider, bounds>>

(* Mutant: a settled orphan is left as it was found. *)
LeaveSettled == IF loc[Sweeper].pc = "requeue" THEN "ready" ELSE "running"

(* queue.requeue or queue.resolve; attempts are kept. *)
Recovered == IF loc[Sweeper].pc = "requeue" THEN "ready" ELSE "succeeded"

(* The sweep's transaction commits. *)
SweepCommit ==
    LET j == loc[Sweeper].job
    IN /\ loc[Sweeper].pc \in {"requeue", "resolve"}
       /\ jobs' = [jobs EXCEPT ![j].state = Recovered]
       /\ Become(Sweeper, Idle)
       /\ UNCHANGED <<draft, send, njobs, call, provider, bounds>>

-----------------------------------------------------------------------------
Reconcile(p) ==
    \/ ReconcileLoad(p) \/ ReconcileBump(p) \/ ReconcileProbe(p)
    \/ ReconcileAdopt(p) \/ ReconcileDoubt(p)

RunSend(w) ==
    \/ LoadSend(w) \/ Build(w) \/ CommitDispatchAttempt(w) \/ ProviderSend(w)
    \/ RecordDelivery(w) \/ RecordSuccess(w) \/ SetTerminal(w) \/ Discard(w)
    \/ Reconcile(w)
    \/ Succeed(w) \/ Fail(w)

Operator(k) == OperatorRetry(k) \/ MarkDelivered(k) \/ ForcedResend(k)

Next ==
    \/ \E c \in Contents : UpdateDraft(c)
    \/ \E k \in Callers :
          \/ SendDraft(k) \/ ClaimSend(k) \/ Operator(k)
          \/ OperatorLoads(k, "retry", FailedStates)
          \/ \E r \in {"marked_delivered", "forced_resend"} :
                OperatorLoads(k, r, {"uncertain"})
    \/ \E w \in Workers :
          \/ \E j \in Jobs : Claim(w, j)
          \/ RunSend(w) \/ CancelHandler(w) \/ DbError(w)
    \/ \E j \in Jobs : SweepStale(j)
    \/ Reconcile(Sweeper) \/ SweepCommit
    \/ \E p \in Actors : Crash(p)
    \/ \E r \in wire : LateAccept(r)

Spec == Init /\ [][Next]_vars

(* Cloud Tasks and the scheduler keep calling /work and /sweep, a running  *)
(* handler keeps stepping until it ends or dies, and so does an API        *)
(* request. Nothing obliges anyone to send, edit, retry or resolve.        *)
Fairness ==
    /\ \A w \in Workers : WF_vars(RunSend(w)) /\ WF_vars(\E j \in Jobs : Claim(w, j))
    /\ WF_vars(\E j \in Jobs : SweepStale(j))
    /\ WF_vars(Reconcile(Sweeper) \/ SweepCommit)
    /\ \A k \in Callers : WF_vars(ClaimSend(k) \/ Operator(k))

FairSpec == Spec /\ Fairness

-----------------------------------------------------------------------------
(* Properties *)

(* A message was accepted since the dispatch the row records. *)
SentSince == send.dispatchedAt # NULL /\ Len(delivered) > send.dispatchedAt

(* A gate that will not let you send twice: beyond the one delivery the    *)
(* confirmation allows, each further one needs an operator's resend.       *)
AtMostOnce == Len(delivered) <= 1 + forced

(* On Gmail draft-then-send is stronger than that: the row's draft id is   *)
(* never replaced and Gmail sends a draft once, so not even a forced       *)
(* resend or a request that arrives late delivers a second copy.           *)
GmailNeverTwice == Channel = "gmail" => Len(delivered) <= 1

(* A draft left behind by a worker that died before recording it is never  *)
(* sent and never deleted: only the id on the row is ever acted upon.      *)
RecordedDraftOnly == gone \subseteq {send.draftId}

(* The distinction crash recovery rests on: a row without dispatched_at    *)
(* has nothing at the provider that an operator did not answer for.        *)
NullMeansUnsent == send.dispatchedAt = NULL => Len(delivered) <= forced

(* A worker is about to call the provider only while it holds an in-flight *)
(* row whose dispatch is recorded and which nothing has answered yet: a    *)
(* send with dispatched_at set is not dispatched again without asking.     *)
AskedBeforeDispatch ==
    \A w \in Workers : loc[w].pc = "send" =>
        send.state = "in_flight" /\ send.dispatchedAt = Len(delivered)

(* failed_transient is earned only by a definitive "the provider has no    *)
(* record": never while a message of this dispatch has arrived.            *)
FailedTransientMeansAbsent == send.state = "failed_transient" => ~SentSince

(* A row that says delivered names a message the provider accepted, or a   *)
(* person attested to it.                                                  *)
EvidenceIsReal ==
    send.state = "delivered" =>
        send.messageId = Attested \/ send.messageId \in 1..Len(delivered)

(* The partition and the lease leave one execution at a time: two workers, *)
(* or a worker and the sweeper, never handle this send together.           *)
OneExecution ==
    \A p, q \in Actors : loc[p].pc # "idle" /\ loc[q].pc # "idle" => p = q

(* A failed, uncertain or delivered send is never moved by a worker or by  *)
(* the sweeper: only an operator's request changes its state.              *)
OnlyOperatorReopens ==
    [][send.state \in SettledStates /\ send'.state # send.state
         => \E k \in Callers : Operator(k)]_vars

(* Retries, reconciliation and recovery terminate: after the last request  *)
(* no job of this send is running or claimable.                            *)
QueueDrains ==
    <>[](\A j \in Jobs :
           ~(\/ jobs[j].state = "running"
             \/ jobs[j].state = "ready" /\ jobs[j].attempts < jobs[j].max))

(* What the row tells of its dispatch. *)
Shown ==
    IF send.dispatchedAt = NULL THEN "none"
    ELSE IF SentSince THEN "answered" ELSE "open"

(* Workers, sweeper and operators, with their retries, probes and crashes, *)
(* amount to no more than AbstractSend allows: a message leaves only for a *)
(* recorded and unanswered dispatch, failure, doubt and delivery are each  *)
(* declared only on its grounds, and only an operator takes one back.      *)
Abstract == INSTANCE AbstractSend
              WITH state <- send.state, dispatch <- Shown,
                   messages <- Len(delivered), resends <- forced

ImplementsGate == Abstract!Gate

(* What the draft on record says. *)
Recorded == IF send.draftId = 0 THEN NoContent ELSE gdrafts[send.draftId]

(* On Gmail they amount to no more than AbstractDraftSend allows, whatever *)
(* arrives late, is resent or misread: one draft is recorded and stays the *)
(* one, and it leaves once, saying what it said when it was made.          *)
AbstractDraft == INSTANCE AbstractDraftSend
                   WITH state <- send.state, recorded <- Recorded,
                        spent <- send.draftId \in gone, messages <- delivered

ImplementsDraftGate == AbstractDraft!Gate

-----------------------------------------------------------------------------
(* What the repository says of the program and the program does not do *)

(* README: nothing leaves without an explicit confirmation over exactly    *)
(* what will be sent.                                                      *)
ConfirmedContentOnly ==
    \A i \in 1..Len(delivered) : delivered[i] = send.confirmed

(* send_draft: a claim with no job would sit in_flight forever with        *)
(* nothing to move it. A job that can still run stands behind every send   *)
(* in flight.                                                              *)
NotStranded ==
    send.state = "in_flight" =>
        \E j \in Jobs : \/ jobs[j].state = "running"
                        \/ jobs[j].state = "ready" /\ jobs[j].attempts < jobs[j].max

(* operator_retry: retrying a delivered send is a no-op.                   *)
DeliveredIsFinal ==
    [][send.state = "delivered" => send'.state = "delivered"]_vars

=============================================================================
