--------------------------- MODULE SafeSendProofs ---------------------------
(***************************************************************************)
(* What SafeSend guarantees for every number of workers, callers, retries, *)
(* operator requests and crashes. Each theorem names the faults it         *)
(* excludes; the ones it does not name may happen at will.                 *)
(***************************************************************************)
EXTENDS SafeSend, TLAPS

(* The sentinels are integers, and none of them is an id. *)
LEMMA Sentinels ==
    /\ NULL \in Int /\ NULL < 0
    /\ Attested \in Int /\ Attested # 0 /\ EmptyId \in Int /\ EmptyId # 0
  BY DEF NULL, Attested, EmptyId

-----------------------------------------------------------------------------
(* What each statement does to the sends row *)

(* claim_send, operator_retry, resolve_send and the budget of probes. *)
LEMMA RequestRows ==
    ASSUME send \in SendRow, NEW digest \in Contents \cup {NoContent}
    PROVE  /\ \A r \in {Claimed(digest), Reopened} :
                /\ r \in SendRow /\ r.state = "in_flight"
                /\ r.dispatchedAt = send.dispatchedAt
                /\ r.draftId = send.draftId /\ r.messageId = send.messageId
           /\ Resent \in SendRow /\ Resent.state = "in_flight"
           /\ Resent.dispatchedAt = NULL /\ Resent.draftId = send.draftId
           /\ Resent.messageId = send.messageId
           /\ Bumped \in SendRow /\ Bumped.state = send.state
           /\ Bumped.dispatchedAt = send.dispatchedAt
           /\ Bumped.draftId = send.draftId /\ Bumped.messageId = send.messageId
<1>1. \A r \in {Claimed(digest)} :
                /\ r \in SendRow /\ r.state = "in_flight"
                /\ r.dispatchedAt = send.dispatchedAt
                /\ r.draftId = send.draftId /\ r.messageId = send.messageId
  BY DEF Claimed, SendRow
<1>2. \A r \in {Reopened} :
                /\ r \in SendRow /\ r.state = "in_flight"
                /\ r.dispatchedAt = send.dispatchedAt
                /\ r.draftId = send.draftId /\ r.messageId = send.messageId
  <2>1. /\ Reopened \in SendRow /\ Reopened.state = "in_flight"
        /\ Reopened.dispatchedAt = send.dispatchedAt
        /\ Reopened.draftId = send.draftId /\ Reopened.messageId = send.messageId
    BY DEF Reopened, SendRow
  <2> QED BY <2>1
<1>3. /\ Resent \in SendRow /\ Resent.state = "in_flight"
      /\ Resent.dispatchedAt = NULL /\ Resent.draftId = send.draftId
      /\ Resent.messageId = send.messageId
  BY Sentinels DEF Resent, SendRow
<1>4. /\ Bumped \in SendRow /\ Bumped.state = send.state
      /\ Bumped.dispatchedAt = send.dispatchedAt
      /\ Bumped.draftId = send.draftId /\ Bumped.messageId = send.messageId
  <2> DEFINE n == send.reconciles + 1
  <2>1. n \in Nat /\ Bumped = [send EXCEPT !.reconciles = n]
    BY DEF SendRow, Bumped
  <2> HIDE DEF n
  <2> QED BY <2>1 DEF SendRow
<1> QED BY <1>1, <1>2, <1>3, <1>4

(* marked_delivered settles an uncertain row and keeps a known message id. *)
LEMMA AttestedRowFacts ==
    ASSUME send \in SendRow
    PROVE  /\ send.state # "uncertain" => AttestedRow = send
           /\ send.state = "uncertain" =>
                /\ AttestedRow \in SendRow /\ AttestedRow.state = "delivered"
                /\ AttestedRow.dispatchedAt = send.dispatchedAt
                /\ AttestedRow.draftId = send.draftId
                /\ AttestedRow.messageId # 0
                /\ AttestedRow.messageId \in {send.messageId, Attested}
<1> DEFINE m == IF send.messageId = 0 THEN Attested ELSE send.messageId
<1>1. m \in Int /\ m # 0 /\ m \in {send.messageId, Attested}
  BY Sentinels DEF SendRow
<1>2. CASE send.state = "uncertain"
  <2>1. AttestedRow = [send EXCEPT !.state = "delivered", !.messageId = m]
    BY <1>2 DEF AttestedRow
  <2> HIDE DEF m
  <2> QED BY <1>1, <1>2, <2>1 DEF SendRow, SettledStates
<1> QED BY <1>2 DEF AttestedRow

(* _commit_dispatch_attempt fills in what is missing, while in flight. *)
LEMMA DispatchedFacts ==
    ASSUME send \in SendRow, NEW did \in Nat, Len(delivered) \in Nat
    PROVE  /\ Dispatched(did) \in SendRow
           /\ Dispatched(did).state = send.state
           /\ Dispatched(did).messageId = send.messageId
           /\ send.state # "in_flight" => Dispatched(did) = send
           /\ send.dispatchedAt # NULL =>
                Dispatched(did).dispatchedAt = send.dispatchedAt
           /\ send.state = "in_flight" /\ send.dispatchedAt = NULL =>
                Dispatched(did).dispatchedAt = Len(delivered)
           /\ send.draftId # 0 => Dispatched(did).draftId = send.draftId
           /\ send.state = "in_flight" /\ send.draftId = 0 =>
                Dispatched(did).draftId = did
<1> DEFINE d == IF send.dispatchedAt = NULL THEN Len(delivered) ELSE send.dispatchedAt
           i == IF send.draftId = 0 THEN did ELSE send.draftId
<1>1. d \in Int /\ i \in Nat
  BY DEF SendRow
<1>2. CASE send.state = "in_flight"
  <2>1. Dispatched(did) = [send EXCEPT !.dispatchedAt = d, !.draftId = i]
    BY <1>2 DEF Dispatched
  <2>2. /\ send.dispatchedAt # NULL => d = send.dispatchedAt
        /\ send.dispatchedAt = NULL => d = Len(delivered)
        /\ send.draftId # 0 => i = send.draftId
        /\ send.draftId = 0 => i = did
    OBVIOUS
  <2> HIDE DEF d, i
  <2>3. /\ Dispatched(did) \in SendRow
        /\ Dispatched(did).state = send.state /\ Dispatched(did).messageId = send.messageId
        /\ Dispatched(did).dispatchedAt = d /\ Dispatched(did).draftId = i
    BY <1>1, <2>1 DEF SendRow
  <2> QED BY <1>2, <2>2, <2>3
<1>3. CASE send.state # "in_flight"
  BY <1>3 DEF Dispatched
<1> QED BY <1>2, <1>3

(* _mark_delivered writes an in-flight row only. *)
LEMMA DeliveredFacts ==
    ASSUME send \in SendRow, NEW mid \in Int, NEW did \in Nat
    PROVE  /\ Delivered(mid, did) \in SendRow
           /\ Delivered(mid, did).dispatchedAt = send.dispatchedAt
           /\ Delivered(mid, did).draftId \in {send.draftId, did}
           /\ did = 0 => Delivered(mid, did).draftId = send.draftId
           /\ send.state # "in_flight" => Delivered(mid, did) = send
           /\ send.state = "in_flight" => /\ Delivered(mid, did).state = "delivered"
                                          /\ Delivered(mid, did).messageId = mid
<1> DEFINE i == IF did = 0 THEN send.draftId ELSE did
<1>1. i \in Nat /\ i \in {send.draftId, did} /\ (did = 0 => i = send.draftId)
  BY DEF SendRow
<1>2. CASE send.state = "in_flight"
  <2>1. Delivered(mid, did) = [send EXCEPT !.state = "delivered", !.messageId = mid,
                                           !.draftId = i]
    BY <1>2 DEF Delivered
  <2> HIDE DEF i
  <2> QED BY <1>1, <1>2, <2>1 DEF SendRow, SettledStates
<1>3. CASE send.state # "in_flight"
  BY <1>3 DEF Delivered
<1> QED BY <1>2, <1>3

(* _set_terminal and _mark_uncertain change nothing but the state. *)
LEMMA FailedRows ==
    ASSUME send \in SendRow, NEW state \in SettledStates
    PROVE  /\ \A r \in {Fails(state), Doubted} :
                /\ r \in SendRow /\ r.dispatchedAt = send.dispatchedAt
                /\ r.draftId = send.draftId /\ r.messageId = send.messageId
                /\ send.state # "in_flight" => r = send
           /\ send.state = "in_flight" => Fails(state).state = state
           /\ send.state = "in_flight" /\ send.dispatchedAt # NULL
                => Doubted.state = "uncertain"
           /\ send.dispatchedAt = NULL => Doubted = send
<1>1. /\ \A r \in {Fails(state)} :
           /\ r \in SendRow /\ r.dispatchedAt = send.dispatchedAt
           /\ r.draftId = send.draftId /\ r.messageId = send.messageId
           /\ send.state # "in_flight" => r = send
      /\ send.state = "in_flight" => Fails(state).state = state
  BY DEF Fails, SendRow
<1>2. CASE send.state = "in_flight" /\ send.dispatchedAt # NULL
  <2>1. Doubted = [send EXCEPT !.state = "uncertain"]
    BY <1>2 DEF Doubted
  <2> QED BY <1>1, <1>2, <2>1 DEF SendRow, SettledStates
<1>3. CASE ~(send.state = "in_flight" /\ send.dispatchedAt # NULL)
  <2>1. Doubted = send
    BY <1>3 DEF Doubted
  <2> QED BY <1>1, <1>3, <2>1
<1> QED BY <1>2, <1>3

-----------------------------------------------------------------------------
(* Type correctness *)

(* Of n Gmail drafts, did is one; and a request about to leave, or still   *)
(* on the wire, says what it sends.                                        *)
Sendable(did, content, n) ==
    /\ did <= n
    /\ IF Channel = "gmail" THEN did >= 1 ELSE content \in Contents

LocalRefs(l, n) ==
    /\ l.did <= n
    /\ l.pc \in {"commit", "send"} => Sendable(l.did, l.content, n)
    /\ l.pc \in {"record", "rec_adopt"} => l.mid # 0

Locals ==
    /\ loc \in [Actors -> Local]
    /\ \A p \in Actors : LocalRefs(loc[p], Len(gdrafts))

SendOK ==
    /\ send \in SendRow
    /\ send.state = "uncertain" => send.dispatchedAt # NULL
    /\ send.state = "delivered" => send.messageId # 0
    /\ send.draftId <= Len(gdrafts)

JobsOK ==
    /\ jobs \in [Jobs -> JobRow]
    /\ \A j \in Jobs : jobs[j].attempts <= jobs[j].max
    /\ njobs \in Nat

ProviderOK ==
    /\ gdrafts \in Seq(Contents) /\ delivered \in Seq(Contents)
    /\ gone \subseteq Nat
    /\ wire \subseteq Request
    /\ \A r \in wire : Sendable(r.did, r.content, Len(gdrafts))

OthersOK ==
    /\ draft \in Contents /\ call \in [Callers -> Call]
    /\ forced \in Nat /\ requests \in Nat /\ crashes \in Nat

(* The types, and that ids refer to Gmail drafts that exist. *)
TypeInv == Locals /\ SendOK /\ JobsOK /\ ProviderOK /\ OthersOK

LEMMA TypeInvTypeOK == TypeInv => TypeOK
  BY DEF TypeInv, TypeOK, Locals, SendOK, JobsOK, ProviderOK, OthersOK

(* Where reconciliation leads is a program counter that sends nothing yet. *)
LEMMA AfterPc ==
    ASSUME NEW ctx, NEW verdict
    PROVE  After(ctx, verdict) \in {"build", "raise_transient", "finish",
                    "fail_transient", "rec_doubt", "resolve", "requeue"}
  BY DEF After

LEMMA JudgePc ==
    ASSUME NEW l \in Local, NEW a, a[1] \in {"found", "absent", "inconclusive"}
    PROVE  /\ Judge(l, a) \in {"rec_adopt", "build", "raise_transient", "finish",
                    "fail_transient", "rec_doubt", "resolve", "requeue"}
           /\ Judge(l, a) = "rec_adopt" => a[2] # 0
<1>1. CASE a[1] = "found"
  BY <1>1 DEF Judge
<1>2. CASE a[1] = "absent"
  <2>1. Judge(l, a) = After(l.ctx, "not_sent")
    BY <1>2 DEF Judge
  <2> QED BY <2>1, AfterPc
<1>3. CASE a[1] = "inconclusive"
  <2>1. Judge(l, a) = "rec_doubt" \/ Judge(l, a) = After(l.ctx, "retry_later")
    BY <1>3 DEF Judge
  <2> QED BY <2>1, AfterPc
<1> QED BY <1>1, <1>2, <1>3

(* What an answer names: no message, or the newest one accepted. *)
LEMMA AnswerType ==
    ASSUME NEW l, delivered \in Seq(Contents), NEW a \in ProbeAnswers(l)
    PROVE  /\ a[1] \in {"found", "absent", "inconclusive"}
           /\ a[2] \in Nat
           /\ a[2] # 0 => a[2] = Len(delivered)
  BY DEF ProbeAnswers

(* A failed call leaves a well-formed execution that sends nothing. *)
LEMMA FailureLocal ==
    ASSUME NEW l \in Local, NEW class
    PROVE  /\ FinalizeFailure(l, class) \in Local
           /\ FinalizeFailure(l, class).did = l.did
           /\ FinalizeFailure(l, class).job = l.job
           /\ FinalizeFailure(l, class).pc \in
                 {"fail_permanent", "rec_load", "raise_transient"}
  BY DEF FinalizeFailure, Local, Pcs, HandlerPcs

LEMMA IdleLocal == Idle \in Local /\ \A n \in Nat : LocalRefs(Idle, n)
  BY DEF Idle, Local, Pcs, HandlerPcs, NULL, LocalRefs

(* One execution takes on a well-formed local state; drafts only add up. *)
LEMMA LocalStep ==
    ASSUME NEW f \in [Actors -> Local], NEW g, NEW p \in Actors, NEW l \in Local,
           g = [f EXCEPT ![p] = l],
           NEW m \in Nat, NEW n \in Nat, m <= n,
           \A q \in Actors : LocalRefs(f[q], m),
           LocalRefs(l, n)
    PROVE  g \in [Actors -> Local] /\ \A q \in Actors : LocalRefs(g[q], n)
<1>1. ASSUME NEW q \in Actors, q # p PROVE LocalRefs(g[q], n)
  <2>1. f[q] \in Local /\ g[q] = f[q] /\ LocalRefs(f[q], m)
    BY <1>1
  <2> QED BY <2>1 DEF LocalRefs, Sendable, Local
<1>2. g[p] = l
  OBVIOUS
<1> QED BY <1>1, <1>2

(* The same as a step of the specification. *)
LEMMA BecomeLocals ==
    ASSUME TypeInv, gdrafts' \in Seq(Contents), Len(gdrafts) <= Len(gdrafts'),
           NEW p \in Actors, NEW STATE l, l \in Local, Become(p, l),
           LocalRefs(l, Len(gdrafts'))
    PROVE  Locals'
<1>1. /\ loc \in [Actors -> Local] /\ loc' = [loc EXCEPT ![p] = l]
      /\ \A q \in Actors : LocalRefs(loc[q], Len(gdrafts))
      /\ Len(gdrafts) \in Nat /\ Len(gdrafts') \in Nat
  BY DEF TypeInv, Locals, ProviderOK, Become
<1>2. loc' \in [Actors -> Local] /\ \A q \in Actors : LocalRefs(loc'[q], Len(gdrafts'))
  BY <1>1, LocalStep
<1> QED BY <1>2 DEF Locals, LocalRefs, Sendable

LEMMA GotoLocals ==
    ASSUME TypeInv, UNCHANGED gdrafts, NEW p \in Actors, NEW STATE pc,
           pc \in Pcs \ {"commit", "send", "record", "rec_adopt"}, Goto(p, pc)
    PROVE  Locals'
<1> DEFINE l == [loc[p] EXCEPT !.pc = pc]
<1>1. loc[p] \in Local /\ LocalRefs(loc[p], Len(gdrafts))
  BY DEF TypeInv, Locals
<1>2. l \in Local /\ LocalRefs(l, Len(gdrafts))
  BY <1>1 DEF Local, LocalRefs
<1>3. Become(p, l) /\ gdrafts' \in Seq(Contents) /\ Len(gdrafts) <= Len(gdrafts')
  BY DEF Goto, TypeInv, ProviderOK
<1> QED BY <1>2, <1>3, BecomeLocals

LEMMA TypeInit == Init => TypeInv
<1> SUFFICES ASSUME Init PROVE TypeInv
  OBVIOUS
<1>1. NoJob \in JobRow /\ NoJob.attempts <= NoJob.max
  BY ConstantsAssumption DEF NoJob, JobRow, Identities, Nobody
<1>2. NoCall \in Call
  BY DEF NoCall, Call
<1>3. Len(gdrafts) = 0 /\ gdrafts \in Seq(Contents) /\ delivered \in Seq(Contents)
  BY DEF Init
<1>4. Locals
  BY <1>3, IdleLocal DEF Init, Locals
<1>5. SendOK
  BY <1>3 DEF Init, SendOK, SendRow, SettledStates, NULL
<1>6. JobsOK
  BY <1>1 DEF Init, JobsOK
<1>7. ProviderOK /\ OthersOK
  BY <1>2, <1>3 DEF Init, ProviderOK, OthersOK
<1> QED BY <1>4, <1>5, <1>6, <1>7 DEF TypeInv

(* Every step keeps the types: first the steps that leave the executions   *)
(* alone, then the steps of one execution.                                 *)
LEMMA TypeNext == TypeInv /\ [Next]_vars => TypeInv'
<1> SUFFICES ASSUME TypeInv, [Next]_vars PROVE TypeInv'
  OBVIOUS
<1>0. /\ Locals /\ SendOK /\ JobsOK /\ ProviderOK /\ OthersOK
      /\ \A p \in Actors : loc[p] \in Local /\ LocalRefs(loc[p], Len(gdrafts))
      /\ Workers \subseteq Actors /\ Sweeper \in Actors
      /\ Len(gdrafts) \in Nat /\ Len(delivered) \in Nat
      /\ send \in SendRow /\ NoCall \in Call
  BY DEF TypeInv, Locals, SendOK, ProviderOK, Actors, NoCall, Call
<1>a. ASSUME UNCHANGED <<loc, gdrafts>> PROVE Locals'
  BY <1>0, <1>a DEF Locals, LocalRefs, Sendable
<1>b. ASSUME UNCHANGED <<send, gdrafts>> PROVE SendOK'
  BY <1>0, <1>b DEF SendOK
<1>c. ASSUME UNCHANGED <<jobs, njobs>> PROVE JobsOK'
  BY <1>0, <1>c DEF JobsOK
<1>d. ASSUME UNCHANGED provider PROVE ProviderOK'
  BY <1>0, <1>d DEF ProviderOK, provider, Sendable
<1>e. ASSUME Enqueue PROVE JobsOK'
  <2> DEFINE row == [NoJob EXCEPT !.state = "ready"]
  <2>1. row \in JobRow /\ row.attempts <= row.max
    <3>1. row = [state |-> "ready", attempts |-> 0, max |-> MaxAttempts, by |-> Nobody]
      BY DEF NoJob
    <3> QED BY <3>1, ConstantsAssumption DEF JobRow, Identities
  <2>2. jobs' = [jobs EXCEPT ![njobs + 1] = row] /\ njobs' = njobs + 1
    BY <1>e DEF Enqueue
  <2> HIDE DEF row
  <2>3. ASSUME NEW j \in Jobs PROVE jobs'[j] = jobs[j] \/ jobs'[j] = row
    BY <1>0, <2>2 DEF JobsOK
  <2>4. jobs' \in [Jobs -> JobRow]
    BY <1>0, <2>1, <2>2 DEF JobsOK
  <2> QED BY <1>0, <2>1, <2>2, <2>3, <2>4 DEF JobsOK
<1>f. ASSUME Resume(njobs) PROVE JobsOK'
  <2>1. CASE njobs \in Jobs
    <3> DEFINE row == [jobs[njobs] EXCEPT !.state = "ready", !.max = MoreAttempts(njobs)]
    <3>1. jobs[njobs] \in JobRow
      BY <1>0, <2>1 DEF JobsOK
    <3>2. MoreAttempts(njobs) \in Nat /\ jobs[njobs].attempts <= MoreAttempts(njobs)
      BY <3>1 DEF JobRow, MoreAttempts
    <3>3. jobs' = [jobs EXCEPT ![njobs] = row] /\ njobs' = njobs
      BY <1>f DEF Resume
    <3>4. row \in JobRow /\ row.attempts <= row.max
      BY <3>1, <3>2 DEF JobRow
    <3> HIDE DEF row
    <3> QED BY <1>0, <3>3, <3>4 DEF JobsOK
  <2>2. CASE njobs \notin Jobs
    BY <1>0, <1>f, <2>2 DEF JobsOK, Resume
  <2> QED BY <2>1, <2>2
<1>g. ASSUME NEW p \in Actors, NEW STATE l, Become(p, l), l \in Local,
             LocalRefs(l, Len(gdrafts)), UNCHANGED gdrafts
      PROVE  Locals'
  BY <1>0, <1>g, BecomeLocals DEF ProviderOK
<1>h. ASSUME NEW did \in Nat, NEW content \in Contents \cup {NoContent},
             Sendable(did, content, Len(gdrafts)), Accept(did, content)
      PROVE  delivered' \in Seq(Contents) /\ gone' \subseteq Nat
  <2>1. CASE Channel = "gmail"
    <3> DEFINE c == gdrafts[did]
    <3>1. c \in Contents
      BY <1>0, <1>h, <2>1 DEF Sendable, ProviderOK
    <3>2. delivered' = Append(delivered, c) /\ gone' = gone \cup {did}
      BY <1>h, <2>1 DEF Accept
    <3> HIDE DEF c
    <3> QED BY <1>0, <3>1, <3>2 DEF ProviderOK
  <2>2. CASE Channel # "gmail"
    <3>1. content \in Contents /\ delivered' = Append(delivered, content) /\ gone' = gone
      BY <1>h, <2>2 DEF Sendable, Accept
    <3> QED BY <1>0, <3>1 DEF ProviderOK
  <2> QED BY <2>1, <2>2
(* API requests and the provider *)
<1>1. ASSUME NEW c \in Contents, UpdateDraft(c) PROVE TypeInv'
  BY <1>0, <1>1, <1>a, <1>b, <1>c, <1>d DEF UpdateDraft, TypeInv, OthersOK, provider, bounds
<1>2. ASSUME NEW k \in Callers, SendDraft(k) PROVE TypeInv'
  BY <1>0, <1>2, <1>a, <1>b, <1>c, <1>d
     DEF SendDraft, TypeInv, OthersOK, provider, bounds, Call
<1>3. ASSUME NEW k \in Callers, ClaimSend(k) PROVE TypeInv'
  <2>1. call[k].digest \in Contents \cup {NoContent}
    BY <1>0 DEF OthersOK, Call
  <2>2. SendOK' /\ OthersOK'
    BY <1>0, <1>3, <2>1, RequestRows DEF ClaimSend, SendOK, OthersOK, provider, bounds
  <2> QED BY <1>3, <1>a, <1>c, <1>d, <1>e, <2>2 DEF ClaimSend, TypeInv, provider
<1>4. ASSUME NEW k \in Callers, NEW op \in {"retry", "marked_delivered", "forced_resend"},
             NEW states, OperatorLoads(k, op, states)
      PROVE  TypeInv'
  BY <1>0, <1>4, <1>a, <1>b, <1>c, <1>d
     DEF OperatorLoads, TypeInv, OthersOK, provider, Call
<1>5. ASSUME NEW k \in Callers, OperatorRetry(k) PROVE TypeInv'
  <2>1. SendOK' /\ OthersOK'
    BY <1>0, <1>5, RequestRows DEF OperatorRetry, SendOK, OthersOK, provider, bounds
  <2> QED BY <1>5, <1>a, <1>c, <1>d, <1>f, <2>1 DEF OperatorRetry, TypeInv, provider
<1>6. ASSUME NEW k \in Callers, MarkDelivered(k) PROVE TypeInv'
  <2>1. SendOK' /\ OthersOK'
    BY <1>0, <1>6, AttestedRowFacts DEF MarkDelivered, SendOK, OthersOK, provider, bounds
  <2> QED BY <1>6, <1>a, <1>c, <1>d, <2>1 DEF MarkDelivered, TypeInv, provider
<1>7. ASSUME NEW k \in Callers, ForcedResend(k) PROVE TypeInv'
  <2>1. SendOK' /\ OthersOK'
    BY <1>0, <1>7, RequestRows DEF ForcedResend, SendOK, OthersOK, provider
  <2> QED BY <1>7, <1>a, <1>d, <1>e, <1>f, <2>1 DEF ForcedResend, TypeInv, provider
<1>8. ASSUME NEW r \in wire, LateAccept(r) PROVE TypeInv'
  <2>1. /\ r.did \in Nat /\ r.content \in Contents \cup {NoContent}
        /\ Sendable(r.did, r.content, Len(gdrafts))
    BY <1>0 DEF ProviderOK, Request
  <2>2. delivered' \in Seq(Contents) /\ gone' \subseteq Nat
    BY <1>0, <1>8, <1>h, <2>1 DEF LateAccept, ProviderOK
  <2>3. ProviderOK'
    BY <1>0, <1>8, <2>2 DEF LateAccept, ProviderOK, Sendable
  <2> QED BY <1>0, <1>8, <1>a, <1>b, <1>c, <2>3
          DEF LateAccept, TypeInv, OthersOK, bounds
(* The worker *)
<1>9. ASSUME NEW w \in Workers, NEW j \in Jobs, Claim(w, j) PROVE TypeInv'
  <2> DEFINE last == jobs[j].attempts + 1 >= jobs[j].max
             l == [Idle EXCEPT !.pc = "load", !.job = j, !.last = last]
  <2>1. l \in Local /\ LocalRefs(l, Len(gdrafts))
    <3>1. j \in Nat /\ last \in BOOLEAN
      BY ConstantsAssumption DEF Jobs
    <3> HIDE DEF last
    <3>2. l \in Local /\ l.did = 0 /\ l.pc = "load"
      BY <3>1, IdleLocal DEF Idle, Local, Pcs, HandlerPcs
    <3> QED BY <1>0, <3>2 DEF LocalRefs
  <2>2. Locals'
    BY <1>0, <1>9, <1>g, <2>1 DEF Claim, provider
  <2>3. JobsOK'
    BY <1>0, <1>9 DEF Claim, Claimable, JobsOK, JobRow, Identity, Identities
  <2> QED BY <1>0, <1>9, <1>b, <1>d, <2>2, <2>3 DEF Claim, TypeInv, OthersOK, provider, bounds
<1>10. ASSUME NEW w \in Workers, LoadSend(w) PROVE TypeInv'
  <2> DEFINE l == [loc[w] EXCEPT !.did = send.draftId, !.pc = FirstStep]
  <2>1. FirstStep \in {"finish", "rec_load", "build"}
    BY DEF FirstStep
  <2>2. l \in Local /\ LocalRefs(l, Len(gdrafts))
    <3>1. loc[w] \in Local /\ FirstStep \in Pcs /\ send.draftId \in Nat
      BY <1>0, <2>1 DEF SendRow, Pcs, HandlerPcs
    <3>2. l \in Local /\ l.did = send.draftId /\ l.pc = FirstStep
      BY <3>1 DEF Local
    <3> QED BY <1>0, <2>1, <3>2 DEF LocalRefs, SendOK
  <2>3. Locals'
    BY <1>0, <1>10, <1>g, <2>2 DEF LoadSend, provider
  <2> QED BY <1>0, <1>10, <1>b, <1>c, <1>d, <2>3
          DEF LoadSend, TypeInv, OthersOK, provider, bounds
<1>11. ASSUME NEW w \in Workers, Build(w) PROVE TypeInv'
  <2> DEFINE l == loc[w]
  <2>0. l \in Local /\ l.did \in Nat /\ l.did <= Len(gdrafts) /\ draft \in Contents
    BY <1>0 DEF Local, LocalRefs, OthersOK
  <2>1. ASSUME NEW class, Become(w, FinalizeFailure(l, class)), gdrafts' \in Seq(Contents),
               Len(gdrafts) <= Len(gdrafts')
        PROVE  Locals'
    <3>1. FinalizeFailure(l, class) \in Local
      BY <2>0, FailureLocal
    <3>2. LocalRefs(FinalizeFailure(l, class), Len(gdrafts'))
      BY <2>0, <2>1, FailureLocal DEF LocalRefs
    <3> QED BY <1>0, <2>1, <3>1, <3>2, BecomeLocals
  <2>2. CASE UNCHANGED gdrafts
    <3>1. gdrafts' \in Seq(Contents) /\ Len(gdrafts) <= Len(gdrafts')
      BY <1>0, <2>2 DEF ProviderOK
    <3>2. ASSUME ~NeedsDraft(l), Become(w, [l EXCEPT !.pc = "commit", !.content =
                                     IF Channel = "slack" THEN draft ELSE NoContent])
          PROVE  Locals'
      <4> DEFINE c == IF Channel = "slack" THEN draft ELSE NoContent
                 m == [l EXCEPT !.pc = "commit", !.content = c]
      <4>1. m \in Local /\ LocalRefs(m, Len(gdrafts))
        <5>1. c \in Contents \cup {NoContent} /\ (Channel = "slack" => c \in Contents)
          BY <2>0
        <5> HIDE DEF c
        <5>2. m \in Local /\ m.did = l.did /\ m.pc = "commit" /\ m.content = c
          BY <2>0, <5>1 DEF Local, Pcs, HandlerPcs
        <5> HIDE DEF m
        <5> QED BY <2>0, <3>2, <5>1, <5>2, ConstantsAssumption
                DEF LocalRefs, Sendable, NeedsDraft
      <4> QED BY <1>0, <1>g, <2>2, <3>2, <4>1
    <3>3. Locals'
      BY <1>11, <2>1, <2>2, <3>1, <3>2 DEF Build, ProviderOK
    <3> QED BY <1>0, <1>11, <1>b, <1>c, <1>d, <2>2, <3>3
            DEF Build, TypeInv, OthersOK, bounds, provider
  <2>3. CASE gdrafts' = Append(gdrafts, draft)
    <3>1. gdrafts' \in Seq(Contents) /\ Len(gdrafts') = Len(gdrafts) + 1
      BY <1>0, <2>0, <2>3 DEF ProviderOK
    <3>2. ASSUME NeedsDraft(l), Become(w, [l EXCEPT !.pc = "commit",
                                                  !.did = Len(gdrafts) + 1])
          PROVE  Locals'
      <4> DEFINE i == Len(gdrafts) + 1
                 m == [l EXCEPT !.pc = "commit", !.did = i]
      <4>1. m \in Local /\ LocalRefs(m, Len(gdrafts'))
        <5>1. i \in Nat /\ i = Len(gdrafts') /\ i >= 1
          BY <1>0, <3>1
        <5> HIDE DEF i
        <5>2. m \in Local /\ m.did = i /\ m.pc = "commit"
          BY <2>0, <5>1 DEF Local, Pcs, HandlerPcs
        <5> HIDE DEF m
        <5> QED BY <3>2, <5>1, <5>2 DEF LocalRefs, Sendable, NeedsDraft
      <4> QED BY <1>0, <3>1, <3>2, <4>1, BecomeLocals
    <3>3. gdrafts' # gdrafts
      BY <1>0, <3>1
    <3>4. Locals'
      BY <1>0, <1>11, <2>1, <3>1, <3>2, <3>3 DEF Build
    <3>5. SendOK' /\ ProviderOK'
      BY <1>0, <1>11, <3>1 DEF Build, SendOK, SendRow, ProviderOK, Sendable, Request
    <3> QED BY <1>0, <1>11, <1>c, <3>4, <3>5 DEF Build, TypeInv, OthersOK, bounds
  <2> QED BY <1>11, <2>2, <2>3 DEF Build
<1>12. ASSUME NEW w \in Workers, CommitDispatchAttempt(w) PROVE TypeInv'
  <2> DEFINE l == [loc[w] EXCEPT !.pc = "send"]
  <2>1. l \in Local /\ LocalRefs(l, Len(gdrafts)) /\ loc[w].did \in Nat
    BY <1>0, <1>12 DEF CommitDispatchAttempt, Local, Pcs, HandlerPcs, LocalRefs
  <2>2. Locals'
    BY <1>0, <1>12, <1>g, <2>1 DEF CommitDispatchAttempt, Goto, provider
  <2>3. loc[w].did <= Len(gdrafts) /\ send' = Dispatched(loc[w].did) /\ gdrafts' = gdrafts
    BY <1>0, <1>12 DEF CommitDispatchAttempt, LocalRefs, provider
  <2>4. SendOK'
    <3>1. /\ send' \in SendRow /\ send'.state = send.state
          /\ send'.messageId = send.messageId
          /\ send'.dispatchedAt = NULL => send.dispatchedAt = NULL
          /\ send'.draftId = send.draftId \/ send'.draftId = loc[w].did
      BY <1>0, <2>1, <2>3, DispatchedFacts
    <3> QED BY <1>0, <2>3, <3>1 DEF SendOK
  <2> QED BY <1>0, <1>12, <1>c, <1>d, <2>2, <2>4
          DEF CommitDispatchAttempt, TypeInv, OthersOK, provider, bounds
<1>13. ASSUME NEW w \in Workers, ProviderSend(w) PROVE TypeInv'
  <2> DEFINE l == loc[w]
  <2>0. /\ l \in Local /\ l.did \in Nat /\ l.content \in Contents \cup {NoContent}
        /\ l.did <= Len(gdrafts) /\ Sendable(l.did, l.content, Len(gdrafts))
        /\ gdrafts' = gdrafts
    BY <1>0, <1>13 DEF ProviderSend, Local, LocalRefs
  <2>1. ASSUME NEW class, Become(w, FinalizeFailure(l, class)) PROVE Locals'
    <3>1. FinalizeFailure(l, class) \in Local
      BY <2>0, FailureLocal
    <3>2. LocalRefs(FinalizeFailure(l, class), Len(gdrafts))
      BY <2>0, FailureLocal DEF LocalRefs
    <3> QED BY <1>0, <1>g, <2>0, <2>1, <3>1, <3>2
  <2>2. ASSUME NEW STATE mid, mid \in Int, mid # 0,
               Become(w, [l EXCEPT !.pc = "record", !.content = NoContent, !.mid = mid])
        PROVE  Locals'
    <3> DEFINE m == [l EXCEPT !.pc = "record", !.content = NoContent, !.mid = mid]
    <3>1. m \in Local /\ m.did = l.did /\ m.pc = "record" /\ m.mid = mid
      BY <2>0, <2>2 DEF Local, Pcs, HandlerPcs
    <3>2. LocalRefs(m, Len(gdrafts))
      BY <2>0, <2>2, <3>1 DEF LocalRefs
    <3> QED BY <1>0, <1>g, <2>0, <2>2, <3>1, <3>2
  <2>3. Locals'
    <3>1. CASE SendAccepted(w)
      <4> DEFINE mid == Len(delivered) + 1
      <4>1. mid \in Int /\ mid # 0
        BY <1>0
      <4>2. Become(w, [l EXCEPT !.pc = "record", !.content = NoContent, !.mid = mid])
        BY <3>1 DEF SendAccepted
      <4> HIDE DEF mid, l
      <4> QED BY <2>2, <4>1, <4>2
    <3>2. CASE SendAnswerLost(w) \/ SendRefused(w) \/ SendDelayed(w)
      BY <2>1, <3>2 DEF SendAnswerLost, SendRefused, SendDelayed
    <3>3. CASE SendGarbled(w)
      BY <2>1, <2>2, <3>3, Sentinels DEF SendGarbled, Unreadable
    <3> QED BY <1>13, <3>1, <3>2, <3>3 DEF ProviderSend
  <2>4. delivered' \in Seq(Contents) /\ gone' \subseteq Nat
    BY <1>0, <1>13, <1>h, <2>0
       DEF ProviderSend, SendAccepted, SendAnswerLost, SendGarbled, SendRefused,
           SendDelayed, ProviderOK
  <2>5. wire' = wire \/ wire' = wire \cup {[did |-> l.did, content |-> l.content]}
    BY <1>13 DEF ProviderSend, SendAccepted, SendAnswerLost, SendGarbled, SendRefused,
                 SendDelayed
  <2>6. ProviderOK'
    BY <1>0, <2>0, <2>4, <2>5 DEF ProviderOK, Request, Sendable
  <2> QED BY <1>0, <1>13, <1>b, <1>c, <2>3, <2>6 DEF ProviderSend, TypeInv, OthersOK, bounds
<1>i. ASSUME NEW p \in Actors, NEW STATE pc, pc \in Pcs \ {"commit", "send", "record", "rec_adopt"},
             Goto(p, pc), UNCHANGED gdrafts
      PROVE  Locals'
  BY <1>i, GotoLocals
<1>14. ASSUME NEW w \in Workers, RecordDelivery(w) PROVE TypeInv'
  <2>1. loc[w].mid \in Int /\ loc[w].mid # 0 /\ loc[w].did \in Nat
        /\ loc[w].did <= Len(gdrafts)
    BY <1>0, <1>14 DEF RecordDelivery, Local, LocalRefs
  <2>2. SendOK'
    BY <1>0, <1>14, <2>1, DeliveredFacts DEF RecordDelivery, SendOK, provider
  <2>3. Locals'
    BY <1>0, <1>14, <1>i DEF RecordDelivery, Pcs, HandlerPcs, provider
  <2> QED BY <1>0, <1>14, <1>c, <1>d, <2>2, <2>3
          DEF RecordDelivery, TypeInv, OthersOK, provider, bounds
<1>15. ASSUME NEW w \in Workers, RecordSuccess(w) PROVE TypeInv'
  <2>1. Locals'
    BY <1>0, <1>15, <1>i DEF RecordSuccess, Pcs, provider
  <2> QED BY <1>0, <1>15, <1>b, <1>c, <1>d, <2>1
          DEF RecordSuccess, TypeInv, OthersOK, provider, bounds
<1>16. ASSUME NEW w \in Workers, SetTerminal(w) PROVE TypeInv'
  <2>1. PICK state \in FailedStates : send' = Fails(state)
    BY <1>16 DEF SetTerminal, FailedStates
  <2>2. SendOK'
    <3>1. state \in SettledStates /\ state # "uncertain" /\ state # "delivered"
      BY <2>1 DEF FailedStates, SettledStates
    <3> QED BY <1>0, <1>16, <2>1, <3>1, FailedRows DEF SetTerminal, SendOK, provider
  <2>3. PICK pc \in {"raise_transient", "raise_permanent", "discard"} : Goto(w, pc)
    BY <1>16 DEF SetTerminal
  <2>4. Locals'
    BY <1>0, <1>16, <1>i, <2>3 DEF SetTerminal, Pcs, HandlerPcs, provider
  <2> QED BY <1>0, <1>16, <1>c, <1>d, <2>2, <2>4
          DEF SetTerminal, TypeInv, OthersOK, provider, bounds
<1>17. ASSUME NEW w \in Workers, Discard(w) PROVE TypeInv'
  <2>1. Locals'
    BY <1>0, <1>17, <1>i DEF Discard, Pcs
  <2>2. ProviderOK'
    BY <1>0, <1>17 DEF Discard, ProviderOK, Sendable, Local
  <2> QED BY <1>0, <1>17, <1>b, <1>c, <2>1, <2>2 DEF Discard, TypeInv, OthersOK, bounds
(* Reconciliation *)
<1>18. ASSUME NEW p \in Actors, ReconcileLoad(p) PROVE TypeInv'
  <2> DEFINE pc == IF send.state # "in_flight" THEN After(loc[p].ctx, "settled")
                   ELSE IF send.dispatchedAt = NULL THEN After(loc[p].ctx, "not_sent")
                   ELSE IF send.reconciles >= MaxReconciles THEN "rec_doubt"
                   ELSE "rec_bump"
             l == [loc[p] EXCEPT !.did = send.draftId, !.since = send.dispatchedAt,
                                 !.pc = pc]
  <2>1. pc \in Pcs \ {"commit", "send", "record", "rec_adopt"}
    BY AfterPc DEF Pcs, HandlerPcs
  <2>2. Become(p, l)
    BY <1>18 DEF ReconcileLoad
  <2> HIDE DEF pc
  <2>3. l \in Local /\ l.did = send.draftId /\ l.pc = pc
    BY <1>0, <2>1 DEF Local, SendRow
  <2> HIDE DEF l
  <2>4. LocalRefs(l, Len(gdrafts))
    BY <1>0, <2>1, <2>3 DEF LocalRefs, SendOK
  <2>5. Locals'
    BY <1>0, <1>18, <1>g, <2>2, <2>3, <2>4 DEF ReconcileLoad, provider
  <2> QED BY <1>0, <1>18, <1>b, <1>c, <1>d, <2>5
          DEF ReconcileLoad, TypeInv, OthersOK, provider, bounds
<1>19. ASSUME NEW p \in Actors, ReconcileBump(p) PROVE TypeInv'
  <2> DEFINE spent == send.reconciles + 1 >= MaxReconciles
             l == [loc[p] EXCEPT !.pc = "rec_probe", !.spent = spent]
  <2>1. spent \in BOOLEAN /\ Become(p, l)
    BY <1>19 DEF ReconcileBump
  <2> HIDE DEF spent
  <2>2. l \in Local /\ l.did = loc[p].did /\ l.pc = "rec_probe"
    BY <1>0, <2>1 DEF Local, Pcs, HandlerPcs
  <2> HIDE DEF l
  <2>3. Locals'
    BY <1>0, <1>19, <1>g, <2>1, <2>2 DEF ReconcileBump, LocalRefs, provider
  <2>4. SendOK'
    BY <1>0, <1>19, RequestRows DEF ReconcileBump, SendOK, provider
  <2> QED BY <1>0, <1>19, <1>c, <1>d, <2>3, <2>4
          DEF ReconcileBump, TypeInv, OthersOK, provider, bounds
<1>20. ASSUME NEW p \in Actors, ReconcileProbe(p) PROVE TypeInv'
  <2>1. PICK a \in ProbeAnswers(loc[p]) :
           Become(p, [loc[p] EXCEPT !.spent = FALSE, !.since = NULL, !.mid = a[2],
                                    !.pc = Judge(loc[p], a)])
    BY <1>20 DEF ReconcileProbe
  <2> DEFINE pc == Judge(loc[p], a)
             mid == a[2]
             l == [loc[p] EXCEPT !.spent = FALSE, !.since = NULL, !.mid = mid, !.pc = pc]
  <2>2. /\ pc \in Pcs \ {"commit", "send", "record"} /\ mid \in Int
        /\ pc = "rec_adopt" => mid # 0
    BY <1>0, AnswerType, JudgePc DEF Pcs, HandlerPcs, ProviderOK
  <2>3. Become(p, l)
    BY <2>1
  <2> HIDE DEF pc, mid
  <2>4. l \in Local /\ l.did = loc[p].did /\ l.pc = pc /\ l.mid = mid
    BY <1>0, <2>2, Sentinels DEF Local
  <2> HIDE DEF l
  <2>5. LocalRefs(l, Len(gdrafts))
    BY <1>0, <2>2, <2>4 DEF LocalRefs
  <2>6. Locals'
    BY <1>0, <1>20, <1>g, <2>3, <2>4, <2>5 DEF ReconcileProbe, provider
  <2> QED BY <1>0, <1>20, <1>b, <1>c, <1>d, <2>6
          DEF ReconcileProbe, TypeInv, OthersOK, provider, bounds
<1>j. \A ctx, verdict : After(ctx, verdict) \in Pcs \ {"commit", "send", "record", "rec_adopt"}
  BY AfterPc DEF Pcs, HandlerPcs
<1>21. ASSUME NEW p \in Actors, ReconcileAdopt(p) PROVE TypeInv'
  <2>1. loc[p].mid \in Int /\ loc[p].mid # 0 /\ loc[p].did \in Nat
        /\ loc[p].did <= Len(gdrafts)
    BY <1>0, <1>21 DEF ReconcileAdopt, Local, LocalRefs
  <2>2. SendOK'
    BY <1>0, <1>21, <2>1, DeliveredFacts DEF ReconcileAdopt, SendOK, provider
  <2>3. Locals'
    BY <1>0, <1>21, <1>i, <1>j DEF ReconcileAdopt, provider
  <2> QED BY <1>0, <1>21, <1>c, <1>d, <2>2, <2>3
          DEF ReconcileAdopt, TypeInv, OthersOK, provider, bounds
<1>22. ASSUME NEW p \in Actors, ReconcileDoubt(p) PROVE TypeInv'
  <2>1. SendOK'
    <3>1. "uncertain" \in SettledStates
      BY DEF SettledStates
    <3> QED BY <1>0, <1>22, <3>1, FailedRows DEF ReconcileDoubt, SendOK, provider
  <2>2. Locals'
    BY <1>0, <1>22, <1>i, <1>j DEF ReconcileDoubt, provider
  <2> QED BY <1>0, <1>22, <1>c, <1>d, <2>1, <2>2
          DEF ReconcileDoubt, TypeInv, OthersOK, provider, bounds
(* How an execution ends *)
<1>k. ASSUME NEW p \in Actors, Become(p, Idle), UNCHANGED gdrafts PROVE Locals'
  BY <1>0, <1>g, <1>k, IdleLocal
<1>23. ASSUME NEW w \in Workers, NEW state \in {"succeeded", "parked", "ready", "failed"},
              FinishJob(w, state)
       PROVE  TypeInv'
  <2>1. JobsOK'
    BY <1>0, <1>23 DEF FinishJob, JobsOK, JobRow
  <2> QED BY <1>0, <1>23, <1>b, <1>d, <1>k, <2>1
          DEF FinishJob, TypeInv, OthersOK, provider, bounds
<1>24. ASSUME NEW w \in Workers, CancelHandler(w) \/ DbError(w) PROVE TypeInv'
  <2>1. PICK pc \in {"raise_transient", "raise_permanent"} : Goto(w, pc)
    BY <1>24 DEF CancelHandler, DbError
  <2>2. Locals'
    BY <1>0, <1>24, <1>i, <2>1 DEF CancelHandler, DbError, Pcs, provider
  <2> QED BY <1>0, <1>24, <1>b, <1>c, <1>d, <2>2
          DEF CancelHandler, DbError, TypeInv, OthersOK, provider, bounds
<1>25. ASSUME NEW p \in Actors, Crash(p) PROVE TypeInv'
  BY <1>0, <1>25, <1>b, <1>c, <1>d, <1>k DEF Crash, TypeInv, OthersOK, provider
<1>26. ASSUME NEW j \in Jobs, SweepStale(j) PROVE TypeInv'
  <2> DEFINE l == [Idle EXCEPT !.pc = "rec_load", !.ctx = "sweep", !.job = j]
  <2>1. j \in Nat
    BY ConstantsAssumption DEF Jobs
  <2>2. l \in Local /\ l.did = 0 /\ l.pc = "rec_load"
    BY <2>1, IdleLocal DEF Idle, Local, Pcs, HandlerPcs
  <2>3. Locals'
    <3>1. Become(Sweeper, l) /\ gdrafts' = gdrafts
      BY <1>26 DEF SweepStale, provider
    <3> HIDE DEF l
    <3>2. LocalRefs(l, Len(gdrafts))
      BY <1>0, <2>2 DEF LocalRefs
    <3> QED BY <1>0, <1>g, <2>2, <3>1, <3>2
  <2> QED BY <1>0, <1>26, <1>b, <1>c, <1>d, <2>3
          DEF SweepStale, TypeInv, OthersOK, provider, bounds
<1>27. CASE SweepCommit
  <2>1. JobsOK'
    BY <1>0, <1>27 DEF SweepCommit, Recovered, JobsOK, JobRow
  <2> QED BY <1>0, <1>27, <1>b, <1>d, <1>k, <2>1
          DEF SweepCommit, TypeInv, OthersOK, provider, bounds
<1>28. CASE UNCHANGED vars
  BY <1>0, <1>28, <1>a, <1>b, <1>c, <1>d DEF vars, TypeInv, OthersOK, provider
<1>29. ASSUME NEW w \in Workers, Succeed(w) \/ Fail(w) PROVE TypeInv'
  BY <1>23, <1>29 DEF Succeed, Fail
<1> QED
  BY <1>0, <1>1, <1>2, <1>3, <1>4, <1>5, <1>6, <1>7, <1>8, <1>9, <1>10, <1>11, <1>12,
     <1>13, <1>14, <1>15, <1>16, <1>17, <1>18, <1>19, <1>20, <1>21, <1>22, <1>24,
     <1>25, <1>26, <1>27, <1>28, <1>29
  DEF Next, RunSend, Reconcile, Operator

(* The rows keep the schema's types and CHECK constraints: no statement of *)
(* the handler, the queue, the sweeper or an operator's request breaks     *)
(* jobs_attempts_bounded, sends_uncertain_was_dispatched or                *)
(* sends_delivered_has_evidence, whatever faults occur.                    *)
THEOREM TypeCorrect == Spec => []TypeOK
<1> QED BY TypeInit, TypeNext, TypeInvTypeOK, PTL DEF Spec
(* Every write of a worker or of the sweeper, and a claim's, leaves the    *)
(* state of a settled row as it is.                                        *)
LEMMA SettledWrites ==
    ASSUME send \in SendRow, send.state \in SettledStates
    PROVE  /\ send.state # "none" /\ send.state # "in_flight"
           /\ \A did : Dispatched(did) = send
           /\ \A mid, did : Delivered(mid, did) = send
           /\ \A state : Fails(state) = send
           /\ Doubted = send
           /\ Bumped.state = send.state
<1>1. send.state # "none" /\ send.state # "in_flight"
  BY DEF SettledStates
<1>2. Bumped.state = send.state
  BY DEF Bumped, SendRow
<1> QED BY <1>1, <1>2 DEF Dispatched, Delivered, Fails, Doubted

(* A send that failed, was delivered or is in doubt is reopened by nobody  *)
(* but an operator: retries, late answers, zombies and the sweeper's       *)
(* reconciliation leave its state alone, whatever faults occur.            *)
THEOREM OperatorAloneReopens == Spec => OnlyOperatorReopens
<1> DEFINE Kept == send.state \in SettledStates /\ send'.state # send.state
                     => \E k \in Callers : Operator(k)
<1>1. TypeInv /\ [Next]_vars => Kept
  <2> SUFFICES ASSUME TypeInv, [Next]_vars, send.state \in SettledStates,
                      ~\E k \in Callers : Operator(k)
               PROVE  send'.state = send.state
    OBVIOUS
  <2>1. /\ send.state # "none" /\ Doubted = send /\ Bumped.state = send.state
        /\ \A did : Dispatched(did) = send
        /\ \A mid, did : Delivered(mid, did) = send
        /\ \A state : Fails(state) = send
    BY SettledWrites DEF TypeInv, SendOK
  <2>2. ASSUME NEW c \in Contents, UpdateDraft(c) PROVE send' = send
    BY <2>2 DEF UpdateDraft
  <2>3. ASSUME NEW k \in Callers, SendDraft(k) \/ ClaimSend(k) PROVE send' = send
    BY <2>1, <2>3 DEF SendDraft, ClaimSend
  <2>4. ASSUME NEW k \in Callers, NEW op, NEW states, OperatorLoads(k, op, states)
        PROVE  send' = send
    BY <2>4 DEF OperatorLoads
  <2>5. ASSUME NEW p \in Actors, Reconcile(p) PROVE send'.state = send.state
    BY <2>1, <2>5 DEF Reconcile, ReconcileLoad, ReconcileBump, ReconcileProbe,
                      ReconcileAdopt, ReconcileDoubt
  <2>6. ASSUME NEW w \in Workers, RunSend(w) PROVE send'.state = send.state
    <3>1. w \in Actors
      BY DEF Actors
    <3>2. CASE LoadSend(w) \/ Build(w) \/ ProviderSend(w) \/ RecordSuccess(w) \/ Discard(w)
      BY <3>2 DEF LoadSend, Build, ProviderSend, RecordSuccess, Discard
    <3>3. CASE CommitDispatchAttempt(w) \/ RecordDelivery(w) \/ SetTerminal(w)
      BY <2>1, <3>3 DEF CommitDispatchAttempt, RecordDelivery, SetTerminal
    <3>4. CASE Succeed(w) \/ Fail(w)
      BY <3>4 DEF Succeed, Fail, FinishJob
    <3> QED BY <2>5, <2>6, <3>1, <3>2, <3>3, <3>4 DEF RunSend
  <2>7. ASSUME NEW w \in Workers, (\E j \in Jobs : Claim(w, j)) \/ CancelHandler(w) \/ DbError(w)
        PROVE  send' = send
    BY <2>7 DEF Claim, CancelHandler, DbError
  <2>8. CASE SweepCommit \/ \E j \in Jobs : SweepStale(j)
    BY <2>8 DEF SweepStale, SweepCommit
  <2>9. CASE (\E p \in Actors : Crash(p)) \/ \E r \in wire : LateAccept(r)
    BY <2>9 DEF Crash, LateAccept
  <2>10. CASE UNCHANGED vars
    BY <2>10 DEF vars
  <2> QED BY <2>2, <2>3, <2>4, <2>5, <2>6, <2>7, <2>8, <2>9, <2>10 DEF Next, Actors
<1>2. OnlyOperatorReopens <=> [][Kept]_vars
  BY DEF OnlyOperatorReopens
<1> QED BY <1>1, <1>2, TypeInit, TypeNext, PTL DEF Spec

=============================================================================
