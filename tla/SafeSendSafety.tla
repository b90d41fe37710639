--------------------------- MODULE SafeSendSafety ---------------------------
(***************************************************************************)
(* At most one delivery, proved for every instance of SafeSend in which a  *)
(* lease never outlives its worker ("zombie"). On Slack the proof also     *)
(* needs that the provider has forgotten an abandoned request ("late") and *)
(* that the probe sees past other traffic ("busy"); on Gmail it does not.  *)
(***************************************************************************)
EXTENDS SafeSendProofs

SlackOn == Channel = "slack" /\ "late" \notin Faults /\ "busy" \notin Faults
GmailOn == Channel = "gmail"

-----------------------------------------------------------------------------
(* The inductive invariant *)

Active(p) == loc[p].pc # "idle"

(* One execution at a time: whoever is active holds a running job, and one *)
(* job runs at most; ids beyond njobs are not in use.                      *)
Exclusive ==
    /\ \A p \in Actors : Active(p) =>
          loc[p].job \in Jobs /\ jobs[loc[p].job].state = "running"
    /\ \A i, j \in Jobs :
          jobs[i].state = "running" /\ jobs[j].state = "running" => i = j
    /\ \A j \in Jobs : j > njobs => jobs[j].state = "none"
    /\ OneExecution

(* Slack: what an execution knows, with n messages accepted so far. Until  *)
(* it sends, nothing has been accepted since the dispatch the row records, *)
(* and the probe it runs looks back exactly to that dispatch.              *)
SlackLocal(l, s, n) ==
    /\ l.pc \in {"build", "commit", "fail_transient"} =>
          s.state = "in_flight" /\ s.dispatchedAt \in {NULL, n}
    /\ l.pc = "send" => s.state = "in_flight" /\ s.dispatchedAt = n
    /\ l.pc \in {"rec_bump", "rec_probe"} =>
          s.state = "in_flight" /\ s.dispatchedAt # NULL /\ l.since = s.dispatchedAt
    /\ l.pc \in {"record", "rec_adopt"} => l.mid \in 1..n

(* Every delivery is answered for: by the recorded dispatch, or by an      *)
(* operator who ordered the message resent.                                *)
SlackRow(s, n, f) ==
    /\ s.dispatchedAt = NULL => n <= f
    /\ s.dispatchedAt # NULL =>
          0 <= s.dispatchedAt /\ s.dispatchedAt <= f
          /\ s.dispatchedAt <= n /\ n <= s.dispatchedAt + 1
    /\ s.state = "failed_transient" => s.dispatchedAt \in {NULL, n}
    /\ s.messageId \in {0, Attested} \cup 1..n

SlackInv ==
    /\ SlackRow(send, Len(delivered), forced)
    /\ \A p \in Actors : SlackLocal(loc[p], send, Len(delivered))

(* Gmail: the only draft ever sent or deleted is the one the row records.  *)
GmailLocal(l, s) ==
    /\ l.pc \in {"build", "rec_bump", "rec_probe"} =>
          s.state = "in_flight" /\ l.did = s.draftId
    /\ l.pc = "commit" => s.state = "in_flight" /\ l.did # 0 /\ s.draftId \in {0, l.did}
    /\ l.pc \in {"send", "record", "discard"} => l.did = s.draftId /\ l.did # 0
    /\ l.pc # "rec_adopt"
    /\ l.pc = "fail_permanent" => l.did \in {0, s.draftId}

GmailRow(d) ==
    /\ gone \subseteq {d} /\ 0 \notin gone
    /\ Len(delivered) > 0 => d \in gone
    /\ Len(delivered) <= 1
    /\ \A r \in wire : r.did = d /\ d # 0

GmailInv ==
    /\ GmailRow(send.draftId)
    /\ \A p \in Actors : GmailLocal(loc[p], send)

SafeInv ==
    /\ Exclusive
    /\ SlackOn => SlackInv /\ wire = {}
    /\ GmailOn => GmailInv

-----------------------------------------------------------------------------
(* Where verdicts lead *)

(* Only "not sent" leads to a dispatch or to failed_transient. *)
LEMMA AfterNotSent ==
    ASSUME NEW ctx, NEW verdict,
           After(ctx, verdict) \in {"build", "commit", "fail_transient"}
    PROVE  verdict = "not_sent"
  BY DEF After

(* Nor does anything but a definitive "absent". *)
LEMMA JudgeAbsent ==
    ASSUME NEW l \in Local, NEW a, a[1] \in {"found", "absent", "inconclusive"},
           Judge(l, a) \in {"build", "fail_transient"}
    PROVE  a[1] = "absent"
<1>1. CASE a[1] = "found"
  BY <1>1 DEF Judge
<1>2. CASE a[1] = "inconclusive"
  <2>1. Judge(l, a) = After(l.ctx, "retry_later") \/ Judge(l, a) = "rec_doubt"
    BY <1>2 DEF Judge
  <2>2. After(l.ctx, "retry_later") \notin {"build", "fail_transient"}
    BY AfterNotSent
  <2> QED BY <2>1, <2>2
<1> QED BY <1>1, <1>2

(* On a quiet Slack channel "absent" means nothing since the dispatch. *)
LEMMA AbsentOnSlack ==
    ASSUME SlackOn, NEW l, NEW a \in ProbeAnswers(l), a[1] = "absent"
    PROVE  Len(delivered) <= l.since
  BY DEF SlackOn, ProbeAnswers

(* Gmail names no message, so there is none to adopt. *)
LEMMA NoneAdopted ==
    ASSUME GmailOn, NEW l, NEW a \in ProbeAnswers(l)
    PROVE  Judge(l, a) # "rec_adopt"
<1>1. a[1] \in {"found", "absent", "inconclusive"} /\ a[2] = 0
  BY DEF GmailOn, ProbeAnswers
<1>2. \A verdict : After(l.ctx, verdict) # "rec_adopt"
  BY DEF After
<1> QED BY <1>1, <1>2 DEF Judge

-----------------------------------------------------------------------------
(* The steps of one execution, and of everyone else *)

(* An active execution moves on: nobody else is active, so only what it    *)
(* knows and what the row says is left to show.                            *)
LEMMA Moves ==
    ASSUME TypeInv, SafeInv, NEW p \in Actors, Active(p),
           NEW STATE l, l \in Local, Become(p, l), l.job = loc[p].job,
           UNCHANGED <<jobs, njobs>>,
           SlackOn => /\ SlackRow(send', Len(delivered'), forced')
                      /\ SlackLocal(l, send', Len(delivered')) /\ wire' = {},
           GmailOn => GmailRow(send.draftId)' /\ GmailLocal(l, send')
    PROVE  SafeInv'
<1>1. /\ loc \in [Actors -> Local] /\ loc' = [loc EXCEPT ![p] = l]
      /\ \A q \in Actors : q # p => loc[q].pc = "idle" /\ loc'[q] = loc[q]
      /\ loc'[p] = l
  BY DEF TypeInv, Locals, SafeInv, Exclusive, OneExecution, Active, Become
<1>2. Exclusive'
  BY <1>1 DEF SafeInv, Exclusive, OneExecution, Active
<1>3. ASSUME SlackOn PROVE SlackInv'
  <2>1. ASSUME NEW q \in Actors PROVE SlackLocal(loc'[q], send', Len(delivered'))
    BY <1>1, <1>3 DEF SlackLocal
  <2> QED BY <1>3, <2>1 DEF SlackInv
<1>4. ASSUME GmailOn PROVE GmailInv'
  <2>1. ASSUME NEW q \in Actors PROVE GmailLocal(loc'[q], send')
    BY <1>1, <1>4 DEF GmailLocal
  <2> QED BY <1>4, <2>1 DEF GmailInv
<1>5. (SlackOn <=> SlackOn') /\ (GmailOn <=> GmailOn')
  BY DEF SlackOn, GmailOn
<1> QED BY <1>2, <1>3, <1>4, <1>5 DEF SafeInv

(* An execution ends: what it was doing is forgotten, and its job is left  *)
(* running, or no longer is.                                               *)
LEMMA Ends ==
    ASSUME TypeInv, SafeInv, NEW p \in Actors, Active(p), Become(p, Idle),
           UNCHANGED <<njobs, send, forced, provider>>,
           \/ UNCHANGED jobs
           \/ \E state \in {"succeeded", "parked", "ready", "failed"} :
                 jobs' = [jobs EXCEPT ![loc[p].job].state = state]
    PROVE  SafeInv'
<1>1. /\ loc \in [Actors -> Local] /\ loc' = [loc EXCEPT ![p] = Idle]
      /\ \A q \in Actors : loc'[q].pc = "idle"
  BY DEF TypeInv, Locals, SafeInv, Exclusive, OneExecution, Active, Become, Idle
<1>2. Exclusive'
  <2>1. jobs \in [Jobs -> JobRow] /\ loc[p].job \in Jobs
        /\ jobs[loc[p].job].state = "running" /\ njobs \in Nat
    BY DEF TypeInv, JobsOK, SafeInv, Exclusive
  <2>2. \A j \in Jobs : j # loc[p].job => jobs'[j] = jobs[j]
    BY <2>1
  <2>3. jobs'[loc[p].job].state \in {"running", "succeeded", "parked", "ready", "failed"}
    BY <2>1 DEF JobRow
  <2>4. \A j \in Jobs : jobs'[j].state = "running" => jobs[j].state = "running"
    BY <2>1, <2>2
  <2>5. \A j \in Jobs : j > njobs => jobs'[j].state = "none"
    BY <2>1, <2>2 DEF SafeInv, Exclusive
  <2> QED BY <1>1, <2>4, <2>5 DEF SafeInv, Exclusive, OneExecution, Active
<1>3. ASSUME SlackOn PROVE SlackInv' /\ wire' = {}
  BY <1>1, <1>3 DEF SafeInv, SlackInv, SlackLocal, provider
<1>4. ASSUME GmailOn PROVE GmailInv'
  BY <1>1, <1>4 DEF SafeInv, GmailInv, GmailLocal, GmailRow, provider
<1>5. (SlackOn <=> SlackOn') /\ (GmailOn <=> GmailOn')
  BY DEF SlackOn, GmailOn
<1> QED BY <1>2, <1>3, <1>4, <1>5 DEF SafeInv

(* A job is claimed or recovered only while nobody is active. *)
LEMMA Begins ==
    ASSUME TypeInv, SafeInv, NEW p \in Actors, \A q \in Actors : ~Active(q),
           NEW STATE l, l \in Local, Become(p, l), l.pc \in {"load", "rec_load"},
           NEW j \in Jobs, l.job = j, j <= njobs,
           UNCHANGED <<njobs, send, forced, provider>>,
           jobs' \in [Jobs -> JobRow], jobs'[j].state = "running",
           \A i \in Jobs : i # j => jobs'[i] = jobs[i] /\ jobs[i].state # "running"
    PROVE  SafeInv'
<1>1. /\ loc \in [Actors -> Local] /\ loc' = [loc EXCEPT ![p] = l]
      /\ \A q \in Actors : q # p => loc'[q].pc = "idle"
      /\ loc'[p] = l
  BY DEF TypeInv, Locals, Active, Become
<1>2. Exclusive'
  <2>1. \A i \in Jobs : jobs'[i].state = "running" => i = j
    OBVIOUS
  <2>2. \A i \in Jobs : i > njobs => jobs'[i].state = "none"
    <3>1. j \in Int /\ njobs \in Int
      BY ConstantsAssumption DEF Jobs, TypeInv, JobsOK
    <3>2. ASSUME NEW i \in Jobs, i > njobs PROVE jobs'[i].state = "none"
      BY <3>1, <3>2 DEF SafeInv, Exclusive
    <3> QED BY <3>2
  <2> QED BY <1>1, <2>1, <2>2 DEF Exclusive, OneExecution, Active
<1>3. ASSUME SlackOn PROVE SlackInv' /\ wire' = {}
  BY <1>1, <1>3 DEF SafeInv, SlackInv, SlackLocal, provider
<1>4. ASSUME GmailOn PROVE GmailInv'
  BY <1>1, <1>4 DEF SafeInv, GmailInv, GmailLocal, GmailRow, provider
<1>5. (SlackOn <=> SlackOn') /\ (GmailOn <=> GmailOn')
  BY DEF SlackOn, GmailOn
<1> QED BY <1>2, <1>3, <1>4, <1>5 DEF SafeInv

(* Booking work for a send never touches a running job. *)
LEMMA Books ==
    ASSUME TypeInv, Exclusive, UNCHANGED loc,
           \/ UNCHANGED <<jobs, njobs>>
           \/ Enqueue
           \/ Resumable(njobs) /\ Resume(njobs)
    PROVE  Exclusive'
<1>1. jobs \in [Jobs -> JobRow] /\ njobs \in Nat /\ \A j \in Jobs : j \in Nat
  BY ConstantsAssumption DEF TypeInv, JobsOK, Jobs
<1>2. CASE UNCHANGED <<jobs, njobs>>
  BY <1>2 DEF Exclusive, OneExecution, Active
<1>3. CASE Enqueue
  <2> DEFINE row == [NoJob EXCEPT !.state = "ready"]
  <2>1. row.state = "ready"
    BY DEF NoJob
  <2>2. jobs' = [jobs EXCEPT ![njobs + 1] = row] /\ njobs' = njobs + 1
    BY <1>3 DEF Enqueue
  <2> HIDE DEF row
  <2>3. \A j \in Jobs : j # njobs + 1 => jobs'[j] = jobs[j]
    BY <1>1, <2>2
  <2>4. \A j \in Jobs : j = njobs + 1 => jobs'[j].state = "ready" /\ jobs[j].state = "none"
    BY <1>1, <2>1, <2>2 DEF Exclusive
  <2>5. \A j \in Jobs : j > njobs' => jobs'[j].state = "none"
    BY <1>1, <2>2, <2>3 DEF Exclusive
  <2> QED BY <2>3, <2>4, <2>5 DEF Exclusive, OneExecution, Active
<1>4. CASE Resumable(njobs) /\ Resume(njobs)
  <2> DEFINE row == [jobs[njobs] EXCEPT !.state = "ready", !.max = MoreAttempts(njobs)]
  <2>1. jobs' = [jobs EXCEPT ![njobs] = row] /\ njobs' = njobs
        /\ jobs[njobs].state # "running"
    BY <1>4 DEF Resume, Resumable
  <2>2. njobs \in Jobs => row.state = "ready"
    BY <1>1 DEF JobRow
  <2> HIDE DEF row
  <2>3. \A j \in Jobs : j # njobs => jobs'[j] = jobs[j]
    BY <1>1, <2>1
  <2>4. \A j \in Jobs : j = njobs => jobs'[j].state = "ready" /\ jobs[j].state # "running"
    BY <1>1, <2>1, <2>2
  <2>5. \A j \in Jobs : j > njobs' => jobs'[j].state = "none"
    BY <1>1, <2>1, <2>3 DEF Exclusive
  <2> QED BY <2>3, <2>4, <2>5 DEF Exclusive, OneExecution, Active
<1> QED BY <1>2, <1>3, <1>4

LEMMA SafeInit == Init => SafeInv
<1> SUFFICES ASSUME Init PROVE SafeInv
  OBVIOUS
<1>1. /\ \A p \in Actors : loc[p] = Idle /\ Idle.pc = "idle"
      /\ \A j \in Jobs : jobs[j].state = "none"
      /\ Len(delivered) = 0 /\ gone = {} /\ wire = {} /\ forced = 0
      /\ send.state = "none" /\ send.dispatchedAt = NULL /\ send.messageId = 0
  BY DEF Init, Idle, NoJob
<1>2. Exclusive
  BY <1>1 DEF Exclusive, OneExecution, Active
<1>3. SlackInv
  BY <1>1 DEF SlackInv, SlackRow, SlackLocal
<1>4. GmailInv
  BY <1>1 DEF GmailInv, GmailRow, GmailLocal
<1> QED BY <1>1, <1>2, <1>3, <1>4 DEF SafeInv

(* Every step keeps the invariant when no lease expires on a live worker.  *)
LEMMA SafeNext ==
    ASSUME "zombie" \notin Faults
    PROVE  TypeInv /\ SafeInv /\ [Next]_vars => SafeInv'
<1> SUFFICES ASSUME TypeInv, SafeInv, [Next]_vars PROVE SafeInv'
  OBVIOUS
<1> DEFINE n == Len(delivered)
<1>0. /\ loc \in [Actors -> Local] /\ \A p \in Actors : loc[p] \in Local
      /\ send \in SendRow /\ n \in Nat /\ forced \in Nat /\ njobs \in Nat
      /\ jobs \in [Jobs -> JobRow]
      /\ Workers \subseteq Actors /\ Sweeper \in Actors /\ Sweeper \notin Workers
      /\ delivered \in Seq(Contents) /\ gdrafts \in Seq(Contents)
      /\ Exclusive
  BY ConstantsAssumption
     DEF TypeInv, Locals, SendOK, JobsOK, ProviderOK, OthersOK, Actors, SafeInv
<1>1. ASSUME SlackOn
      PROVE  /\ SlackRow(send, n, forced) /\ wire = {}
             /\ \A p \in Actors : SlackLocal(loc[p], send, n)
  BY <1>1 DEF SafeInv, SlackInv
<1>2. ASSUME GmailOn
      PROVE  GmailRow(send.draftId) /\ \A p \in Actors : GmailLocal(loc[p], send)
  BY <1>2 DEF SafeInv, GmailInv
<1>3. /\ SlackOn' <=> SlackOn
      /\ GmailOn' <=> GmailOn
      /\ ~(SlackOn /\ GmailOn)
  BY DEF SlackOn, GmailOn
(* Steps that leave the executions, the messages and the drafts alone: the *)
(* row keeps its dispatch unless an operator resends an uncertain one.     *)
<1>a. ASSUME UNCHANGED <<loc, provider>>,
             \/ UNCHANGED <<jobs, njobs>>
             \/ Enqueue
             \/ Resumable(njobs) /\ Resume(njobs),
             send'.draftId = send.draftId,
             send.state = "in_flight" => send'.state = "in_flight",
             SlackOn => SlackRow(send', n, forced'),
             send.state = "in_flight" => send'.dispatchedAt = send.dispatchedAt
      PROVE  SafeInv'
  <2>1. Exclusive'
    BY <1>0, <1>a, Books
  <2>2. ASSUME SlackOn PROVE SlackInv' /\ wire' = {}
    <3>1. ASSUME NEW p \in Actors PROVE SlackLocal(loc[p], send', n)
      BY <1>1, <1>a, <2>2 DEF SlackLocal
    <3> QED BY <1>1, <1>a, <2>2, <3>1 DEF SlackInv, provider
  <2>3. ASSUME GmailOn PROVE GmailInv'
    <3>1. ASSUME NEW p \in Actors PROVE GmailLocal(loc[p], send')
      BY <1>2, <1>a, <2>3 DEF GmailLocal
    <3> QED BY <1>2, <1>a, <2>3, <3>1 DEF GmailInv, GmailRow, provider
  <2> QED BY <1>3, <2>1, <2>2, <2>3 DEF SafeInv
<1>4. ASSUME NEW c \in Contents, UpdateDraft(c) PROVE SafeInv'
  BY <1>1, <1>4, <1>a DEF UpdateDraft, provider, bounds
<1>5. ASSUME NEW k \in Callers, SendDraft(k) PROVE SafeInv'
  BY <1>1, <1>5, <1>a DEF SendDraft, provider, bounds
<1>6. ASSUME NEW k \in Callers, NEW op, NEW states, OperatorLoads(k, op, states)
      PROVE  SafeInv'
  BY <1>1, <1>6, <1>a DEF OperatorLoads, provider
<1>7. ASSUME NEW k \in Callers, ClaimSend(k) PROVE SafeInv'
  <2>1. call[k].digest \in Contents \cup {NoContent}
    BY DEF TypeInv, OthersOK, Call
  <2>2. /\ send'.draftId = send.draftId /\ send'.dispatchedAt = send.dispatchedAt
        /\ send'.messageId = send.messageId
        /\ send'.state \in {send.state, "in_flight"} /\ forced' = forced
    BY <1>0, <1>7, <2>1, RequestRows DEF ClaimSend, bounds
  <2>3. SlackOn => SlackRow(send', n, forced')
    BY <1>1, <2>2 DEF SlackRow
  <2> QED BY <1>7, <1>a, <2>2, <2>3 DEF ClaimSend
<1>8. ASSUME NEW k \in Callers, OperatorRetry(k) PROVE SafeInv'
  <2>1. /\ send'.draftId = send.draftId /\ send'.dispatchedAt = send.dispatchedAt
        /\ send'.messageId = send.messageId
        /\ send'.state = "in_flight" /\ forced' = forced
    BY <1>0, <1>8, RequestRows DEF OperatorRetry, bounds
  <2>2. SlackOn => SlackRow(send', n, forced')
    BY <1>1, <2>1 DEF SlackRow
  <2> QED BY <1>8, <1>a, <2>1, <2>2 DEF OperatorRetry
<1>9. ASSUME NEW k \in Callers, MarkDelivered(k) PROVE SafeInv'
  <2>1. /\ send'.draftId = send.draftId /\ send'.dispatchedAt = send.dispatchedAt
        /\ send'.messageId \in {send.messageId, Attested}
        /\ send.state # "uncertain" => send' = send
        /\ send.state = "uncertain" => send'.state = "delivered"
        /\ forced' = forced
    BY <1>0, <1>9, AttestedRowFacts DEF MarkDelivered, bounds
  <2>2. SlackOn => SlackRow(send', n, forced')
    BY <1>1, <2>1 DEF SlackRow
  <2> QED BY <1>9, <1>a, <2>1, <2>2 DEF MarkDelivered
<1>10. ASSUME NEW k \in Callers, ForcedResend(k) PROVE SafeInv'
  <2>1. /\ send'.draftId = send.draftId /\ send'.messageId = send.messageId
        /\ send.state # "uncertain" => send' = send /\ forced' = forced
        /\ send.state = "uncertain" => /\ send'.dispatchedAt = NULL
                                       /\ send'.state = "in_flight"
                                       /\ forced' = forced + 1
    BY <1>0, <1>10, RequestRows DEF ForcedResend
  <2>2. send.state = "uncertain" => send.dispatchedAt # NULL
    BY DEF TypeInv, SendOK
  <2>3. SlackOn => SlackRow(send', n, forced')
    BY <1>0, <1>1, <2>1, <2>2 DEF SlackRow, SendRow
  <2> QED BY <1>10, <1>a, <2>1, <2>3 DEF ForcedResend
(* A request abandoned earlier is accepted late: Gmail only, and it names  *)
(* the recorded draft.                                                     *)
<1>b. ASSUME GmailOn, NEW did, did = send.draftId, did # 0, NEW content,
             Accept(did, content), wire' \subseteq wire, UNCHANGED send
      PROVE  GmailRow(send.draftId)'
  <2>1. gone = {} /\ n = 0
    BY <1>0, <1>2, <1>b DEF GmailRow, Accept, CanAccept, GmailOn
  <2>2. gone' = {did} /\ Len(delivered') = 1
    BY <1>0, <1>b, <2>1 DEF Accept, GmailOn
  <2> QED BY <1>2, <1>b, <2>2 DEF GmailRow
<1>11. ASSUME NEW r \in wire, LateAccept(r) PROVE SafeInv'
  <2>1. ~SlackOn
    BY <1>1
  <2>2. UNCHANGED <<loc, jobs, njobs, send, gdrafts>> /\ wire' \subseteq wire
    BY <1>11 DEF LateAccept
  <2>3. Exclusive'
    BY <1>0, <2>2, Books
  <2>4. ASSUME GmailOn PROVE GmailInv'
    <3>1. r.did = send.draftId /\ r.did # 0
      BY <1>2, <2>4 DEF GmailRow
    <3>2. CASE CanAccept(r.did)
      <4>1. Accept(r.did, r.content)
        BY <1>11, <3>2 DEF LateAccept
      <4> QED BY <1>2, <1>b, <2>2, <2>4, <3>1, <4>1 DEF GmailInv
    <3>3. CASE ~CanAccept(r.did)
      <4>1. UNCHANGED <<gone, delivered>>
        BY <1>11, <3>3 DEF LateAccept
      <4> QED BY <1>2, <2>2, <2>4, <4>1 DEF GmailInv, GmailRow
    <3> QED BY <3>2, <3>3
  <2> QED BY <1>3, <2>1, <2>3, <2>4 DEF SafeInv
(* A job is claimed, or recovered. *)
<1>12. ASSUME NEW w \in Workers, NEW j \in Jobs, Claim(w, j) PROVE SafeInv'
  <2> DEFINE last == jobs[j].attempts + 1 >= jobs[j].max
             l == [Idle EXCEPT !.pc = "load", !.job = j, !.last = last]
  <2>1. last \in BOOLEAN /\ j \in Nat /\ Become(w, l)
    BY <1>12, ConstantsAssumption DEF Claim, Jobs
  <2> HIDE DEF last
  <2>2. l \in Local /\ l.pc = "load" /\ l.job = j
    BY <2>1, IdleLocal DEF Idle, Local, Pcs, HandlerPcs
  <2> HIDE DEF l
  <2>3. /\ jobs[j].state = "ready" /\ \A i \in Jobs : jobs[i].state # "running"
        /\ UNCHANGED <<njobs, send, forced, provider>>
    BY <1>12 DEF Claim, Claimable, bounds
  <2>4. \A q \in Actors : ~Active(q)
    BY <1>0, <2>3 DEF Exclusive
  <2>5. jobs'[j].state = "running" /\ \A i \in Jobs : i # j => jobs'[i] = jobs[i]
    BY <1>0, <1>12 DEF Claim, JobRow
  <2>6. j <= njobs
    BY <1>0, <2>1, <2>3 DEF Exclusive
  <2>7. jobs' \in [Jobs -> JobRow]
    BY <1>0, TypeNext DEF TypeInv, JobsOK
  <2> QED BY <1>0, <2>1, <2>2, <2>3, <2>4, <2>5, <2>6, <2>7, Begins
<1>13. ASSUME NEW j \in Jobs, SweepStale(j) PROVE SafeInv'
  <2> DEFINE l == [Idle EXCEPT !.pc = "rec_load", !.ctx = "sweep", !.job = j]
  <2>1. Become(Sweeper, l) /\ j \in Nat
    BY <1>13, ConstantsAssumption DEF SweepStale, Jobs
  <2>2. l \in Local /\ l.pc = "rec_load" /\ l.job = j
    BY <2>1, IdleLocal DEF Idle, Local, Pcs, HandlerPcs
  <2> HIDE DEF l
  <2>3. /\ jobs[j].state = "running" /\ loc[Sweeper].pc = "idle"
        /\ \A w \in Workers : loc[w].job # j
        /\ UNCHANGED <<jobs, njobs, send, forced, provider>>
    BY <1>13 DEF SweepStale, Stale, bounds
  <2>4. \A q \in Actors : ~Active(q)
    BY <1>0, <2>3 DEF Exclusive, Active, Actors
  <2>5. j <= njobs /\ \A i \in Jobs : i # j => jobs[i].state # "running"
    BY <1>0, <2>1, <2>3 DEF Exclusive
  <2> QED BY <1>0, <2>1, <2>2, <2>3, <2>4, <2>5, Begins
(* An execution ends. *)
<1>14. ASSUME NEW w \in Workers, Active(w), NEW state \in {"succeeded", "parked", "ready", "failed"},
              FinishJob(w, state)
       PROVE  SafeInv'
  BY <1>0, <1>14, Ends DEF FinishJob, bounds
<1>15. ASSUME NEW w \in Workers, Succeed(w) \/ Fail(w) PROVE SafeInv'
  BY <1>14, <1>15 DEF Succeed, Fail, Active
<1>16. ASSUME NEW p \in Actors, Crash(p) PROVE SafeInv'
  BY <1>0, <1>16, Ends DEF Crash, Active
<1>17. CASE SweepCommit
  <2>1. Recovered \in {"succeeded", "parked", "ready", "failed"} /\ Active(Sweeper)
    BY <1>17 DEF Recovered, SweepCommit, Active
  <2> QED BY <1>0, <1>17, <2>1, Ends DEF SweepCommit, bounds
(* An execution goes on to a program counter about which nothing is        *)
(* claimed, leaving the row and the provider alone.                        *)
<1>c. ASSUME NEW p \in Actors, Active(p), NEW STATE l, l \in Local, Become(p, l),
             l.job = loc[p].job,
             l.pc \in {"load", "rec_load", "rec_doubt", "book", "finish", "raise_transient",
                       "raise_permanent", "requeue", "resolve"},
             UNCHANGED <<jobs, njobs, forced, provider>>,
             SlackOn => SlackRow(send', n, forced), send'.draftId = send.draftId
      PROVE  SafeInv'
  <2>1. SlackLocal(l, send', n) /\ GmailLocal(l, send')
    BY <1>c DEF SlackLocal, GmailLocal
  <2>2. GmailOn => GmailRow(send.draftId)'
    BY <1>2, <1>c DEF GmailRow, provider
  <2>3. SlackOn => SlackRow(send', Len(delivered'), forced') /\ wire' = {}
                   /\ SlackLocal(l, send', Len(delivered'))
    BY <1>1, <1>c, <2>1 DEF provider
  <2> QED BY <1>c, <2>1, <2>2, <2>3, Moves
<1>d. ASSUME NEW p \in Actors, Active(p), NEW STATE pc, pc \in Pcs, Goto(p, pc)
      PROVE  /\ [loc[p] EXCEPT !.pc = pc] \in Local
             /\ [loc[p] EXCEPT !.pc = pc].pc = pc
             /\ [loc[p] EXCEPT !.pc = pc].job = loc[p].job
             /\ [loc[p] EXCEPT !.pc = pc].did = loc[p].did
             /\ Become(p, [loc[p] EXCEPT !.pc = pc])
  BY <1>0, <1>d DEF Goto, Local
<1>e. ASSUME NEW p \in Actors, Active(p), NEW STATE pc, Goto(p, pc),
             pc \in {"load", "rec_load", "rec_doubt", "book", "finish", "raise_transient",
                     "raise_permanent", "requeue", "resolve"},
             UNCHANGED <<jobs, njobs, forced, provider>>,
             SlackOn => SlackRow(send', n, forced), send'.draftId = send.draftId
      PROVE  SafeInv'
  <2> DEFINE l == [loc[p] EXCEPT !.pc = pc]
  <2>1. pc \in Pcs
    BY <1>e DEF Pcs, HandlerPcs
  <2>2. l \in Local /\ l.pc = pc /\ l.job = loc[p].job /\ Become(p, l)
    BY <1>d, <1>e, <2>1
  <2> HIDE DEF l
  <2> QED BY <1>c, <1>e, <2>2
<1>18. ASSUME NEW w \in Workers, RecordSuccess(w) PROVE SafeInv'
  BY <1>0, <1>1, <1>18, <1>e DEF RecordSuccess, Active, bounds
<1>19. ASSUME NEW w \in Workers, CancelHandler(w) \/ DbError(w) PROVE SafeInv'
  <2>1. Active(w) /\ send' = send /\ UNCHANGED <<jobs, njobs, forced, provider>>
    BY <1>19 DEF CancelHandler, DbError, HandlerPcs, Active, bounds
  <2>2. PICK pc \in {"raise_transient", "raise_permanent"} : Goto(w, pc)
    BY <1>19 DEF CancelHandler, DbError
  <2> QED BY <1>0, <1>1, <1>e, <2>1, <2>2
(* run_send up to the provider call *)
<1>20. ASSUME NEW w \in Workers, LoadSend(w) PROVE SafeInv'
  <2> DEFINE l == [loc[w] EXCEPT !.did = send.draftId, !.pc = FirstStep]
  <2>1. /\ FirstStep \in {"finish", "rec_load", "build"}
        /\ FirstStep = "build" => send.state = "in_flight" /\ send.dispatchedAt = NULL
    BY DEF FirstStep
  <2>2. Become(w, l) /\ Active(w) /\ UNCHANGED <<send, jobs, njobs, forced, provider>>
    BY <1>20 DEF LoadSend, Active, bounds
  <2>3. l \in Local /\ l.pc = FirstStep /\ l.did = send.draftId /\ l.job = loc[w].job
    <3>1. FirstStep \in Pcs /\ send.draftId \in Nat /\ loc[w] \in Local
      BY <1>0, <2>1 DEF Pcs, HandlerPcs, SendRow
    <3> QED BY <3>1 DEF Local
  <2> HIDE DEF l
  <2>4. SlackLocal(l, send, n) /\ GmailLocal(l, send)
    BY <2>1, <2>3 DEF SlackLocal, GmailLocal
  <2> QED BY <1>0, <1>1, <1>2, <2>2, <2>3, <2>4, Moves DEF GmailRow, provider
<1>21. ASSUME NEW w \in Workers, Build(w) PROVE SafeInv'
  <2>1. /\ Active(w) /\ loc[w].pc = "build" /\ loc[w] \in Local
        /\ UNCHANGED <<send, jobs, njobs, forced, gone, delivered, wire>>
    BY <1>0, <1>21 DEF Build, Active, bounds
  <2>2. ASSUME NEW STATE l, l \in Local, Become(w, l), l.job = loc[w].job,
               l.pc \in {"commit", "fail_permanent", "rec_load", "raise_transient"},
               l.pc = "fail_permanent" => l.did = loc[w].did,
               l.pc = "commit" /\ GmailOn => l.did # 0 /\ (l.did = loc[w].did \/ loc[w].did = 0)
        PROVE  SafeInv'
    <3>1. SlackOn => SlackLocal(l, send, n)
      BY <1>0, <1>1, <2>1, <2>2 DEF SlackLocal
    <3>2. GmailOn => GmailLocal(l, send)
      BY <1>0, <1>2, <2>1, <2>2 DEF GmailLocal
    <3> QED BY <1>0, <1>1, <1>2, <2>1, <2>2, <3>1, <3>2, Moves DEF GmailRow
  <2>3. ASSUME NEW class, Become(w, FinalizeFailure(loc[w], class)) PROVE SafeInv'
    BY <2>1, <2>2, <2>3, FailureLocal
  <2>4. ASSUME ~NeedsDraft(loc[w]), Become(w, [loc[w] EXCEPT !.pc = "commit", !.content =
                                     IF Channel = "slack" THEN draft ELSE NoContent])
        PROVE  SafeInv'
    <3> DEFINE c == IF Channel = "slack" THEN draft ELSE NoContent
               l == [loc[w] EXCEPT !.pc = "commit", !.content = c]
    <3>1. c \in Contents \cup {NoContent} /\ Become(w, l)
      BY <2>4 DEF TypeInv, OthersOK
    <3> HIDE DEF c
    <3>2. l \in Local /\ l.pc = "commit" /\ l.did = loc[w].did /\ l.job = loc[w].job
      BY <2>1, <3>1 DEF Local, Pcs, HandlerPcs
    <3> HIDE DEF l
    <3>3. GmailOn => l.did # 0
      BY <2>4, <3>2 DEF NeedsDraft, GmailOn
    <3> QED BY <2>2, <3>1, <3>2, <3>3
  <2>5. ASSUME NeedsDraft(loc[w]), Become(w, [loc[w] EXCEPT !.pc = "commit",
                                                !.did = Len(gdrafts) + 1])
        PROVE  SafeInv'
    <3> DEFINE d == Len(gdrafts) + 1
               l == [loc[w] EXCEPT !.pc = "commit", !.did = d]
    <3>1. d \in Nat /\ d # 0 /\ Become(w, l) /\ loc[w].did = 0
      BY <1>0, <2>5 DEF NeedsDraft
    <3> HIDE DEF d
    <3>2. l \in Local /\ l.pc = "commit" /\ l.did = d /\ l.job = loc[w].job
      BY <2>1, <3>1 DEF Local, Pcs, HandlerPcs
    <3> HIDE DEF l
    <3> QED BY <2>2, <3>1, <3>2
  <2> QED BY <1>21, <2>3, <2>4, <2>5 DEF Build
<1>22. ASSUME NEW w \in Workers, CommitDispatchAttempt(w) PROVE SafeInv'
  <2> DEFINE l == [loc[w] EXCEPT !.pc = "send"]
  <2>1. /\ Active(w) /\ loc[w].pc = "commit" /\ loc[w] \in Local /\ loc[w].did \in Nat
        /\ Goto(w, "send") /\ send' = Dispatched(loc[w].did)
        /\ UNCHANGED <<jobs, njobs, forced, provider>>
    BY <1>0, <1>22 DEF CommitDispatchAttempt, Active, bounds, Local
  <2>2. l \in Local /\ l.pc = "send" /\ l.did = loc[w].did /\ l.job = loc[w].job
        /\ Become(w, l)
    <3>1. "send" \in Pcs /\ w \in Actors
      BY <1>0 DEF Pcs, HandlerPcs
    <3> QED BY <1>d, <2>1, <3>1
  <2> HIDE DEF l
  <2>3. /\ send'.state = send.state /\ send'.messageId = send.messageId
        /\ send.state = "in_flight" /\ send.dispatchedAt = NULL => send'.dispatchedAt = n
        /\ send.dispatchedAt # NULL => send'.dispatchedAt = send.dispatchedAt
        /\ send.state = "in_flight" /\ send.draftId = 0 => send'.draftId = loc[w].did
        /\ send.draftId # 0 => send'.draftId = send.draftId
    BY <1>0, <2>1, DispatchedFacts
  <2>4. SlackOn => SlackRow(send', n, forced) /\ SlackLocal(l, send', n)
    <3> SUFFICES ASSUME SlackOn PROVE SlackRow(send', n, forced) /\ SlackLocal(l, send', n)
      OBVIOUS
    <3>1. send.state = "in_flight" /\ send.dispatchedAt \in {NULL, n} /\ send'.dispatchedAt = n
      BY <1>0, <1>1, <2>1, <2>3 DEF SlackLocal
    <3>2. n # NULL /\ n <= forced
      BY <1>0, <1>1, <3>1, Sentinels DEF SlackRow
    <3> QED BY <1>0, <1>1, <2>2, <2>3, <3>1, <3>2 DEF SlackRow, SlackLocal
  <2>5. GmailOn => GmailRow(send'.draftId) /\ GmailLocal(l, send')
    <3> SUFFICES ASSUME GmailOn PROVE GmailRow(send'.draftId) /\ GmailLocal(l, send')
      OBVIOUS
    <3>1. send'.draftId = l.did /\ l.did # 0
      BY <1>0, <1>2, <2>1, <2>2, <2>3 DEF GmailLocal
    <3>2. send.draftId \in {0, l.did}
      BY <1>0, <1>2, <2>1, <2>2 DEF GmailLocal
    <3> QED BY <1>0, <1>2, <2>2, <3>1, <3>2 DEF GmailRow, GmailLocal
  <2>6. GmailOn => GmailRow(send.draftId)'
    BY <2>1, <2>5 DEF GmailRow, provider
  <2> QED BY <1>0, <1>1, <2>1, <2>2, <2>4, <2>5, <2>6, Moves DEF provider
(* The provider call: on Slack at most one message after the dispatch, on  *)
(* Gmail the recorded draft, once.                                         *)
<1>23. ASSUME NEW w \in Workers, ProviderSend(w) PROVE SafeInv'
  <2> DEFINE l == loc[w]
  <2>1. /\ Active(w) /\ l.pc = "send" /\ l \in Local /\ l.did \in Nat
        /\ UNCHANGED <<send, jobs, njobs, forced, gdrafts>>
    BY <1>0, <1>23 DEF ProviderSend, Active, bounds, Local
  <2>2. SlackOn => send.state = "in_flight" /\ send.dispatchedAt = n /\ n # NULL
    BY <1>0, <1>1, <2>1, Sentinels DEF SlackLocal
  <2>3. GmailOn => l.did = send.draftId /\ l.did # 0
    BY <1>0, <1>2, <2>1 DEF GmailLocal
  <2>4. \/ UNCHANGED <<gone, delivered>>
        \/ Accept(l.did, l.content) /\ wire' = wire
    BY <1>23 DEF ProviderSend, SendAccepted, SendAnswerLost, SendGarbled, SendRefused,
                 SendDelayed
  <2>5. Len(delivered') \in {n, n + 1}
    BY <1>0, <2>4 DEF Accept
  <2>6. SlackOn => SlackRow(send', Len(delivered'), forced')
    BY <1>0, <1>1, <2>1, <2>2, <2>5 DEF SlackRow
  <2>7. SlackOn => wire' = {}
    BY <1>1, <1>23 DEF ProviderSend, SendAccepted, SendAnswerLost, SendGarbled, SendRefused,
                 SendDelayed, SlackOn
  <2>8. wire' = wire \/ wire' = wire \cup {[did |-> l.did, content |-> l.content]}
    BY <1>23 DEF ProviderSend, SendAccepted, SendAnswerLost, SendGarbled, SendRefused,
                 SendDelayed
  <2>9. GmailOn => GmailRow(send.draftId)'
    <3> SUFFICES ASSUME GmailOn PROVE GmailRow(send.draftId)'
      OBVIOUS
    <3>1. CASE UNCHANGED <<gone, delivered>>
      BY <1>2, <2>1, <2>3, <2>8, <3>1 DEF GmailRow
    <3>2. CASE Accept(l.did, l.content) /\ wire' = wire
      BY <1>b, <2>1, <2>3, <3>2
    <3> QED BY <2>4, <3>1, <3>2
  <2>10. ASSUME NEW class, Become(w, FinalizeFailure(l, class)) PROVE SafeInv'
    <3> DEFINE m == FinalizeFailure(l, class)
    <3>1. m \in Local /\ m.did = l.did /\ m.job = l.job
          /\ m.pc \in {"fail_permanent", "rec_load", "raise_transient"}
      BY <2>1, FailureLocal
    <3> HIDE DEF m
    <3>2. SlackLocal(m, send', Len(delivered')) /\ (GmailOn => GmailLocal(m, send'))
      BY <2>1, <2>3, <3>1 DEF SlackLocal, GmailLocal
    <3>3. Become(w, m)
      BY <2>10 DEF m
    <3> QED BY <1>0, <2>1, <2>6, <2>7, <2>9, <3>1, <3>2, <3>3, Moves
  <2>11. ASSUME NEW STATE mid, mid \in Int, SlackOn => mid \in 1..Len(delivered'),
                Become(w, [l EXCEPT !.pc = "record", !.content = NoContent, !.mid = mid])
         PROVE  SafeInv'
    <3> DEFINE m == [l EXCEPT !.pc = "record", !.content = NoContent, !.mid = mid]
    <3>1. /\ m \in Local /\ m.did = l.did /\ m.job = l.job /\ m.pc = "record"
          /\ m.mid = mid /\ Become(w, m)
      BY <2>1, <2>11 DEF Local, Pcs, HandlerPcs
    <3> HIDE DEF m
    <3>2. SlackOn => SlackLocal(m, send', Len(delivered'))
      BY <2>11, <3>1 DEF SlackLocal
    <3>3. GmailOn => GmailLocal(m, send')
      BY <2>1, <2>3, <3>1 DEF GmailLocal
    <3> QED BY <1>0, <2>1, <2>6, <2>7, <2>9, <3>1, <3>2, <3>3, Moves
  <2>12. CASE SendAccepted(w)
    <3> DEFINE mid == n + 1
    <3>1. mid \in Int /\ (SlackOn => mid \in 1..Len(delivered'))
      BY <1>0, <2>12 DEF SendAccepted, Accept
    <3>2. Become(w, [l EXCEPT !.pc = "record", !.content = NoContent, !.mid = mid])
      BY <2>12 DEF SendAccepted
    <3> HIDE DEF mid, l
    <3> QED BY <2>11, <3>1, <3>2
  <2>13. CASE SendAnswerLost(w) \/ SendRefused(w) \/ SendDelayed(w)
    BY <2>10, <2>13 DEF SendAnswerLost, SendRefused, SendDelayed
  <2>14. CASE SendGarbled(w)
    <3>1. CASE Channel = "slack"
      BY <2>10, <2>14, <3>1 DEF SendGarbled, Unreadable
    <3>2. CASE Channel # "slack"
      <4>1. EmptyId \in Int /\ ~SlackOn
        BY <3>2, Sentinels DEF SlackOn
      <4>2. Become(w, [l EXCEPT !.pc = "record", !.content = NoContent, !.mid = EmptyId])
        BY <2>14, <3>2 DEF SendGarbled, Unreadable
      <4> HIDE DEF l
      <4> QED BY <2>11, <4>1, <4>2
    <3> QED BY <3>1, <3>2
  <2> QED BY <1>23, <2>12, <2>13, <2>14 DEF ProviderSend
<1>24. ASSUME NEW w \in Workers, RecordDelivery(w) PROVE SafeInv'
  <2>1. /\ Active(w) /\ loc[w].pc = "record" /\ loc[w].did \in Nat /\ loc[w].mid \in Int
        /\ Goto(w, "book") /\ send' = Delivered(loc[w].mid, loc[w].did)
        /\ UNCHANGED <<jobs, njobs, forced, provider>>
    BY <1>0, <1>24 DEF RecordDelivery, Active, bounds, Local
  <2>2. /\ send'.dispatchedAt = send.dispatchedAt
        /\ send'.draftId \in {send.draftId, loc[w].did}
        /\ loc[w].did = 0 => send'.draftId = send.draftId
        /\ \/ send' = send
           \/ send'.state = "delivered" /\ send'.messageId = loc[w].mid
    BY <1>0, <2>1, DeliveredFacts
  <2>3. SlackOn => SlackRow(send', n, forced)
    BY <1>0, <1>1, <2>1, <2>2 DEF SlackRow, SlackLocal
  <2>4. CASE ~GmailOn
    <3> DEFINE l == [loc[w] EXCEPT !.pc = "book"]
    <3>1. l \in Local /\ l.pc = "book" /\ l.job = loc[w].job /\ Become(w, l)
      <4>1. "book" \in Pcs /\ w \in Actors
        BY <1>0 DEF Pcs, HandlerPcs
      <4> QED BY <1>d, <2>1, <4>1
    <3> HIDE DEF l
    <3>2. SlackLocal(l, send', n)
      BY <3>1 DEF SlackLocal
    <3> QED BY <1>0, <1>1, <2>1, <2>3, <2>4, <3>1, <3>2, Moves DEF provider
  <2>5. CASE GmailOn
    <3>1. send'.draftId = send.draftId
      BY <1>0, <1>2, <2>1, <2>2, <2>5 DEF GmailLocal
    <3> QED BY <1>0, <1>e, <2>1, <2>3, <3>1
  <2> QED BY <2>4, <2>5
<1>25. ASSUME NEW w \in Workers, SetTerminal(w) PROVE SafeInv'
  <2>1. /\ Active(w) /\ UNCHANGED <<jobs, njobs, forced, provider>>
    BY <1>25 DEF SetTerminal, Active, bounds
  <2>2. CASE loc[w].pc = "fail_transient"
    <3>1. send' = Fails("failed_transient") /\ Goto(w, "raise_transient")
      BY <1>25, <2>2 DEF SetTerminal
    <3>2. "failed_transient" \in SettledStates
      BY DEF SettledStates
    <3>3. /\ send'.dispatchedAt = send.dispatchedAt /\ send'.draftId = send.draftId
          /\ send'.messageId = send.messageId
      BY <1>0, <3>1, <3>2, FailedRows
    <3>4. SlackOn => SlackRow(send', n, forced)
      BY <1>0, <1>1, <2>2, <3>3 DEF SlackRow, SlackLocal
    <3> QED BY <1>0, <1>e, <2>1, <3>1, <3>3, <3>4
  <2>3. CASE loc[w].pc = "fail_permanent"
    <3> DEFINE pc == IF loc[w].did # 0 THEN "discard" ELSE "raise_permanent"
               l == [loc[w] EXCEPT !.pc = pc]
    <3>1. send' = Fails("failed_permanent") /\ Goto(w, pc)
      BY <1>25, <2>3 DEF SetTerminal
    <3>2. "failed_permanent" \in SettledStates
      BY DEF SettledStates
    <3>3. /\ send'.dispatchedAt = send.dispatchedAt /\ send'.draftId = send.draftId
          /\ send'.messageId = send.messageId
          /\ send' = send \/ send'.state = "failed_permanent"
      BY <1>0, <3>1, <3>2, FailedRows
    <3>4. SlackOn => SlackRow(send', n, forced)
      BY <1>0, <1>1, <3>3 DEF SlackRow
    <3>5. pc \in {"discard", "raise_permanent"} /\ (pc = "discard" => loc[w].did # 0)
      OBVIOUS
    <3> HIDE DEF pc
    <3>6. l \in Local /\ l.pc = pc /\ l.job = loc[w].job /\ l.did = loc[w].did /\ Become(w, l)
      <4>1. pc \in Pcs /\ w \in Actors
        BY <1>0, <3>5 DEF Pcs, HandlerPcs
      <4> QED BY <1>d, <2>1, <3>1, <4>1
    <3> HIDE DEF l
    <3>7. GmailOn => GmailLocal(l, send')
      BY <1>0, <1>2, <2>3, <3>3, <3>5, <3>6 DEF GmailLocal
    <3>8. GmailOn => GmailRow(send.draftId)'
      BY <1>2, <2>1, <3>3 DEF GmailRow, provider
    <3>9. SlackLocal(l, send', n)
      BY <3>5, <3>6 DEF SlackLocal
    <3> QED BY <1>0, <1>1, <2>1, <3>4, <3>6, <3>7, <3>8, <3>9, Moves DEF provider
  <2> QED BY <1>25, <2>2, <2>3 DEF SetTerminal
<1>26. ASSUME NEW w \in Workers, Discard(w) PROVE SafeInv'
  <2> DEFINE l == [loc[w] EXCEPT !.pc = "raise_permanent"]
  <2>1. /\ Active(w) /\ loc[w].pc = "discard" /\ Goto(w, "raise_permanent")
        /\ gone' = gone \/ gone' = gone \cup {loc[w].did}
        /\ UNCHANGED <<jobs, njobs, forced, send, delivered, wire>>
    BY <1>26 DEF Discard, Active, bounds
  <2>2. l \in Local /\ l.pc = "raise_permanent" /\ l.job = loc[w].job /\ Become(w, l)
    <3>1. "raise_permanent" \in Pcs /\ w \in Actors
      BY <1>0 DEF Pcs
    <3> QED BY <1>d, <2>1, <3>1
  <2> HIDE DEF l
  <2>3. GmailOn => GmailRow(send.draftId)'
    BY <1>0, <1>2, <2>1 DEF GmailRow, GmailLocal
  <2>4. SlackLocal(l, send, n) /\ GmailLocal(l, send)
    BY <2>2 DEF SlackLocal, GmailLocal
  <2> QED BY <1>0, <1>1, <2>1, <2>2, <2>3, <2>4, Moves
(* reconcile_send *)
<1>27. ASSUME NEW p \in Actors, ReconcileLoad(p) PROVE SafeInv'
  <2> DEFINE pc == IF send.state # "in_flight" THEN After(loc[p].ctx, "settled")
                   ELSE IF send.dispatchedAt = NULL THEN After(loc[p].ctx, "not_sent")
                   ELSE IF send.reconciles >= MaxReconciles THEN "rec_doubt"
                   ELSE "rec_bump"
             l == [loc[p] EXCEPT !.did = send.draftId, !.since = send.dispatchedAt, !.pc = pc]
  <2>1. /\ Active(p) /\ Become(p, l) /\ UNCHANGED <<send, jobs, njobs, forced, provider>>
    BY <1>27 DEF ReconcileLoad, Active, bounds
  <2>2. /\ pc \in {"rec_bump", "build", "raise_transient", "finish",
                   "fail_transient", "rec_doubt", "resolve", "requeue"}
        /\ pc \in {"build", "fail_transient"} =>
              send.state = "in_flight" /\ send.dispatchedAt = NULL
        /\ pc = "rec_bump" => send.state = "in_flight" /\ send.dispatchedAt # NULL
    <3>1. After(loc[p].ctx, "settled") \notin {"build", "fail_transient"}
      BY AfterNotSent
    <3>2. \A v \in {"settled", "not_sent"} : After(loc[p].ctx, v) \in
             {"build", "raise_transient", "finish",
                   "fail_transient", "rec_doubt", "resolve", "requeue"}
      BY AfterPc
    <3> QED BY <3>1, <3>2
  <2> HIDE DEF pc
  <2>3. /\ l \in Local /\ l.pc = pc /\ l.did = send.draftId /\ l.job = loc[p].job
        /\ l.since = send.dispatchedAt
    <3>1. pc \in Pcs /\ send.draftId \in Nat /\ send.dispatchedAt \in Int /\ loc[p] \in Local
      BY <1>0, <2>2 DEF Pcs, HandlerPcs, SendRow
    <3> QED BY <3>1 DEF Local
  <2> HIDE DEF l
  <2>4. SlackLocal(l, send, n) /\ GmailLocal(l, send)
    <3>1. SlackLocal(l, send, n)
      BY <2>2, <2>3 DEF SlackLocal
    <3>2. GmailLocal(l, send)
      <4>1. pc = "build" => send.state = "in_flight"
        BY <2>2
      <4> QED BY <2>2, <2>3, <4>1 DEF GmailLocal
    <3> QED BY <3>1, <3>2
  <2> QED BY <1>0, <1>1, <1>2, <2>1, <2>3, <2>4, Moves DEF GmailRow, provider
<1>28. ASSUME NEW p \in Actors, ReconcileBump(p) PROVE SafeInv'
  <2> DEFINE spent == send.reconciles + 1 >= MaxReconciles
             l == [loc[p] EXCEPT !.pc = "rec_probe", !.spent = spent]
  <2>1. /\ Active(p) /\ loc[p].pc = "rec_bump" /\ Become(p, l) /\ send' = Bumped
        /\ UNCHANGED <<jobs, njobs, forced, provider>> /\ spent \in BOOLEAN
    BY <1>28 DEF ReconcileBump, Active, bounds
  <2> HIDE DEF spent
  <2>2. /\ l \in Local /\ l.pc = "rec_probe" /\ l.job = loc[p].job
        /\ l.did = loc[p].did /\ l.since = loc[p].since
    BY <1>0, <2>1 DEF Local, Pcs, HandlerPcs
  <2> HIDE DEF l
  <2>3. /\ send'.state = send.state /\ send'.dispatchedAt = send.dispatchedAt
        /\ send'.draftId = send.draftId /\ send'.messageId = send.messageId
    BY <1>0, <2>1 DEF Bumped, SendRow
  <2>4. SlackOn => SlackRow(send', n, forced) /\ SlackLocal(l, send', n)
    BY <1>0, <1>1, <2>1, <2>2, <2>3 DEF SlackRow, SlackLocal
  <2>5. GmailOn => GmailRow(send.draftId)' /\ GmailLocal(l, send')
    BY <1>0, <1>2, <2>1, <2>2, <2>3 DEF GmailRow, GmailLocal, provider
  <2> QED BY <1>0, <1>1, <2>1, <2>2, <2>4, <2>5, Moves DEF provider
<1>29. ASSUME NEW p \in Actors, ReconcileProbe(p) PROVE SafeInv'
  <2>1. PICK a \in ProbeAnswers(loc[p]) :
           Become(p, [loc[p] EXCEPT !.spent = FALSE, !.since = NULL,
                                    !.mid = a[2], !.pc = Judge(loc[p], a)])
    BY <1>29 DEF ReconcileProbe
  <2> DEFINE pc == Judge(loc[p], a)
             mid == a[2]
             l == [loc[p] EXCEPT !.spent = FALSE, !.since = NULL, !.mid = mid, !.pc = pc]
  <2>2. /\ Active(p) /\ loc[p].pc = "rec_probe" /\ Become(p, l) /\ loc[p] \in Local
        /\ UNCHANGED <<send, jobs, njobs, forced, provider>>
    BY <1>0, <1>29, <2>1 DEF ReconcileProbe, Active, bounds
  <2>3. /\ a[1] \in {"found", "absent", "inconclusive"}
        /\ mid \in Nat /\ (mid # 0 => mid = n)
    BY <1>0, AnswerType
  <2>4. /\ pc \in {"rec_adopt", "build", "raise_transient", "finish",
                   "fail_transient", "rec_doubt", "resolve", "requeue"}
        /\ pc = "rec_adopt" => mid # 0
    BY <2>2, <2>3, JudgePc
  <2>5. SlackOn /\ pc \in {"build", "fail_transient"} => n <= loc[p].since
    BY <2>2, <2>3, JudgeAbsent, AbsentOnSlack
  <2>a. GmailOn => pc # "rec_adopt"
    BY NoneAdopted
  <2> HIDE DEF pc, mid
  <2>6. l \in Local /\ l.pc = pc /\ l.mid = mid /\ l.did = loc[p].did /\ l.job = loc[p].job
    <3>1. pc \in Pcs /\ mid \in Int /\ NULL \in Int
      BY <2>3, <2>4, Sentinels DEF Pcs, HandlerPcs
    <3> QED BY <2>2, <3>1 DEF Local
  <2> HIDE DEF l
  <2>7. SlackOn => SlackLocal(l, send, n)
    <3> SUFFICES ASSUME SlackOn PROVE SlackLocal(l, send, n)
      OBVIOUS
    <3>1. /\ send.state = "in_flight" /\ send.dispatchedAt # NULL
          /\ loc[p].since = send.dispatchedAt /\ send.dispatchedAt <= n
      BY <1>0, <1>1, <2>2 DEF SlackLocal, SlackRow
    <3>2. pc \in {"build", "fail_transient"} => send.dispatchedAt = n
      BY <1>0, <2>5, <3>1 DEF SendRow
    <3>3. pc = "rec_adopt" => mid \in 1..n
      BY <1>0, <2>3, <2>4
    <3> QED BY <2>4, <2>6, <3>1, <3>2, <3>3 DEF SlackLocal
  <2>8. GmailOn => GmailLocal(l, send)
    BY <1>0, <1>2, <2>2, <2>4, <2>6, <2>a DEF GmailLocal
  <2> QED BY <1>0, <1>1, <1>2, <2>2, <2>6, <2>7, <2>8, Moves DEF GmailRow, provider
<1>f. \A ctx : After(ctx, "settled") \in {"finish", "raise_transient", "resolve", "requeue"}
  BY DEF After
<1>30. ASSUME NEW p \in Actors, ReconcileAdopt(p) PROVE SafeInv'
  <2> DEFINE pc == After(loc[p].ctx, "settled")
             l == [loc[p] EXCEPT !.pc = pc]
  <2>1. /\ Active(p) /\ loc[p].pc = "rec_adopt" /\ loc[p].did \in Nat /\ loc[p].mid \in Int
        /\ Goto(p, pc) /\ send' = Delivered(loc[p].mid, loc[p].did)
        /\ UNCHANGED <<jobs, njobs, forced, provider>>
    BY <1>0, <1>30 DEF ReconcileAdopt, Active, bounds, Local
  <2>2. pc \in {"finish", "raise_transient", "resolve", "requeue"}
    BY <1>f
  <2> HIDE DEF pc
  <2>3. /\ send'.dispatchedAt = send.dispatchedAt
        /\ send'.draftId \in {send.draftId, loc[p].did}
        /\ \/ send' = send
           \/ send'.state = "delivered" /\ send'.messageId = loc[p].mid
    BY <1>0, <2>1, DeliveredFacts
  <2>4. SlackOn => SlackRow(send', n, forced)
    BY <1>0, <1>1, <2>1, <2>3 DEF SlackRow, SlackLocal
  <2>5. CASE ~GmailOn
    <3>1. pc \in Pcs
      BY <2>2 DEF Pcs
    <3>2. l \in Local /\ l.pc = pc /\ l.job = loc[p].job /\ Become(p, l)
      BY <1>d, <2>1, <3>1
    <3> HIDE DEF l
    <3>3. SlackLocal(l, send', n)
      BY <2>2, <3>2 DEF SlackLocal
    <3> QED BY <1>0, <1>1, <2>1, <2>4, <2>5, <3>2, <3>3, Moves DEF provider
  <2>6. CASE GmailOn
    <3>1. send'.draftId = send.draftId
      BY <1>0, <1>2, <2>1, <2>3, <2>6 DEF GmailLocal
    <3> QED BY <1>0, <1>e, <2>1, <2>2, <2>4, <3>1
  <2> QED BY <2>5, <2>6
<1>31. ASSUME NEW p \in Actors, ReconcileDoubt(p) PROVE SafeInv'
  <2> DEFINE pc == After(loc[p].ctx, "settled")
  <2>1. /\ Active(p) /\ Goto(p, pc) /\ send' = Doubted
        /\ UNCHANGED <<jobs, njobs, forced, provider>>
    BY <1>0, <1>31 DEF ReconcileDoubt, Active, bounds
  <2>2. pc \in {"finish", "raise_transient", "resolve", "requeue"}
    BY <1>f
  <2> HIDE DEF pc
  <2>3. "uncertain" \in SettledStates
    BY DEF SettledStates
  <2>4. /\ send'.dispatchedAt = send.dispatchedAt /\ send'.draftId = send.draftId
        /\ send'.messageId = send.messageId
        /\ send' = send \/ send'.state = "uncertain"
    <3>1. send.state = "in_flight" /\ send.dispatchedAt = NULL => Doubted = send
      BY DEF Doubted
    <3> QED BY <1>0, <2>1, <2>3, <3>1, FailedRows
  <2>5. SlackOn => SlackRow(send', n, forced)
    BY <1>0, <1>1, <2>4 DEF SlackRow
  <2> QED BY <1>e, <2>1, <2>2, <2>4, <2>5
<1>32. CASE UNCHANGED vars
  BY <1>1, <1>32, <1>a DEF vars, provider
<1>33. ASSUME NEW p \in Actors, Reconcile(p) PROVE SafeInv'
  BY <1>27, <1>28, <1>29, <1>30, <1>31, <1>33 DEF Reconcile
<1>34. ASSUME NEW w \in Workers, RunSend(w) PROVE SafeInv'
  <2>1. w \in Actors
    BY <1>0
  <2> QED BY <1>15, <1>18, <1>20, <1>21, <1>22, <1>23, <1>24, <1>25, <1>26, <1>33, <1>34,
             <2>1 DEF RunSend
<1>35. ASSUME NEW k \in Callers, Operator(k) PROVE SafeInv'
  BY <1>8, <1>9, <1>10, <1>35 DEF Operator
<1> QED
  BY <1>0, <1>4, <1>5, <1>6, <1>7, <1>11, <1>12, <1>13, <1>16, <1>17, <1>19, <1>32, <1>33,
     <1>34, <1>35 DEF Next

-----------------------------------------------------------------------------
(* The invariant says what it was made for *)

LEMMA SlackConsequences ==
    ASSUME SlackOn, TypeInv, SafeInv
    PROVE  /\ AtMostOnce /\ NullMeansUnsent /\ AskedBeforeDispatch
           /\ FailedTransientMeansAbsent /\ EvidenceIsReal
<1> DEFINE n == Len(delivered)
<1>1. /\ SlackRow(send, n, forced) /\ \A p \in Actors : SlackLocal(loc[p], send, n)
      /\ n \in Nat /\ forced \in Nat /\ send \in SendRow
      /\ Workers \subseteq Actors
      /\ send.state = "delivered" => send.messageId # 0
  BY DEF SafeInv, SlackInv, TypeInv, SendOK, ProviderOK, OthersOK, Actors
<1>2. AtMostOnce
  BY <1>1 DEF AtMostOnce, SlackRow, SendRow
<1>3. NullMeansUnsent
  BY <1>1 DEF NullMeansUnsent, SlackRow
<1>4. AskedBeforeDispatch
  BY <1>1 DEF AskedBeforeDispatch, SlackLocal
<1>5. FailedTransientMeansAbsent
  BY <1>1 DEF FailedTransientMeansAbsent, SentSince, SlackRow
<1>6. EvidenceIsReal
  BY <1>1 DEF EvidenceIsReal, SlackRow
<1> QED BY <1>2, <1>3, <1>4, <1>5, <1>6

LEMMA GmailConsequences ==
    ASSUME GmailOn, SafeInv
    PROVE  GmailNeverTwice /\ RecordedDraftOnly
  BY DEF SafeInv, GmailInv, GmailRow, GmailNeverTwice, RecordedDraftOnly

LEMMA SafeInvariant ==
    ASSUME "zombie" \notin Faults
    PROVE  Spec => [](TypeInv /\ SafeInv)
<1>1. Init => TypeInv /\ SafeInv
  BY TypeInit, SafeInit
<1>2. TypeInv /\ SafeInv /\ [Next]_vars => (TypeInv /\ SafeInv)'
  BY TypeNext, SafeNext
<1> QED BY <1>1, <1>2, PTL DEF Spec

(* The partition predicate of the claim and a lease longer than a handler  *)
(* may run leave one execution of a send at a time, whatever number of     *)
(* workers, requests, retries and crashes there are.                       *)
THEOREM OneExecutionAtATime ==
    ASSUME "zombie" \notin Faults
    PROVE  Spec => []OneExecution
<1>1. SafeInv => OneExecution
  BY DEF SafeInv, Exclusive
<1> QED BY <1>1, SafeInvariant, PTL

(* Draft-then-send on Gmail: the row's draft id is never replaced and a    *)
(* draft is sent once, so there is at most one delivery, forced resends    *)
(* and late acceptances included.                                          *)
THEOREM GmailSendsOnce ==
    ASSUME "zombie" \notin Faults, Channel = "gmail"
    PROVE  Spec => []GmailNeverTwice
<1>1. SafeInv => GmailNeverTwice
  BY GmailConsequences DEF GmailOn
<1> QED BY <1>1, SafeInvariant, PTL

(* prepare, send and discard act only upon the Gmail draft the row names:  *)
(* one orphaned by a crash before the commit is never sent or deleted.     *)
THEOREM GmailRecordedDraftOnly ==
    ASSUME "zombie" \notin Faults, Channel = "gmail"
    PROVE  Spec => []RecordedDraftOnly
<1>1. SafeInv => RecordedDraftOnly
  BY GmailConsequences DEF GmailOn
<1> QED BY <1>1, SafeInvariant, PTL

(* Commit, call, record on Slack: a message beyond the first was ordered   *)
(* by an operator, as long as a probe sees everything since the dispatch.  *)
THEOREM SlackAtMostOnce ==
    ASSUME "zombie" \notin Faults, SlackOn
    PROVE  Spec => []AtMostOnce
<1>1. TypeInv /\ SafeInv => AtMostOnce
  BY SlackConsequences
<1> QED BY <1>1, SafeInvariant, PTL

(* dispatched_at IS NULL means that nothing reached Slack for which no     *)
(* operator answers: what lets recovery dispatch such a row unasked.       *)
THEOREM SlackNullMeansUnsent ==
    ASSUME "zombie" \notin Faults, SlackOn
    PROVE  Spec => []NullMeansUnsent
<1>1. TypeInv /\ SafeInv => NullMeansUnsent
  BY SlackConsequences
<1> QED BY <1>1, SafeInvariant, PTL

(* A worker at its call to Slack holds a row in flight whose recorded      *)
(* dispatch nothing has answered yet.                                      *)
THEOREM SlackAsksFirst ==
    ASSUME "zombie" \notin Faults, SlackOn
    PROVE  Spec => []AskedBeforeDispatch
<1>1. TypeInv /\ SafeInv => AskedBeforeDispatch
  BY SlackConsequences
<1> QED BY <1>1, SafeInvariant, PTL

(* failed_transient is written only over a dispatch Slack never accepted.  *)
THEOREM SlackFailureMeansAbsent ==
    ASSUME "zombie" \notin Faults, SlackOn
    PROVE  Spec => []FailedTransientMeansAbsent
<1>1. TypeInv /\ SafeInv => FailedTransientMeansAbsent
  BY SlackConsequences
<1> QED BY <1>1, SafeInvariant, PTL

(* A delivered row names a message Slack accepted, or an attestation.      *)
THEOREM SlackEvidence ==
    ASSUME "zombie" \notin Faults, SlackOn
    PROVE  Spec => []EvidenceIsReal
<1>1. TypeInv /\ SafeInv => EvidenceIsReal
  BY SlackConsequences
<1> QED BY <1>1, SafeInvariant, PTL

=============================================================================
