------------------------ MODULE SafeSendRefinement -------------------------
(***************************************************************************)
(* SafeSend on Slack implements AbstractSend, and on Gmail it implements   *)
(* AbstractDraftSend: every step of a worker, the sweeper, an operator or  *)
(* the provider is a step of the abstract gate or changes nothing it       *)
(* shows. The assumptions are those of SafeSendSafety: no zombies, and on  *)
(* Slack no late acceptances and a probe that sees past other traffic.     *)
(***************************************************************************)
EXTENDS SafeSendSafety

Step == [Abstract!Proceed]_<<send.state, Shown, Len(delivered), forced>>

(* An operator's request under way was admitted by a row that somebody had *)
(* confirmed; what the row has become since, the request does not know.    *)
OperatorInv ==
    \A k \in Callers : call[k].op \in {"retry", "marked_delivered", "forced_resend"}
                         => send.state # "none"

-----------------------------------------------------------------------------
(* What the abstract gate promises by itself *)

(* A message beyond the first was ordered: the abstract gate has nothing   *)
(* else to show for one. With the refinement below, this is a second way   *)
(* to SlackAtMostOnce, by the outline of the protocol alone.               *)
THEOREM GateAtMostOnce == ImplementsGate => []AtMostOnce
<1> DEFINE Answered == /\ Len(delivered) \in Nat /\ forced \in Nat
                       /\ Len(delivered) <= forced + (IF Shown = "answered" THEN 1 ELSE 0)
<1>1. Abstract!Unsent => Answered
  BY DEF Abstract!Unsent
<1>2. Answered /\ Step => Answered'
  <2> SUFFICES ASSUME Answered, Step PROVE Answered'
    OBVIOUS
  <2>1. CASE Abstract!Confirm \/ Abstract!Settle \/ Abstract!GiveUp \/ Abstract!Refuse
             \/ Abstract!Doubt \/ Abstract!Retry \/ Abstract!Attest
    BY <2>1 DEF Abstract!Confirm, Abstract!Settle, Abstract!GiveUp, Abstract!Refuse,
                Abstract!Doubt, Abstract!Retry, Abstract!Attest
  <2>2. CASE Abstract!Dispatch
    BY <2>2 DEF Abstract!Dispatch
  <2>3. CASE Abstract!Arrive
    BY <2>3 DEF Abstract!Arrive
  <2>4. CASE Abstract!Resend
    BY <2>4 DEF Abstract!Resend
  <2>5. CASE UNCHANGED <<send.state, Shown, Len(delivered), forced>>
    BY <2>5
  <2> QED BY <2>1, <2>2, <2>3, <2>4, <2>5 DEF Step, Abstract!Proceed
<1>3. Answered => AtMostOnce
  BY DEF AtMostOnce
<1> QED BY <1>1, <1>2, <1>3, PTL DEF ImplementsGate, Abstract!Gate, Step
-----------------------------------------------------------------------------
(* The refinement, step by step *)

(* A write to the row that leaves dispatched_at and the provider alone is  *)
(* a step of the gate if it moves the state as the gate would.             *)
LEMMA RowMoves ==
    ASSUME UNCHANGED <<delivered, forced>>, send'.dispatchedAt = send.dispatchedAt,
           \/ send'.state = send.state
           \/ send.state = "none" /\ send'.state = "in_flight"
           \/ send.state = "in_flight" /\ Len(delivered) > 0 /\ send'.state = "delivered"
           \/ /\ send.state = "in_flight" /\ Shown # "answered"
              /\ send'.state = "failed_transient"
           \/ send.state = "in_flight" /\ send'.state = "failed_permanent"
           \/ send.state = "in_flight" /\ Shown # "none" /\ send'.state = "uncertain"
           \/ send.state # "none" /\ send'.state = "in_flight"
           \/ send.state = "uncertain" /\ send'.state = "delivered"
    PROVE  Step
<1>1. Shown' = Shown
  BY DEF Shown, SentSince
<1> QED
  BY <1>1 DEF Step, Abstract!Proceed, Abstract!Confirm, Abstract!Settle, Abstract!GiveUp,
              Abstract!Refuse, Abstract!Doubt, Abstract!Retry, Abstract!Attest

(* Nothing happens to what the gate shows. *)
LEMMA Stutters == ASSUME UNCHANGED <<send, delivered, forced>> PROVE Step
  BY RowMoves

(* An operator's writes: the row is reopened with its dispatch on record,  *)
(* attested to, or resent with its dispatch forgotten and an order booked. *)
LEMMA OperatorSteps ==
    ASSUME TypeInv, OperatorInv, NEW k \in Callers, Operator(k)
    PROVE  Step
<1>1. send \in SendRow /\ NoContent \in Contents \cup {NoContent}
      /\ (send.state = "uncertain" => send.dispatchedAt # NULL)
  BY DEF TypeInv, SendOK
<1>2. CASE OperatorRetry(k)
  <2>1. send'.state = "in_flight" /\ send'.dispatchedAt = send.dispatchedAt
        /\ UNCHANGED <<delivered, forced>>
    BY <1>1, <1>2, RequestRows DEF OperatorRetry, provider, bounds
  <2>2. send.state # "none"
    BY <1>2 DEF OperatorRetry, OperatorInv
  <2> QED BY <2>1, <2>2, RowMoves
<1>3. CASE MarkDelivered(k)
  <2>1. send' = AttestedRow /\ UNCHANGED <<delivered, forced>>
    BY <1>3 DEF MarkDelivered, provider, bounds
  <2>2. CASE send.state = "uncertain"
    BY <1>1, <2>1, <2>2, AttestedRowFacts, RowMoves
  <2>3. CASE send.state # "uncertain"
    BY <1>1, <2>1, <2>3, AttestedRowFacts, Stutters
  <2> QED BY <2>2, <2>3
<1>4. CASE ForcedResend(k)
  <2>1. CASE send.state = "uncertain"
    <3>1. send'.state = "in_flight" /\ send'.dispatchedAt = NULL
          /\ delivered' = delivered /\ forced' = forced + 1
      BY <1>1, <1>4, <2>1, RequestRows DEF ForcedResend, provider
    <3>2. Shown' = "none"
      BY <3>1 DEF Shown
    <3> QED BY <2>1, <3>1, <3>2 DEF Step, Abstract!Proceed, Abstract!Resend
  <2>2. CASE send.state # "uncertain"
    BY <1>4, <2>2, Stutters DEF ForcedResend, provider
  <2> QED BY <2>1, <2>2
<1> QED BY <1>2, <1>3, <1>4 DEF Operator

(* The reconciliation of a worker or of the sweeper: delivered is written  *)
(* over a message found, uncertain over a dispatch that is on record.      *)
LEMMA ReconcileSteps ==
    ASSUME SlackOn, TypeInv, SafeInv, NEW p \in Actors, Reconcile(p)
    PROVE  Step
<1>1. /\ send \in SendRow /\ loc[p] \in Local /\ Len(delivered) \in Nat
      /\ SlackLocal(loc[p], send, Len(delivered)) /\ "uncertain" \in SettledStates
  BY DEF TypeInv, Locals, SendOK, ProviderOK, SafeInv, SlackInv, SettledStates
<1>2. UNCHANGED <<delivered, forced>>
  BY DEF Reconcile, ReconcileLoad, ReconcileBump, ReconcileProbe, ReconcileAdopt,
         ReconcileDoubt, provider, bounds
<1>3. CASE ReconcileLoad(p) \/ ReconcileProbe(p)
  BY <1>2, <1>3, Stutters DEF ReconcileLoad, ReconcileProbe
<1>4. CASE ReconcileBump(p)
  <2>1. send' = Bumped
    BY <1>4 DEF ReconcileBump
  <2> QED BY <1>1, <1>2, <2>1, RequestRows, RowMoves
<1>5. CASE ReconcileAdopt(p)
  <2>1. send' = Delivered(loc[p].mid, loc[p].did) /\ loc[p].mid \in 1..Len(delivered)
        /\ loc[p].mid \in Int /\ loc[p].did \in Nat
    BY <1>1, <1>5 DEF ReconcileAdopt, SlackLocal, Local
  <2>2. send'.dispatchedAt = send.dispatchedAt /\ Len(delivered) > 0
        /\ (send.state # "in_flight" => send' = send)
        /\ (send.state = "in_flight" => send'.state = "delivered")
    BY <1>1, <2>1, DeliveredFacts
  <2> QED BY <1>2, <2>2, RowMoves
<1>6. CASE ReconcileDoubt(p)
  <2>1. send' = Doubted
    BY <1>6 DEF ReconcileDoubt
  <2>2. CASE send.state = "in_flight" /\ send.dispatchedAt # NULL
    <3>1. send'.state = "uncertain" /\ send'.dispatchedAt = send.dispatchedAt
      BY <1>1, <2>1, <2>2, FailedRows
    <3>2. Shown # "none"
      BY <2>2 DEF Shown
    <3> QED BY <1>2, <2>2, <3>1, <3>2, RowMoves
  <2>3. CASE ~(send.state = "in_flight" /\ send.dispatchedAt # NULL)
    BY <1>2, <2>1, <2>3, Stutters DEF Doubted
  <2> QED BY <2>2, <2>3
<1> QED BY <1>3, <1>4, <1>5, <1>6 DEF Reconcile

(* The worker: the dispatch is recorded first, the provider accepts one    *)
(* message for it, and what is then written is what the gate allows.       *)
LEMMA WorkerSteps ==
    ASSUME SlackOn, TypeInv, SafeInv, NEW w \in Workers, RunSend(w)
    PROVE  Step
<1>1. /\ w \in Actors /\ send \in SendRow /\ loc[w] \in Local
      /\ delivered \in Seq(Contents) /\ Len(delivered) \in Nat
      /\ SlackLocal(loc[w], send, Len(delivered))
      /\ send.dispatchedAt # NULL => send.dispatchedAt \in 0..Len(delivered)
      /\ loc[w].mid \in Int /\ loc[w].did \in Nat
  BY DEF Actors, TypeInv, Locals, SendOK, ProviderOK, SafeInv, SlackInv, SlackRow, SendRow,
         Local
<1>2. CASE LoadSend(w) \/ Build(w) \/ RecordSuccess(w) \/ Discard(w)
  BY <1>2, Stutters DEF LoadSend, Build, RecordSuccess, Discard, provider, bounds
<1>3. CASE CommitDispatchAttempt(w)
  <2>1. send' = Dispatched(loc[w].did) /\ UNCHANGED <<delivered, forced>>
        /\ send.state = "in_flight" /\ send.dispatchedAt \in {NULL, Len(delivered)}
    BY <1>1, <1>3 DEF CommitDispatchAttempt, SlackLocal, provider, bounds
  <2>2. send'.state = send.state
    BY <1>1, <2>1, DispatchedFacts
  <2>3. CASE send.dispatchedAt # NULL
    <3>1. send'.dispatchedAt = send.dispatchedAt
      BY <1>1, <2>1, <2>3, DispatchedFacts
    <3> QED BY <2>1, <2>2, <3>1, RowMoves
  <2>4. CASE send.dispatchedAt = NULL
    <3>1. send'.dispatchedAt = Len(delivered)
      BY <1>1, <2>1, <2>4, DispatchedFacts
    <3>2. Shown = "none" /\ Shown' = "open"
      BY <1>1, <2>1, <2>4, <3>1 DEF Shown, SentSince, NULL
    <3> QED BY <2>1, <2>2, <3>2 DEF Step, Abstract!Proceed, Abstract!Dispatch
  <2> QED BY <2>3, <2>4
<1>4. CASE ProviderSend(w)
  <2>1. /\ send' = send /\ forced' = forced
        /\ send.state = "in_flight" /\ send.dispatchedAt = Len(delivered)
    BY <1>1, <1>4 DEF ProviderSend, SlackLocal, bounds
  <2>2. CASE Accept(loc[w].did, loc[w].content)
    <3>1. Len(delivered') = Len(delivered) + 1
      BY <1>1, <2>2 DEF SlackOn, Accept
    <3>2. Shown = "open" /\ Shown' = "answered"
      BY <1>1, <2>1, <3>1 DEF Shown, SentSince, NULL
    <3> QED BY <2>1, <3>1, <3>2 DEF Step, Abstract!Proceed, Abstract!Arrive
  <2>3. CASE UNCHANGED delivered
    BY <2>1, <2>3, Stutters
  <2> QED BY <1>4, <2>2, <2>3 DEF ProviderSend, SendAccepted, SendAnswerLost, SendGarbled,
                                  SendRefused, SendDelayed
<1>5. CASE RecordDelivery(w)
  <2>1. send' = Delivered(loc[w].mid, loc[w].did) /\ UNCHANGED <<delivered, forced>>
        /\ loc[w].mid \in 1..Len(delivered)
    BY <1>1, <1>5 DEF RecordDelivery, SlackLocal, provider, bounds
  <2>2. send'.dispatchedAt = send.dispatchedAt /\ Len(delivered) > 0
        /\ (send.state # "in_flight" => send' = send)
        /\ (send.state = "in_flight" => send'.state = "delivered")
    BY <1>1, <2>1, DeliveredFacts
  <2> QED BY <2>1, <2>2, RowMoves
<1>6. CASE SetTerminal(w)
  <2>1. UNCHANGED <<delivered, forced>>
    BY <1>6 DEF SetTerminal, provider, bounds
  <2>2. CASE loc[w].pc = "fail_transient"
    <3>1. send' = Fails("failed_transient") /\ send.state = "in_flight"
          /\ send.dispatchedAt \in {NULL, Len(delivered)}
      BY <1>1, <1>6, <2>2 DEF SetTerminal, SlackLocal
    <3>2. "failed_transient" \in SettledStates
      BY DEF SettledStates
    <3>3. send'.state = "failed_transient" /\ send'.dispatchedAt = send.dispatchedAt
      BY <1>1, <3>1, <3>2, FailedRows
    <3>4. Shown # "answered"
      BY <1>1, <3>1 DEF Shown, SentSince
    <3> QED BY <2>1, <3>1, <3>3, <3>4, RowMoves
  <2>3. CASE loc[w].pc = "fail_permanent"
    <3>1. send' = Fails("failed_permanent")
      BY <1>6, <2>3 DEF SetTerminal
    <3>2. "failed_permanent" \in SettledStates
      BY DEF SettledStates
    <3>3. send'.dispatchedAt = send.dispatchedAt
          /\ (send.state # "in_flight" => send' = send)
          /\ (send.state = "in_flight" => send'.state = "failed_permanent")
      BY <1>1, <3>1, <3>2, FailedRows
    <3> QED BY <2>1, <3>3, RowMoves
  <2> QED BY <1>6, <2>2, <2>3 DEF SetTerminal
<1>7. CASE Reconcile(w)
  BY <1>1, <1>7, ReconcileSteps
<1>8. CASE Succeed(w) \/ Fail(w)
  BY <1>8, Stutters DEF Succeed, Fail, FinishJob, provider, bounds
<1> QED BY <1>2, <1>3, <1>4, <1>5, <1>6, <1>7, <1>8 DEF RunSend

(* Every step of the system is a step of the gate or shows nothing.        *)
LEMMA StepsAsGate ==
    ASSUME SlackOn, TypeInv, SafeInv, OperatorInv, [Next]_vars
    PROVE  Step
<1>1. ASSUME NEW c \in Contents, UpdateDraft(c) PROVE Step
  BY <1>1, Stutters DEF UpdateDraft, provider, bounds
<1>2. ASSUME NEW k \in Callers, SendDraft(k) PROVE Step
  BY <1>2, Stutters DEF SendDraft, provider, bounds
<1>3. ASSUME NEW k \in Callers, ClaimSend(k) PROVE Step
  <2>1. /\ send \in SendRow /\ call[k].digest \in Contents \cup {NoContent}
        /\ UNCHANGED <<delivered, forced>>
    BY <1>3 DEF TypeInv, SendOK, OthersOK, Call, ClaimSend, provider, bounds
  <2>2. CASE send.state = "none"
    <3>1. send' = Claimed(call[k].digest)
      BY <1>3, <2>2 DEF ClaimSend
    <3>2. send'.state = "in_flight" /\ send'.dispatchedAt = send.dispatchedAt
      BY <2>1, <3>1, RequestRows
    <3> QED BY <2>1, <2>2, <3>2, RowMoves
  <2>3. CASE send.state # "none"
    BY <1>3, <2>1, <2>3, Stutters DEF ClaimSend
  <2> QED BY <2>2, <2>3
<1>4. ASSUME NEW k \in Callers, NEW op, NEW states, OperatorLoads(k, op, states) PROVE Step
  BY <1>4, Stutters DEF OperatorLoads, provider
<1>5. ASSUME NEW w \in Workers,
             (\E j \in Jobs : Claim(w, j)) \/ CancelHandler(w) \/ DbError(w)
      PROVE  Step
  BY <1>5, Stutters DEF Claim, CancelHandler, DbError, provider, bounds
<1>6. CASE SweepCommit \/ \E j \in Jobs : SweepStale(j)
  BY <1>6, Stutters DEF SweepCommit, SweepStale, provider, bounds
<1>7. ASSUME NEW p \in Actors, Crash(p) PROVE Step
  BY <1>7, Stutters DEF Crash, provider
<1>8. ASSUME NEW r \in wire, LateAccept(r) PROVE Step
  BY <1>8 DEF SafeInv
<1>9. CASE UNCHANGED vars
  BY <1>9, Stutters DEF vars
<1> QED BY <1>1, <1>2, <1>3, <1>4, <1>5, <1>6, <1>7, <1>8, <1>9, OperatorSteps,
           ReconcileSteps, WorkerSteps DEF Next, Actors

(* The state of a send never returns to none: neither gate has such a step.*)
LEMMA OperatorNext ==
    ASSUME TypeInv, OperatorInv, [Next]_vars,
           send.state # "none" => send'.state # "none"
    PROVE  OperatorInv'
<1>1. send.state # "none" => send'.state # "none"
  OBVIOUS
<1>2. SUFFICES ASSUME NEW k \in Callers,
                      call'[k].op \in {"retry", "marked_delivered", "forced_resend"}
               PROVE  send'.state # "none"
  BY DEF OperatorInv
<1>3. call \in [Callers -> Call]
  BY DEF TypeInv, OthersOK
<1>4. CASE call'[k] = call[k]
  BY <1>1, <1>2, <1>4 DEF OperatorInv
<1>5. ASSUME NEW h \in Callers, call' = [call EXCEPT ![h] = NoCall] PROVE send'.state # "none"
  BY <1>2, <1>3, <1>4, <1>5 DEF NoCall
<1>6. ASSUME NEW h \in Callers, SendDraft(h) PROVE send'.state # "none"
  BY <1>2, <1>3, <1>4, <1>6 DEF SendDraft
<1>7. ASSUME NEW h \in Callers, NEW op, NEW states, "none" \notin states,
             OperatorLoads(h, op, states)
      PROVE  send'.state # "none"
  BY <1>1, <1>7 DEF OperatorLoads
<1>8. "none" \notin FailedStates /\ "none" \notin {"uncertain"}
  BY DEF FailedStates
<1>9. ASSUME UNCHANGED call PROVE send'.state # "none"
  BY <1>4, <1>9
<1>10. ASSUME NEW h \in Callers, ClaimSend(h) \/ Operator(h) PROVE send'.state # "none"
  BY <1>5, <1>10 DEF ClaimSend, Operator, OperatorRetry, MarkDelivered, ForcedResend
<1>11. ASSUME NEW p \in Actors, Reconcile(p) PROVE UNCHANGED call
  BY <1>11 DEF Reconcile, ReconcileLoad, ReconcileBump, ReconcileProbe, ReconcileAdopt,
               ReconcileDoubt
<1>12. ASSUME NEW w \in Workers, RunSend(w) PROVE UNCHANGED call
  BY <1>11, <1>12 DEF RunSend, LoadSend, Build, CommitDispatchAttempt, ProviderSend,
     RecordDelivery, RecordSuccess, SetTerminal, Discard, Succeed, Fail, FinishJob, Actors
<1>13. ASSUME NEW w \in Workers,
              (\E j \in Jobs : Claim(w, j)) \/ CancelHandler(w) \/ DbError(w)
       PROVE  UNCHANGED call
  BY <1>13 DEF Claim, CancelHandler, DbError
<1>14. CASE \/ SweepCommit \/ \E j \in Jobs : SweepStale(j)
            \/ \E c \in Contents : UpdateDraft(c)
            \/ \E p \in Actors : Crash(p)
            \/ \E r \in wire : LateAccept(r)
            \/ UNCHANGED vars
  BY <1>9, <1>14 DEF SweepCommit, SweepStale, UpdateDraft, Crash, LateAccept, vars
<1> QED BY <1>6, <1>7, <1>8, <1>9, <1>10, <1>11, <1>12, <1>13, <1>14 DEF Next, Actors

(* SafeSend on Slack implements AbstractSend: with any number of workers,  *)
(* requests, attempts, probes and crashes, and whatever handlers are cut   *)
(* short, statements raise and answers are unreadable, the provider is     *)
(* called only for a dispatch on record that nothing has answered, failure *)
(* is written only while none has, and only operators reopen.              *)
THEOREM SendImplementsGate ==
    ASSUME "zombie" \notin Faults, SlackOn
    PROVE  Spec => ImplementsGate
<1>1. Init => Abstract!Unsent
  BY DEF Init, Abstract!Unsent, Shown, NULL
<1>2. Init => OperatorInv
  BY DEF Init, OperatorInv, NoCall
<1>3. Step => (send.state # "none" => send'.state # "none")
  BY DEF Step, Abstract!Proceed, Abstract!Confirm, Abstract!Dispatch, Abstract!Arrive,
         Abstract!Settle, Abstract!GiveUp, Abstract!Refuse, Abstract!Doubt,
         Abstract!Retry, Abstract!Attest, Abstract!Resend
<1>4. TypeInv /\ SafeInv /\ OperatorInv /\ [Next]_vars => Step /\ OperatorInv'
  BY <1>3, StepsAsGate, OperatorNext
<1> QED BY <1>1, <1>2, <1>4, SafeInvariant, PTL DEF Spec, ImplementsGate, Abstract!Gate, Step
-----------------------------------------------------------------------------
(* Gmail: what the abstract gate promises by itself *)

DraftStep == [AbstractDraft!Proceed]_<<send.state, Recorded, send.draftId \in gone, delivered>>

(* What the recipient has is the draft on record, once, or nothing yet.    *)
SentAsRecorded == delivered = <<>> \/ delivered = <<Recorded>>

(* The first message, as a sequence and as a number. *)
LEMMA AppendToNone ==
    Len(<<>>) = 0 /\ \A c : Append(<<>>, c) = <<c>> /\ Len(<<c>>) = 1
<1>1. ASSUME NEW c PROVE Append(<<>>, c) = <<c>>
  OBVIOUS
<1>2. ASSUME NEW c PROVE Len(<<c>>) = 1
  OBVIOUS
<1> QED BY <1>1, <1>2

(* A draft is spent when it is sent, so it is sent once; and as the one on *)
(* record is not replaced, it still says what the recipient has.           *)
LEMMA GateSendsTheRecord == ImplementsDraftGate => [](SentAsRecorded /\ GmailNeverTwice)
<1> DEFINE Said == \/ delivered = <<>>
                   \/ /\ send.draftId \in gone /\ Recorded # NoContent
                      /\ delivered = <<Recorded>>
<1>1. AbstractDraft!Unsent => Said
  BY DEF AbstractDraft!Unsent
<1>2. Said /\ DraftStep => Said'
  <2> SUFFICES ASSUME Said, DraftStep PROVE Said'
    OBVIOUS
  <2>1. CASE \/ AbstractDraft!Confirm \/ AbstractDraft!Settle \/ AbstractDraft!GiveUp
             \/ AbstractDraft!Reopen \/ AbstractDraft!Attest
             \/ UNCHANGED <<send.state, Recorded, send.draftId \in gone, delivered>>
    BY <2>1 DEF AbstractDraft!Confirm, AbstractDraft!Settle, AbstractDraft!GiveUp,
                AbstractDraft!Reopen, AbstractDraft!Attest
  <2>2. ASSUME NEW c \in Contents, AbstractDraft!Record(c) PROVE Said'
    BY <2>2 DEF AbstractDraft!Record
  <2>3. CASE AbstractDraft!Arrive
    <3>1. delivered' = <<Recorded>>
      BY <2>3, AppendToNone DEF AbstractDraft!Arrive
    <3> QED BY <2>3, <3>1 DEF AbstractDraft!Arrive
  <2>4. CASE AbstractDraft!Discard
    BY <2>4 DEF AbstractDraft!Discard
  <2> QED BY <2>1, <2>2, <2>3, <2>4 DEF DraftStep, AbstractDraft!Proceed
<1>3. Said => SentAsRecorded
  BY DEF SentAsRecorded
<1>4. SentAsRecorded => Len(delivered) <= 1
  <2>1. Len(delivered) = 0 \/ Len(delivered) = 1 => Len(delivered) <= 1
    OBVIOUS
  <2>2. SentAsRecorded => Len(delivered) = 0 \/ Len(delivered) = 1
    BY AppendToNone, Zenon DEF SentAsRecorded
  <2> QED BY <2>1, <2>2
<1>5. Said => SentAsRecorded /\ GmailNeverTwice
  BY <1>3, <1>4 DEF GmailNeverTwice
<1> QED BY <1>1, <1>2, <1>5, PTL DEF ImplementsDraftGate, AbstractDraft!Gate, DraftStep

-----------------------------------------------------------------------------
(* Gmail: the refinement, step by step *)

(* A dispatch is on record only with the draft that it sends. *)
Drafted == send.dispatchedAt # NULL => send.draftId # 0

(* A draft is on record when its id is, and says what it was made with.    *)
LEMMA RecordedFacts ==
    ASSUME TypeInv
    PROVE  /\ send.draftId = 0 => Recorded = NoContent
           /\ send.draftId # 0 => /\ send.draftId \in 1..Len(gdrafts)
                                  /\ Recorded = gdrafts[send.draftId]
                                  /\ Recorded \in Contents /\ Recorded # NoContent
  BY ConstantsAssumption DEF TypeInv, SendOK, SendRow, ProviderOK, Recorded

(* More drafts do not change it. *)
LEMMA RecordStays ==
    ASSUME TypeInv, send'.draftId = send.draftId,
           gdrafts' = gdrafts \/ \E c \in Contents : gdrafts' = Append(gdrafts, c)
    PROVE  Recorded' = Recorded
<1>1. gdrafts \in Seq(Contents)
  BY DEF TypeInv, ProviderOK
<1>2. \A i \in 1..Len(gdrafts) : gdrafts'[i] = gdrafts[i]
  BY <1>1
<1> QED BY <1>2, RecordedFacts DEF Recorded

(* A write to the row that leaves the draft and the provider alone is a    *)
(* step of the gate if it moves the state as the gate would.               *)
LEMMA DraftRowMoves ==
    ASSUME TypeInv, Drafted, UNCHANGED <<gone, delivered>>,
           gdrafts' = gdrafts \/ \E c \in Contents : gdrafts' = Append(gdrafts, c),
           send'.draftId = send.draftId, send'.dispatchedAt \in {NULL, send.dispatchedAt},
           \/ send'.state = send.state
           \/ send.state = "none" /\ send'.state = "in_flight"
           \/ /\ send.state = "in_flight" /\ send.draftId # 0
              /\ send'.state \in {"delivered", "uncertain"}
           \/ /\ send.state = "in_flight"
              /\ send'.state \in {"failed_transient", "failed_permanent"}
           \/ send.state # "none" /\ send'.state = "in_flight"
           \/ send.state = "uncertain" /\ send'.state = "delivered"
    PROVE  DraftStep /\ Drafted'
<1>1. /\ Recorded' = Recorded /\ (send.draftId \in gone)' = (send.draftId \in gone)
      /\ send.draftId # 0 => Recorded # NoContent
  BY RecordStays, RecordedFacts
<1>2. Drafted'
  BY DEF Drafted
<1> QED
  BY <1>1, <1>2 DEF DraftStep, AbstractDraft!Proceed, AbstractDraft!Confirm,
     AbstractDraft!Settle, AbstractDraft!GiveUp, AbstractDraft!Reopen, AbstractDraft!Attest

(* Nothing happens to what the gate shows. *)
LEMMA DraftStutters ==
    ASSUME TypeInv, Drafted, UNCHANGED <<send, gone, delivered>>,
           gdrafts' = gdrafts \/ \E c \in Contents : gdrafts' = Append(gdrafts, c)
    PROVE  DraftStep /\ Drafted'
  BY DraftRowMoves

(* Gmail sends or deletes the draft on record, at once or late; of one     *)
(* that is gone already it says so and does nothing.                       *)
LEMMA DraftLeaves ==
    ASSUME TypeInv, Drafted, UNCHANGED <<send, gdrafts>>, send.draftId # 0,
           \/ UNCHANGED <<gone, delivered>>
           \/ gone' = gone \cup {send.draftId} /\ delivered' = delivered
           \/ GmailOn /\ \E c : Accept(send.draftId, c)
    PROVE  DraftStep /\ Drafted'
<1>1. Recorded' = Recorded /\ Recorded # NoContent /\ Recorded = gdrafts[send.draftId]
  BY RecordStays, RecordedFacts
<1>2. Drafted'
  BY DEF Drafted
<1>3. CASE UNCHANGED <<gone, delivered>>
  BY <1>3, DraftStutters
<1>4. CASE gone' = gone \cup {send.draftId} /\ delivered' = delivered
  <2>1. CASE send.draftId \in gone
    <3>1. gone' = gone
      BY <1>4, <2>1
    <3> QED BY <1>4, <3>1, DraftStutters
  <2>2. CASE send.draftId \notin gone
    <3>1. (send.draftId \in gone)' /\ ~(send.draftId \in gone)
      BY <1>4, <2>2
    <3> QED BY <1>1, <1>2, <1>4, <3>1 DEF DraftStep, AbstractDraft!Proceed,
                                          AbstractDraft!Discard
  <2> QED BY <2>1, <2>2
<1>5. ASSUME GmailOn, NEW c, Accept(send.draftId, c) PROVE DraftStep
  <2>1. /\ send.draftId \notin gone /\ (send.draftId \in gone)'
        /\ delivered' = Append(delivered, gdrafts[send.draftId])
    BY <1>5 DEF GmailOn, Accept, CanAccept
  <2> QED BY <1>1, <2>1 DEF DraftStep, AbstractDraft!Proceed, AbstractDraft!Arrive
<1> QED BY <1>2, <1>3, <1>4, <1>5

(* An operator's writes leave the draft on record: even a resend, which    *)
(* forgets the dispatch.                                                   *)
LEMMA DraftOperatorSteps ==
    ASSUME TypeInv, Drafted, OperatorInv, NEW k \in Callers, Operator(k)
    PROVE  DraftStep /\ Drafted'
<1>1. send \in SendRow /\ NoContent \in Contents \cup {NoContent}
  BY DEF TypeInv, SendOK
<1>2. UNCHANGED <<gone, delivered, gdrafts>>
  BY DEF Operator, OperatorRetry, MarkDelivered, ForcedResend, provider
<1>3. send.state # "none"
  BY DEF Operator, OperatorRetry, MarkDelivered, ForcedResend, OperatorInv
<1>4. CASE OperatorRetry(k) \/ (ForcedResend(k) /\ send.state = "uncertain")
  <2>1. /\ send'.state = "in_flight" /\ send'.draftId = send.draftId
        /\ send'.dispatchedAt \in {NULL, send.dispatchedAt}
    BY <1>1, <1>4, RequestRows DEF OperatorRetry, ForcedResend
  <2> QED BY <1>2, <1>3, <2>1, DraftRowMoves
<1>5. CASE ForcedResend(k) /\ send.state # "uncertain"
  BY <1>2, <1>5, DraftStutters DEF ForcedResend
<1>6. CASE MarkDelivered(k)
  <2>1. send' = AttestedRow
    BY <1>6 DEF MarkDelivered
  <2>2. CASE send.state = "uncertain"
    <3>1. /\ send'.state = "delivered" /\ send'.draftId = send.draftId
          /\ send'.dispatchedAt = send.dispatchedAt
      BY <1>1, <2>1, <2>2, AttestedRowFacts
    <3> QED BY <1>2, <2>2, <3>1, DraftRowMoves
  <2>3. CASE send.state # "uncertain"
    BY <1>1, <1>2, <2>1, <2>3, AttestedRowFacts, DraftStutters
  <2> QED BY <2>2, <2>3
<1> QED BY <1>4, <1>5, <1>6 DEF Operator

(* Reconciliation on Gmail adopts nothing and leaves the draft alone; what *)
(* it doubts was dispatched, so there is a draft.                          *)
LEMMA DraftReconcileSteps ==
    ASSUME GmailOn, TypeInv, SafeInv, Drafted, NEW p \in Actors, Reconcile(p)
    PROVE  DraftStep /\ Drafted'
<1>1. /\ send \in SendRow /\ "uncertain" \in SettledStates
      /\ GmailLocal(loc[p], send)
  BY DEF TypeInv, SendOK, SafeInv, GmailInv, SettledStates
<1>2. UNCHANGED <<gone, delivered, gdrafts>>
  BY DEF Reconcile, ReconcileLoad, ReconcileBump, ReconcileProbe, ReconcileAdopt,
         ReconcileDoubt, provider
<1>3. CASE ReconcileLoad(p) \/ ReconcileProbe(p)
  BY <1>2, <1>3, DraftStutters DEF ReconcileLoad, ReconcileProbe
<1>4. CASE ReconcileBump(p)
  <2>1. /\ send'.state = send.state /\ send'.draftId = send.draftId
        /\ send'.dispatchedAt = send.dispatchedAt
    BY <1>1, <1>4, RequestRows DEF ReconcileBump
  <2> QED BY <1>2, <2>1, DraftRowMoves
<1>5. CASE ReconcileAdopt(p)
  BY <1>1, <1>5 DEF ReconcileAdopt, GmailLocal
<1>6. CASE ReconcileDoubt(p)
  <2>1. send' = Doubted
    BY <1>6 DEF ReconcileDoubt
  <2>2. CASE send.state = "in_flight" /\ send.dispatchedAt # NULL
    <3>1. /\ send'.state = "uncertain" /\ send'.draftId = send.draftId
          /\ send'.dispatchedAt = send.dispatchedAt /\ send.draftId # 0
      BY <1>1, <2>1, <2>2, FailedRows DEF Drafted
    <3> QED BY <1>2, <2>2, <3>1, DraftRowMoves
  <2>3. CASE ~(send.state = "in_flight" /\ send.dispatchedAt # NULL)
    BY <1>2, <2>1, <2>3, DraftStutters DEF Doubted
  <2> QED BY <2>2, <2>3
<1> QED BY <1>3, <1>4, <1>5, <1>6 DEF Reconcile

(* The worker records the draft it made unless one is on record, and sends *)
(* or deletes only that one.                                               *)
LEMMA DraftWorkerSteps ==
    ASSUME GmailOn, TypeInv, SafeInv, Drafted, NEW w \in Workers, RunSend(w)
    PROVE  DraftStep /\ Drafted'
<1>1. /\ w \in Actors /\ send \in SendRow /\ loc[w] \in Local
      /\ Len(delivered) \in Nat /\ Len(gdrafts) \in Nat /\ gdrafts \in Seq(Contents)
      /\ draft \in Contents
      /\ GmailLocal(loc[w], send) /\ GmailRow(send.draftId)
      /\ loc[w].mid \in Int /\ loc[w].did \in Nat /\ loc[w].did <= Len(gdrafts)
  BY DEF Actors, TypeInv, Locals, LocalRefs, SendOK, ProviderOK, OthersOK, SafeInv,
         GmailInv, Local
<1>2. CASE LoadSend(w) \/ Build(w) \/ RecordSuccess(w)
  <2>1. UNCHANGED <<send, gone, delivered>>
        /\ (gdrafts' = gdrafts \/ gdrafts' = Append(gdrafts, draft))
    BY <1>2 DEF LoadSend, Build, RecordSuccess, provider
  <2> QED BY <1>1, <2>1, DraftStutters
<1>3. CASE CommitDispatchAttempt(w)
  <2>1. /\ send' = Dispatched(loc[w].did) /\ UNCHANGED <<gone, delivered, gdrafts>>
        /\ send.state = "in_flight" /\ loc[w].did # 0 /\ send.draftId \in {0, loc[w].did}
    BY <1>1, <1>3 DEF CommitDispatchAttempt, GmailLocal, provider
  <2>2. send'.state = send.state /\ send'.draftId = loc[w].did
    BY <1>1, <2>1, DispatchedFacts
  <2>3. CASE send.draftId # 0
    <3>1. Recorded' = Recorded /\ send'.draftId = send.draftId
      BY <2>1, <2>2, <2>3, RecordStays
    <3> QED BY <2>1, <2>2, <2>3, <3>1 DEF DraftStep, Drafted
  <2>4. CASE send.draftId = 0
    <3>1. /\ Recorded = NoContent /\ Recorded' = gdrafts[loc[w].did]
          /\ gdrafts[loc[w].did] \in Contents
      BY <1>1, <2>1, <2>2, <2>4, RecordedFacts DEF Recorded
    <3>2. ~(send.draftId \in gone) /\ ~(send.draftId \in gone)'
      BY <1>1, <2>1, <2>2, <2>4 DEF GmailRow
    <3>3. AbstractDraft!Record(gdrafts[loc[w].did])
      BY <2>1, <2>2, <3>1, <3>2 DEF AbstractDraft!Record
    <3> QED BY <2>1, <2>2, <3>1, <3>3 DEF DraftStep, AbstractDraft!Proceed, Drafted
  <2> QED BY <2>3, <2>4
<1>4. CASE ProviderSend(w) \/ Discard(w)
  <2>1. loc[w].did = send.draftId /\ send.draftId # 0 /\ UNCHANGED <<send, gdrafts>>
    BY <1>1, <1>4 DEF ProviderSend, Discard, GmailLocal
  <2>2. CASE Discard(w)
    BY <2>1, <2>2, DraftLeaves DEF Discard
  <2>3. CASE ProviderSend(w)
    <3>1. UNCHANGED <<gone, delivered>> \/ Accept(loc[w].did, loc[w].content)
      BY <2>3 DEF ProviderSend, SendAccepted, SendAnswerLost, SendGarbled, SendRefused,
                  SendDelayed
    <3> QED BY <2>1, <3>1, DraftLeaves
  <2> QED BY <1>4, <2>2, <2>3
<1>5. CASE RecordDelivery(w)
  <2>1. /\ send' = Delivered(loc[w].mid, loc[w].did) /\ UNCHANGED <<gone, delivered, gdrafts>>
        /\ loc[w].did = send.draftId /\ send.draftId # 0
    BY <1>1, <1>5 DEF RecordDelivery, GmailLocal, provider
  <2>2. /\ send'.dispatchedAt = send.dispatchedAt /\ send'.draftId = send.draftId
        /\ (send.state # "in_flight" => send' = send)
        /\ (send.state = "in_flight" => send'.state = "delivered")
    BY <1>1, <2>1, DeliveredFacts
  <2> QED BY <2>1, <2>2, DraftRowMoves
<1>6. CASE SetTerminal(w)
  <2>1. PICK state \in {"failed_transient", "failed_permanent"} : send' = Fails(state)
    BY <1>6 DEF SetTerminal
  <2>2. UNCHANGED <<gone, delivered, gdrafts>> /\ state \in SettledStates
    BY <1>6 DEF SetTerminal, provider, SettledStates
  <2>3. /\ send'.dispatchedAt = send.dispatchedAt /\ send'.draftId = send.draftId
        /\ (send.state # "in_flight" => send' = send)
        /\ (send.state = "in_flight" => send'.state = state)
    BY <1>1, <2>1, <2>2, FailedRows
  <2> QED BY <2>2, <2>3, DraftRowMoves
<1>7. CASE Reconcile(w)
  BY <1>1, <1>7, DraftReconcileSteps
<1>8. CASE Succeed(w) \/ Fail(w)
  BY <1>8, DraftStutters DEF Succeed, Fail, FinishJob, provider
<1> QED BY <1>2, <1>3, <1>4, <1>5, <1>6, <1>7, <1>8 DEF RunSend

(* Every step of the system is a step of the gate or shows nothing.        *)
LEMMA StepsAsDraftGate ==
    ASSUME GmailOn, TypeInv, SafeInv, OperatorInv, Drafted, [Next]_vars
    PROVE  DraftStep /\ Drafted'
<1>1. ASSUME NEW c \in Contents, UpdateDraft(c) PROVE DraftStep /\ Drafted'
  BY <1>1, DraftStutters DEF UpdateDraft, provider
<1>2. ASSUME NEW k \in Callers, SendDraft(k) PROVE DraftStep /\ Drafted'
  BY <1>2, DraftStutters DEF SendDraft, provider
<1>3. ASSUME NEW k \in Callers, ClaimSend(k) PROVE DraftStep /\ Drafted'
  <2>1. /\ send \in SendRow /\ call[k].digest \in Contents \cup {NoContent}
        /\ UNCHANGED <<gone, delivered, gdrafts>>
    BY <1>3 DEF TypeInv, SendOK, OthersOK, Call, ClaimSend, provider
  <2>2. CASE send.state = "none"
    <3>1. send' = Claimed(call[k].digest)
      BY <1>3, <2>2 DEF ClaimSend
    <3>2. /\ send'.state = "in_flight" /\ send'.draftId = send.draftId
          /\ send'.dispatchedAt = send.dispatchedAt
      BY <2>1, <3>1, RequestRows
    <3> QED BY <2>1, <2>2, <3>2, DraftRowMoves
  <2>3. CASE send.state # "none"
    BY <1>3, <2>1, <2>3, DraftStutters DEF ClaimSend
  <2> QED BY <2>2, <2>3
<1>4. ASSUME NEW k \in Callers, NEW op, NEW states, OperatorLoads(k, op, states)
      PROVE  DraftStep /\ Drafted'
  BY <1>4, DraftStutters DEF OperatorLoads, provider
<1>5. ASSUME NEW w \in Workers,
             (\E j \in Jobs : Claim(w, j)) \/ CancelHandler(w) \/ DbError(w)
      PROVE  DraftStep /\ Drafted'
  BY <1>5, DraftStutters DEF Claim, CancelHandler, DbError, provider
<1>6. CASE SweepCommit \/ \E j \in Jobs : SweepStale(j)
  BY <1>6, DraftStutters DEF SweepCommit, SweepStale, provider
<1>7. ASSUME NEW p \in Actors, Crash(p) PROVE DraftStep /\ Drafted'
  BY <1>7, DraftStutters DEF Crash, provider
<1>8. ASSUME NEW r \in wire, LateAccept(r) PROVE DraftStep /\ Drafted'
  <2>1. r.did = send.draftId /\ send.draftId # 0
    BY <1>8 DEF SafeInv, GmailInv, GmailRow
  <2>2. UNCHANGED <<send, gdrafts>>
        /\ (UNCHANGED <<gone, delivered>> \/ Accept(r.did, r.content))
    BY <1>8 DEF LateAccept
  <2> QED BY <2>1, <2>2, DraftLeaves
<1>9. CASE UNCHANGED vars
  BY <1>9, DraftStutters DEF vars
<1> QED BY <1>1, <1>2, <1>3, <1>4, <1>5, <1>6, <1>7, <1>8, <1>9, DraftOperatorSteps,
           DraftReconcileSteps, DraftWorkerSteps DEF Next, Actors

(* SafeSend on Gmail implements AbstractDraftSend: whatever arrives late,  *)
(* is resent, cut short or misread, a confirmed send gets one draft on     *)
(* record, which is never replaced, is sent or deleted once, and is there  *)
(* before delivery or doubt is written; and only operators reopen.         *)
THEOREM SendImplementsDraftGate ==
    ASSUME "zombie" \notin Faults, GmailOn
    PROVE  Spec => ImplementsDraftGate
<1>1. Init => AbstractDraft!Unsent
  <2> SUFFICES ASSUME Init PROVE AbstractDraft!Unsent
    OBVIOUS
  <2>1. /\ send.state = "none" /\ send.draftId = 0 /\ delivered = <<>>
        /\ ~(send.draftId \in gone)
    BY DEF Init
  <2> QED BY <2>1 DEF AbstractDraft!Unsent, Recorded
<1>2. Init => OperatorInv /\ Drafted
  BY DEF Init, OperatorInv, NoCall, Drafted
<1>3. DraftStep => (send.state # "none" => send'.state # "none")
  BY DEF DraftStep, AbstractDraft!Proceed, AbstractDraft!Confirm, AbstractDraft!Record,
         AbstractDraft!Arrive, AbstractDraft!Discard, AbstractDraft!Settle,
         AbstractDraft!GiveUp, AbstractDraft!Reopen, AbstractDraft!Attest
<1>4. TypeInv /\ SafeInv /\ OperatorInv /\ Drafted /\ [Next]_vars
        => DraftStep /\ OperatorInv' /\ Drafted'
  BY <1>3, StepsAsDraftGate, OperatorNext
<1> QED BY <1>1, <1>2, <1>4, SafeInvariant, PTL
           DEF Spec, ImplementsDraftGate, AbstractDraft!Gate, DraftStep

(* What the abstract gate on Gmail promises, no second message among it,   *)
(* holds of any program that implements it.                                *)
THEOREM DraftGateNeverTwice == ImplementsDraftGate => []GmailNeverTwice
  BY GateSendsTheRecord, PTL

(* The recipient has nothing yet, or the draft on record, once and as it   *)
(* was made: edits, retries, resends and late arrivals change neither.     *)
THEOREM GmailSendsTheRecord ==
    ASSUME "zombie" \notin Faults, GmailOn
    PROVE  Spec => []SentAsRecorded
  BY SendImplementsDraftGate, GateSendsTheRecord, PTL
=============================================================================
