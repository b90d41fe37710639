---------------------------- MODULE AbstractSend ----------------------------
(***************************************************************************)
(* What the gate promises of one confirmed send: the provider accepts a    *)
(* message only for a recorded dispatch that nothing has answered yet,     *)
(* failure is declared only while none has, doubt only about a recorded    *)
(* dispatch, and a settled send moves, and a dispatch is forgotten, only   *)
(* by an order of the operator. Nothing is said of jobs, workers, probes,  *)
(* retries or crashes.                                                     *)
(***************************************************************************)
EXTENDS Integers

VARIABLES
    state,     \* sends.state
    dispatch,  \* "none", "open": recorded, or "answered" by a message since
    messages,  \* how many messages the provider has accepted
    resends    \* how many resends operators have ordered

Unsent ==
    /\ state = "none" /\ dispatch = "none"
    /\ messages = 0 /\ resends = 0

Confirm ==
    /\ state = "none"
    /\ state' = "in_flight"
    /\ UNCHANGED <<dispatch, messages, resends>>

Dispatch ==
    /\ state = "in_flight" /\ dispatch = "none"
    /\ dispatch' = "open"
    /\ UNCHANGED <<state, messages, resends>>

Arrive ==
    /\ state = "in_flight" /\ dispatch = "open"
    /\ dispatch' = "answered"
    /\ messages' = messages + 1
    /\ UNCHANGED <<state, resends>>

(* A message of an earlier dispatch will do: whoever finds it need not     *)
(* send another.                                                           *)
Settle ==
    /\ state = "in_flight" /\ messages > 0
    /\ state' = "delivered"
    /\ UNCHANGED <<dispatch, messages, resends>>

GiveUp ==
    /\ state = "in_flight" /\ dispatch # "answered"
    /\ state' = "failed_transient"
    /\ UNCHANGED <<dispatch, messages, resends>>

Refuse ==
    /\ state = "in_flight"
    /\ state' = "failed_permanent"
    /\ UNCHANGED <<dispatch, messages, resends>>

Doubt ==
    /\ state = "in_flight" /\ dispatch # "none"
    /\ state' = "uncertain"
    /\ UNCHANGED <<dispatch, messages, resends>>

(* The operator: retries, attests to the delivery, or orders a resend.     *)
Retry ==
    /\ state # "none"
    /\ state' = "in_flight"
    /\ UNCHANGED <<dispatch, messages, resends>>

Attest ==
    /\ state = "uncertain"
    /\ state' = "delivered"
    /\ UNCHANGED <<dispatch, messages, resends>>

Resend ==
    /\ state = "uncertain"
    /\ state' = "in_flight" /\ dispatch' = "none"
    /\ resends' = resends + 1
    /\ UNCHANGED messages

Proceed ==
    \/ Confirm \/ Dispatch \/ Arrive
    \/ Settle \/ GiveUp \/ Refuse \/ Doubt
    \/ Retry \/ Attest \/ Resend

Gate == Unsent /\ [][Proceed]_<<state, dispatch, messages, resends>>
=============================================================================
