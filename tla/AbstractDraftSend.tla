-------------------------- MODULE AbstractDraftSend --------------------------
(***************************************************************************)
(* What the gate promises on Gmail, where a message is a draft first: one  *)
(* draft is recorded for a confirmed send and never replaced, the provider *)
(* sends that one and no other, once and as it was recorded, and a send    *)
(* that is settled moves only by an order of the operator. The promise     *)
(* outlasts what the gate of AbstractSend does not: requests that arrive   *)
(* late, resends, answers that are misread.                                *)
(***************************************************************************)
EXTENDS Sequences

CONSTANTS Contents, NoContent

VARIABLES
    state,     \* sends.state
    recorded,  \* what the draft on record says; NoContent: there is none
    spent,     \* that draft was sent or deleted
    messages   \* the messages the provider has accepted

Unsent ==
    /\ state = "none" /\ recorded = NoContent
    /\ spent = FALSE /\ messages = <<>>

Confirm ==
    /\ state = "none"
    /\ state' = "in_flight"
    /\ UNCHANGED <<recorded, spent, messages>>

Record(c) ==
    /\ state = "in_flight" /\ recorded = NoContent
    /\ recorded' = c
    /\ UNCHANGED <<state, spent, messages>>

(* However late: the state may have moved on. *)
Arrive ==
    /\ recorded # NoContent /\ ~spent
    /\ spent' = TRUE
    /\ messages' = Append(messages, recorded)
    /\ UNCHANGED <<state, recorded>>

Discard ==
    /\ recorded # NoContent /\ ~spent
    /\ spent' = TRUE
    /\ UNCHANGED <<state, recorded, messages>>

(* Success, or doubt, about a draft that is on record. *)
Settle ==
    /\ state = "in_flight" /\ recorded # NoContent
    /\ state' \in {"delivered", "uncertain"}
    /\ UNCHANGED <<recorded, spent, messages>>

GiveUp ==
    /\ state = "in_flight"
    /\ state' \in {"failed_transient", "failed_permanent"}
    /\ UNCHANGED <<recorded, spent, messages>>

(* The operator: retries or orders a resend, or attests to the delivery. *)
Reopen ==
    /\ state # "none"
    /\ state' = "in_flight"
    /\ UNCHANGED <<recorded, spent, messages>>

Attest ==
    /\ state = "uncertain"
    /\ state' = "delivered"
    /\ UNCHANGED <<recorded, spent, messages>>

Proceed ==
    \/ Confirm \/ \E c \in Contents : Record(c)
    \/ Arrive \/ Discard
    \/ Settle \/ GiveUp
    \/ Reopen \/ Attest

Gate == Unsent /\ [][Proceed]_<<state, recorded, spent, messages>>
=============================================================================
