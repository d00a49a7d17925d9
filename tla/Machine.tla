------------------------------ MODULE Machine ------------------------------
(***************************************************************************)
(* The table of a job's life, backend/app/core/states.py, and the two      *)
(* questions machine.py asks of it.                                        *)
(***************************************************************************)

TxState ==
  {"CREATED", "INTENT_STRUCTURED", "QUOTE_SELECTED", "AWAITING_AUTHORIZATION",
   "AUTHORIZED", "FUNDING", "FUNDED", "IN_PROGRESS", "EVIDENCE_SUBMITTED",
   "DELIVERED", "RELEASED", "DISPUTED", "RESOLVING", "PROPOSED", "SETTLED",
   "ESCALATED", "CANCELLED"}

TERMINAL == {"RELEASED", "SETTLED", "CANCELLED"}
PRE_FUNDING ==
  {"CREATED", "INTENT_STRUCTURED", "QUOTE_SELECTED", "AWAITING_AUTHORIZATION",
   "AUTHORIZED", "FUNDING"}

\* <<state, event, next state>>; a pair that is absent is illegal.
TRANSITIONS ==
  {<<"CREATED", "INTENT_STRUCTURED", "INTENT_STRUCTURED">>,
   <<"INTENT_STRUCTURED", "QUOTE_SELECTED", "QUOTE_SELECTED">>,
   <<"QUOTE_SELECTED", "AUTHORIZATION_ISSUED", "AWAITING_AUTHORIZATION">>,
   <<"AWAITING_AUTHORIZATION", "AUTHORIZED", "AUTHORIZED">>,
   <<"AUTHORIZED", "FUNDING_STARTED", "FUNDING">>,
   <<"FUNDING", "FUNDED_ONCHAIN", "FUNDED">>,
   <<"FUNDED", "WORK_STARTED", "IN_PROGRESS">>,
   <<"IN_PROGRESS", "EVIDENCE_ADDED", "EVIDENCE_SUBMITTED">>,
   <<"EVIDENCE_SUBMITTED", "DELIVERY_MARKED", "DELIVERED">>,
   <<"DELIVERED", "RELEASED_ONCHAIN", "RELEASED">>,
   <<"DELIVERED", "DISPUTE_OPENED_ONCHAIN", "DISPUTED">>,
   <<"DISPUTED", "RESPONSE_RECEIVED", "RESOLVING">>,
   <<"DISPUTED", "RESPONSE_TIMEOUT", "RESOLVING">>,
   <<"RESOLVING", "PROPOSAL_MADE", "PROPOSED">>,
   <<"RESOLVING", "ESCALATION_REQUIRED", "ESCALATED">>,
   <<"PROPOSED", "SETTLED_ONCHAIN", "SETTLED">>,
   <<"PROPOSED", "REJECTED", "ESCALATED">>,
   <<"PROPOSED", "ACCEPT_TIMEOUT", "ESCALATED">>}
  \cup {<<s, e, "CANCELLED">> : s \in PRE_FUNDING, e \in {"DECLINED", "AUTHORIZATION_EXPIRED"}}
  \cup {<<s, "REFUNDED_ONCHAIN", "CANCELLED">> : s \in {"FUNDED", "IN_PROGRESS", "EVIDENCE_SUBMITTED"}}

\* machine.can: the event is legal in state s.
Can(s, event) == \E move \in TRANSITIONS : move[1] = s /\ move[2] = event

\* next_state of a legal event.
NextState(s, event) == (CHOOSE move \in TRANSITIONS : move[1] = s /\ move[2] = event)[3]
=============================================================================
