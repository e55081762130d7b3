----------------------------- MODULE JobContract -----------------------------
(***************************************************************************)
(* What the job API promises of one job (README.md, "Asynchronous jobs"):  *)
(* it is accepted, it is settled once, and its alert goes out at most      *)
(* once, begun only while the job is open.  A completed job is one whose   *)
(* alert went out.  QueuedJob implements it.                               *)
(***************************************************************************)
EXTENDS Naturals

CONSTANT TerminalOutcomes   \* the statuses of the API that are final

VARIABLES
    outcome,    \* "absent", "open", or a terminal outcome
    begun,      \* a worker is handing the alert to the channels
    sent        \* how often the alert was handed over

contractVars == <<outcome, begun, sent>>

ContractInit == outcome = "absent" /\ begun = FALSE /\ sent = 0

Accept == /\ outcome = "absent" /\ outcome' = "open"
          /\ UNCHANGED <<begun, sent>>

Begin == /\ outcome = "open" /\ ~begun /\ sent = 0
         /\ begun' = TRUE
         /\ UNCHANGED <<outcome, sent>>

Deliver == /\ begun /\ sent = 0
           /\ begun' = FALSE /\ sent' = 1
           /\ UNCHANGED outcome

\* The worker dies, or the channels refuse the alert.
Abandon == /\ begun /\ begun' = FALSE
           /\ UNCHANGED <<outcome, sent>>

Settle(o) == /\ outcome = "open" /\ outcome' = o
             /\ o = "completed" => sent = 1
             /\ UNCHANGED <<begun, sent>>

\* A creation that could not be queued is removed again.
Withdraw == /\ outcome \in {"open", "failed"} /\ outcome' = "absent"
            /\ UNCHANGED <<begun, sent>>

ContractNext ==
    \/ Accept \/ Begin \/ Deliver \/ Abandon \/ Withdraw
    \/ \E o \in TerminalOutcomes : Settle(o)

ContractSpec == ContractInit /\ [][ContractNext]_contractVars
=============================================================================
