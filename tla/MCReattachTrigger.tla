------------------------- MODULE MCReattachTrigger --------------------------
(* Instances of the ledger's refreshes alone, with replicas that poll and  *)
(* one that refreshes inline, and of the automatic runs, which refresh it  *)
(* inline on every replica. A behaviour runs one of them, chosen           *)
(* initially; what the polls add to the runs is left out.                  *)
EXTENDS ReattachTrigger

CONSTANT Parts      \* the components this instance runs

VARIABLE part       \* the one this behaviour runs

maintenanceVars == <<part, vars>>

Ledger(A) == part = "ledger" /\ A /\ UNCHANGED part /\ Apart

(* The poll is off by default, and the statistics are not reset.           *)
Unpolled == UNCHANGED resets /\ \A p \in Replicas : refresh'[Poll(p)] = refresh[Poll(p)]

Trigger(A) == part = "trigger" /\ A /\ UNCHANGED part /\ Unpolled

-----------------------------------------------------------------------------
MaintenanceInit == part \in Parts /\ Init

MaintenanceNext == Ledger(LedgerNext) \/ Trigger(Next)

(* The fairness of LedgerRefresh and of ReattachTrigger. One part runs, so *)
(* a disjunction over the parts is as fair to each as a conjunct of its    *)
(* own.                                                                    *)
MaintenanceFairness ==
    /\ WF_maintenanceVars(Ledger(Count))
    /\ \A p \in Replicas :
          /\ WF_maintenanceVars(Ledger(Observe(p)) \/ Trigger(TriggerStep(p)))
          /\ WF_maintenanceVars(Ledger(PollStep(p)))
          /\ SF_maintenanceVars(Ledger(InlineStep(p)) \/ Trigger(InlineStep(p) /\ Apart))
          /\ SF_maintenanceVars(Ledger(PollObserve(p, TRUE, FALSE)))

MaintenanceSpec == MaintenanceInit /\ [][MaintenanceNext]_maintenanceVars /\ MaintenanceFairness

-----------------------------------------------------------------------------
(* LedgerCatchesUp where the ledger is polled: while the statistics are    *)
(* not reset, whatever was written is shown in the end, with inline        *)
(* refreshes, failures and crashes in between.                             *)
PolledLedgerCatchesUp ==
    \A n \in 1..MaxWrites : (part = "ledger" /\ writes >= n) ~> (shown >= n \/ resets > 0)
=============================================================================
