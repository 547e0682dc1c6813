-------------------------- MODULE MCReconciliation --------------------------
(* The sweeps of the three systems for TLC, one at a time: Salesforce with   *)
(* the constants of the configuration, ServiceNow with a window that its     *)
(* limit covers, and Coupa.                                                  *)
EXTENDS Reconciliation

VARIABLE system

One == 1
Two == 2
Longer == 4
Incidents == INSTANCE Reconciliation WITH System <- "servicenow", Limit <- Two, MaxFaults <- One
Invoices == INSTANCE Reconciliation WITH System <- "coupa", Limit <- One, MaxClock <- Longer

AllInit == system \in {"salesforce", "servicenow", "coupa"} /\ Init

AllNext == /\ UNCHANGED system
           /\ \/ system = "salesforce" /\ Next
              \/ system = "servicenow" /\ Incidents!Next
              \/ system = "coupa" /\ Invoices!Next

AllSweep == \/ system = "salesforce" /\ Sweep
            \/ system = "servicenow" /\ Incidents!Sweep
            \/ system = "coupa" /\ Invoices!Sweep

AllSpec == AllInit /\ [][AllNext]_<<system, vars>> /\ WF_vars(AllSweep)
=============================================================================
