------------------------------ MODULE Dashboard ------------------------------
(***************************************************************************)
(* The dashboard's tabs (App.tsx): only the panel of the active tab is     *)
(* mounted, and a panel that is left loses its state.  Composed here are   *)
(* the panels for the RPC endpoints and the guardian settings, with a save *)
(* handler or, as App.tsx has it, without; the others only display, and    *)
(* the log tab exports what it shows as CSV.                               *)
(***************************************************************************)
EXTENDS RpcNodes, GuardianForm, Csv

VARIABLE activeTab

dashboardVars == <<rpcVars, formVars, activeTab>>

DashboardInit ==
    /\ activeTab = "rpc"
    /\ RpcInit
    /\ FormInit

\* onChange of the tab list: the old panel is unmounted, the new one mounted.
SwitchTo(tab) ==
    /\ activeTab # tab
    /\ activeTab' = tab
    /\ IF tab = "rpc" THEN RpcMounts
       ELSE /\ stored' = IF activeTab = "rpc" THEN rpc ELSE stored
            /\ rpc' = Empty /\ probes' = NoProbes /\ probing' = FALSE /\ loaded' = {}
    /\ FormMounts

\* The page is loaded anew: effects that are due are lost.
Reload ==
    /\ activeTab' = "rpc"
    /\ RpcMounts
    /\ FormMounts

DashboardNext ==
    \/ \E tab \in {"rpc", "logs", "stats", "config"} : SwitchTo(tab)
    \/ Reload
    \/ activeTab = "rpc" /\ RpcMoves /\ UNCHANGED <<formVars, activeTab>>
    \/ activeTab = "config" /\ FormMoves /\ UNCHANGED <<rpcVars, activeTab>>

DashboardSpec == DashboardInit /\ [][DashboardNext]_dashboardVars

-----------------------------------------------------------------------------
(* Properties *)

\* What the log tab, the only panel that exports, writes can be read back, field
\* by field.  The text depends on the table alone: ShortTablesReadBack has no
\* variable, and the tab only says where the code runs.
CsvReadsBack == activeTab = "logs" => ShortTablesReadBack

=============================================================================
