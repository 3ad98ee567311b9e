-------------------------------- MODULE MCRecords --------------------------------
(***************************************************************************)
(* What probes, scans, scripts, agents, terminals and browsers leave in    *)
(* the database.  As in MCFleet, a behaviour is one of the active          *)
(* component, with the others at rest.                                     *)
(***************************************************************************)
EXTENDS Snapshots, Inventory, CustomMetrics, Runbooks, AgentShipping, LogPatterns,
        Terminal, Push

CONSTANTS h1, i1, i2, b1, b2

VARIABLE active

storesVars == <<inventoryVars, customVars, runbooksVars>>
feedsVars == <<shippingVars, patternsVars, terminalVars, pushVars>>

MCVars == <<snapshotsVars, storesVars, feedsVars, active>>

\* The kind of snapshot, the store, the host's system and the terminal's target are
\* left open only where they matter.
MCInit ==
    /\ active \in {"snapshots", "inventory", "custom", "runbooks", "shipping", "patterns",
                   "terminal", "push"}
    /\ SnapshotsInit /\ InventoryInit /\ CustomInit /\ RunbooksInit
    /\ ShippingInit /\ PatternsInit /\ TerminalInit /\ PushInit
    /\ active # "snapshots" => kind = "web"
    /\ active # "inventory" => store = "keys"
    /\ active # "shipping" => os = "linux"
    /\ active # "terminal" => \A s \in Sessions : term[s].target = "local"

MCSnapshots(A) == active = "snapshots" /\ A /\ UNCHANGED <<storesVars, feedsVars, active>>

MCStores(who, A, others) ==
    active = who /\ A /\ UNCHANGED <<others, snapshotsVars, feedsVars, active>>

MCFeeds(who, A, others) ==
    active = who /\ A /\ UNCHANGED <<others, snapshotsVars, storesVars, active>>

MCTerminal(A) == MCFeeds("terminal", A, <<shippingVars, patternsVars, pushVars>>)

MCNext ==
    \/ MCSnapshots(SnapshotsNext)
    \/ MCStores("inventory", InventoryNext, <<customVars, runbooksVars>>)
    \/ MCStores("custom", CustomNext, <<inventoryVars, runbooksVars>>)
    \/ MCStores("runbooks", RunbooksNext, <<inventoryVars, customVars>>)
    \/ MCFeeds("shipping", ShippingNext, <<patternsVars, terminalVars, pushVars>>)
    \/ MCFeeds("patterns", PatternsNext, <<shippingVars, terminalVars, pushVars>>)
    \/ MCTerminal(TerminalNext)
    \/ MCFeeds("push", PushNext, <<shippingVars, patternsVars, terminalVars>>)

\* SnapshotsFairness and TerminalFairness; the others assume none.
MCFairness ==
    /\ \A w \in Workers : WF_MCVars(MCSnapshots(WorkerStep(w)))
    /\ \A s \in Sessions :
         /\ WF_MCVars(MCTerminal(HandlerStep(s)))
         /\ WF_MCVars(MCTerminal(term[s].shell = "ended" /\ OutEnds(s)))
         /\ WF_MCVars(MCTerminal(term[s].browser = "left" /\ InEnds(s)))

MCSpec == MCInit /\ [][MCNext]_MCVars /\ MCFairness

\* Every state of the eight components is well typed.
RecordsTypeOK == /\ SnapshotsTypeOK /\ InventoryTypeOK /\ CustomTypeOK
                 /\ RunbooksTypeOK /\ ShippingTypeOK /\ PatternsTypeOK
                 /\ TerminalTypeOK /\ PushTypeOK

==================================================================================
