------------------------------ MODULE MCClosing ------------------------------
(* What a disposal waits for, and what ends without one, in one run: a behaviour *)
(* is a behaviour of the bulk material refresh, of the Luogu synchronisation     *)
(* slot, of the store, of the plugin's lifecycle, of its Luogu host alone, or of *)
(* one page of the interface, while the others rest.                             *)
EXTENDS MaterialBatch, LuoguSlot, StoreTransactions, PluginLifecycle, UiRequests, TLC

CONSTANTS b1, b2

StoreFaults == {"store"}

VARIABLE part

othersOfPlugin == <<vars, slotVars, storeVars, uiVars>>

ClosingInit ==
    /\ part \in {"materials", "luogu", "store", "plugin", "host", "page"}
    /\ Init /\ SlotInit /\ StoreInit /\ PluginInit /\ UiInit

ClosingNext ==
    /\ \/ part = "materials" /\ Next /\ UNCHANGED <<slotVars, storeVars, pluginVars, uiVars>>
       \/ part = "luogu" /\ SlotNext /\ UNCHANGED <<vars, storeVars, pluginVars, uiVars>>
       \/ part = "store" /\ StoreNext /\ UNCHANGED <<vars, slotVars, pluginVars, uiVars>>
       \/ part = "plugin" /\ PluginNext /\ UNCHANGED othersOfPlugin
       \/ part = "host" /\ HostNext /\ UNCHANGED <<lifeVars, othersOfPlugin>>
       \/ part = "page" /\ UiNext /\ UNCHANGED <<vars, slotVars, storeVars, pluginVars>>
    /\ UNCHANGED part

ClosingSpec ==
    /\ ClosingInit
    /\ [][ClosingNext]_<<part, vars, slotVars, storeVars, pluginVars, uiVars>>
    /\ WF_vars(\E b \in Batches : Serve(b))
    /\ WF_vars(\E b \in Batches : Work(b))
    /\ WF_vars(Disposal)
    /\ SlotFairness
    /\ WF_storeVars(part = "store" /\ StoreTurn)
    /\ WF_pluginVars(part = "plugin" /\ Teardown)
    /\ \A c \in Clients : WF_pluginVars(part = "plugin" /\ EndRequest(c))
    /\ \A o \in ModelCalls : WF_pluginVars(part = "plugin" /\ SettleCall(o))
    /\ WF_uiVars(part = "page" /\ UiStep)

-----------------------------------------------------------------------------

\* The types of the state of the component at work.
ClosingTypesOK ==
    CASE part = "materials" -> TypeOK
      [] part = "luogu" -> SlotTypeOK
      [] part = "store" -> StoreTypeOK
      [] part \in {"plugin", "host"} -> PluginTypeOK
      [] part = "page" -> UiTypeOK

\* Whatever is at work, a disposal comes to its end: the bulk refresh closes, the Luogu
\* service closes, and the store is released after everything that uses it.
EverythingCloses == CloseReturns /\ ServiceCloses /\ StoreReleased

=============================================================================
