------------------------------ MODULE MCServices ------------------------------
(***************************************************************************)
(* Four parts that share no state: the process launcher, the diagnostics   *)
(* store with its reaper, the request proxy, and the event buffer of the   *)
(* agent.  One of them runs in each behaviour; interleaving them would     *)
(* only multiply their states.                                             *)
(***************************************************************************)
EXTENDS ProcessLauncher, DiagnosticsStore, Proxy, EventBuffer

VARIABLE focus

Parts == {"launcher", "store", "proxy", "buffer"}
serviceVars == <<focus, launcherVars, storeVars, proxyVars, bufferVars>>

ServicesInit ==
    /\ focus \in Parts
    /\ LauncherInit /\ StoreInit /\ ProxyInit /\ BufferInit
    /\ focus # "buffer" => poll.device = CHOOSE d \in Devices : TRUE

ServicesNext ==
    /\ UNCHANGED focus
    /\ \/ focus = "launcher" /\ LauncherNext /\ UNCHANGED <<storeVars, proxyVars, bufferVars>>
       \/ focus = "store" /\ StoreNext /\ UNCHANGED <<launcherVars, proxyVars, bufferVars>>
       \/ focus = "proxy" /\ ProxyNext /\ UNCHANGED <<launcherVars, storeVars, bufferVars>>
       \/ focus = "buffer" /\ BufferNext /\ UNCHANGED <<launcherVars, storeVars, proxyVars>>

ServicesSpec ==
    /\ ServicesInit /\ [][ServicesNext]_serviceVars
    /\ WF_storeVars(focus = "store" /\ ReaperSteps)
    /\ \A c \in Clients : WF_proxyVars(focus = "proxy" /\ RequestSteps(c))
    /\ WF_bufferVars(focus = "buffer" /\ WriterSteps)
    /\ WF_bufferVars(focus = "buffer" /\ StreamSteps)

-----------------------------------------------------------------------------
(* Every variable of the four parts keeps its type; the event buffer also  *)
(* its length.                                                             *)
ServicesTypeOK == LauncherTypeOK /\ StoreTypeOK /\ ProxyTypeOK /\ BufferTypeOK
=============================================================================
