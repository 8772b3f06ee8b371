----------------------------- MODULE MCDeployment -----------------------------
(***************************************************************************)
(* The command line's way from the configuration files to booted devices,  *)
(* in three parts that share no state: parsing, the deployment by hooks,   *)
(* and the boot of a CPE with its provisioner.  One of them runs in each   *)
(* behaviour.                                                              *)
(***************************************************************************)
EXTENDS Deployment, CpeBoot, InventoryConfig

VARIABLE focus

bootVars == <<cpeVars, keaVars>>
suiteVars == <<focus, deploymentVars, bootVars, configVars>>

Resting(part) == focus # part

(* A part that rests is in one of its initial states. *)
SuiteInit ==
    /\ focus \in {"deployment", "boot", "config"}
    /\ DeploymentInit /\ CpeInit /\ KeaInit /\ ConfigInit
    /\ Resting("deployment") => ~skipBoot
    /\ Resting("boot") => class = "prplos" /\ ~options

SuiteNext ==
    /\ UNCHANGED focus
    /\ \/ focus = "deployment" /\ DeploymentNext /\ UNCHANGED <<bootVars, configVars>>
       \/ focus = "boot" /\ CpeNext /\ UNCHANGED <<deploymentVars, configVars>>
       \/ focus = "config" /\ ConfigNext /\ UNCHANGED <<deploymentVars, bootVars>>

SuiteSpec ==
    /\ SuiteInit /\ [][SuiteNext]_suiteVars
    /\ WF_deploymentVars(focus = "deployment" /\ DeploymentSteps)
    /\ WF_bootVars(focus = "boot" /\ CpeSteps)

-----------------------------------------------------------------------------
(* Every variable of the three parts keeps its type. *)
SuiteTypeOK == DeploymentTypeOK /\ CpeTypeOK /\ KeaTypeOK /\ ConfigTypeOK

(* Both a deployment and the boot of a CPE come to their end, whatever     *)
(* raises.                                                                 *)
SetupEnds == DeploymentEnds /\ CpeBootEnds
=============================================================================
