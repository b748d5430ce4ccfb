---------------------------- MODULE ControlParts ----------------------------
(***************************************************************************)
(* What lies before the sagas: the life of a lab fault and the windows     *)
(* that detect one.  They share no variable here (a fault is but a cause   *)
(* for Detection, which takes any course of it), so that each is looked at *)
(* with the other at rest.                                                 *)
(***************************************************************************)
EXTENDS LabFaults, Detection

CONSTANT Parts \* of "faults" and "detection"

VARIABLE part  \* the part that is looked at

faultsVars == vars
partsVars == <<part, faultsVars, detectionVars>>

PartsInit == part \in Parts /\ Init /\ DetectionInit

FaultsPart == part = "faults" /\ Next /\ UNCHANGED <<part, detectionVars>>
DetectionPart == part = "detection" /\ DetectionNext /\ UNCHANGED <<part, faultsVars>>

PartsNext == FaultsPart \/ DetectionPart

\* The fairness of FairSpec (LabFaults) and of DetectionSpec, each for the part
\* it is about.
PartsSpec ==
    /\ PartsInit /\ [][PartsNext]_partsVars
    /\ \A c \in Clients : SF_faultsVars(part = "faults" /\ Answer(c))
    /\ WF_faultsVars(part = "faults" /\ Pass) /\ WF_faultsVars(part = "faults" /\ Abort)
    /\ WF_faultsVars(part = "faults" /\ \E f \in Created : Expire(f))
    /\ WF_detectionVars(part = "detection" /\ Tick) /\ WF_detectionVars(part = "detection" /\ TimePasses)
=============================================================================
