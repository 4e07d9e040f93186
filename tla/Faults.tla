------------------------------- MODULE Faults -------------------------------
(***************************************************************************)
(* The faults a run lets happen.  Every fault is an action of its own and  *)
(* spends one unit of a budget, so that a run can say which faults it is   *)
(* about and liveness can be asked once the budget is spent.               *)
(***************************************************************************)
EXTENDS Naturals

CONSTANTS
  FaultKinds,   \* the faults this run enables
  MaxFaults     \* how many of them happen in one behaviour

ASSUME FaultsAssumption == MaxFaults \in Nat

VARIABLE faults

FaultsTypeOK == faults \in 0 .. MaxFaults

FaultsInit == faults = 0

Fault(kind) ==
  /\ kind \in FaultKinds
  /\ faults < MaxFaults
  /\ faults' = faults + 1

NoFault == UNCHANGED faults
=============================================================================
