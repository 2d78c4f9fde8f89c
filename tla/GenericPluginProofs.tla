------------------------ MODULE GenericPluginProofs ------------------------
(***************************************************************************)
(* Proofs about GenericPlugin for every value of the constants.           *)
(***************************************************************************)
EXTENDS GenericPlugin, TLAPS

\* TypeOK is not inductive by itself: ApplyFinish copies DesireState into
\* LastState and into the host, so a call in Apply must hold a DesireState.
\* The keys left by the range over DesiredKernelParams are keys of the map.
TypeInv ==
    /\ TypeOK
    /\ pc = "SyncDriverState" => desireState \in Specs
    /\ kparamsToVisit \subseteq DOMAIN desiredKernelParams

\* VfioKernelParamsTracked is not inductive by itself: syncDriverState loads
\* vfio_pci for DesireState, so the parameters must already be queued for
\* any DesireState that needs vfio_pci.
VfioInv ==
    /\ VfioKernelParamsTracked
    /\ (desireState # NoState /\ NeedDriver(Vfio, desireState))
         => {KernelParamIntelIommu, KernelParamIommuPt} \subseteq DOMAIN desiredKernelParams

-----------------------------------------------------------------------------
(* Lemmas on the kernel-parameter map.                                     *)

\* A tracked-parameter map: keys are kernel parameters, values counters.
ParamMap(params) ==
    DOMAIN params \subseteq KParams /\ params \in [DOMAIN params -> Nat]

\* addToDesiredKernelParams adds exactly its key and keeps the map typed.
LEMMA AddToDesiredKernelParamsType ==
    ASSUME NEW params, NEW kparam \in KParams, ParamMap(params)
    PROVE  /\ DOMAIN addToDesiredKernelParams(params, kparam) = DOMAIN params \cup {kparam}
           /\ ParamMap(addToDesiredKernelParams(params, kparam))
BY DEF addToDesiredKernelParams, ParamMap

\* Counting one more attempt keeps the map typed and its keys.
LEMMA IncrementType ==
    ASSUME NEW params, NEW kparam \in DOMAIN params, ParamMap(params)
    PROVE  /\ DOMAIN [params EXCEPT ![kparam] = @ + 1] = DOMAIN params
           /\ ParamMap([params EXCEPT ![kparam] = @ + 1])
BY DEF ParamMap

\* addVfioDesiredKernelParam keeps the keys it is given and adds the two
\* IOMMU parameters when vfio_pci is needed and not loaded.
LEMMA AddVfioDesiredKernelParamType ==
    ASSUME NEW state, ParamMap(desiredKernelParams)
    PROVE  /\ ParamMap(addVfioDesiredKernelParam(state))
           /\ DOMAIN desiredKernelParams \subseteq DOMAIN addVfioDesiredKernelParam(state)
           /\ (~driverLoaded[Vfio] /\ NeedDriver(Vfio, state))
                => {KernelParamIntelIommu, KernelParamIommuPt}
                     \subseteq DOMAIN addVfioDesiredKernelParam(state)
<1> DEFINE p1 == addToDesiredKernelParams(desiredKernelParams, KernelParamIntelIommu)
<1> DEFINE p2 == addToDesiredKernelParams(p1, KernelParamIommuPt)
<1>1. KernelParamIntelIommu \in KParams /\ KernelParamIommuPt \in KParams
  BY DEF KParams, VfioKParams
<1>2. ParamMap(p1) /\ DOMAIN p1 = DOMAIN desiredKernelParams \cup {KernelParamIntelIommu}
  BY <1>1, AddToDesiredKernelParamsType
<1>3. ParamMap(p2) /\ DOMAIN p2 = DOMAIN p1 \cup {KernelParamIommuPt}
  BY <1>1, <1>2, AddToDesiredKernelParamsType
<1>4. CASE ~driverLoaded[Vfio] /\ NeedDriver(Vfio, state)
  <2>1. addVfioDesiredKernelParam(state) = p2
    BY <1>4 DEF addVfioDesiredKernelParam
  <2>2. QED
    BY <2>1, <1>2, <1>3
<1>5. CASE ~(~driverLoaded[Vfio] /\ NeedDriver(Vfio, state))
  <2>1. addVfioDesiredKernelParam(state) = desiredKernelParams
    BY <1>5 DEF addVfioDesiredKernelParam
  <2>2. QED
    BY <2>1, <1>5
<1>6. QED
  BY <1>4, <1>5

-----------------------------------------------------------------------------
(* Type correctness.                                                       *)

\* The results Apply returns are results.
LEMMA ApplyRetType == \A b \in BOOLEAN : ApplyRet(b) \in RetType
BY DEF ApplyRet, RetType

LEMMA TypeOKParamMap == TypeOK => ParamMap(desiredKernelParams)
BY DEF TypeOK, ParamMap

\* Every state of every behaviour is well typed, and a call inside Apply
\* holds a DesireState.
THEOREM TypeCorrect == Spec => []TypeInv
<1>1. Init => TypeInv
  <2> SUFFICES ASSUME Init PROVE TypeInv
    OBVIOUS
  <2> USE DEF Init
  <2>1. TypeOK
    BY DEF TypeOK, Drivers, RetType, NoRet
  <2>2. QED
    BY <2>1 DEF TypeInv
<1>2. TypeInv /\ [Next]_vars => TypeInv'
  <2> SUFFICES ASSUME TypeInv, [Next]_vars PROVE TypeInv'
    OBVIOUS
  <2>0. /\ ParamMap(desiredKernelParams)
        /\ kparamsToVisit \subseteq DOMAIN desiredKernelParams
        /\ TypeOK
        /\ pc = "SyncDriverState" => desireState \in Specs
    BY TypeOKParamMap DEF TypeInv
  <2> USE DEF TypeInv
  <2>1. ASSUME NEW new \in Specs, NEW status \in Statuses, OnNodeStateChange(new, status)
        PROVE  TypeInv'
    <3>1. ParamMap(desiredKernelParams')
      BY <2>0, <2>1, AddVfioDesiredKernelParamType DEF OnNodeStateChange
    <3>2. needDrain' \in BOOLEAN
      BY <2>1 DEF OnNodeStateChange, needDrainNode
    <3>3. kparamsToVisit' \subseteq DOMAIN desiredKernelParams'
      BY <2>1 DEF OnNodeStateChange
    <3>4. /\ desireState' \in Specs
          /\ pc' = "SyncKernelParams"
          /\ needReboot' = FALSE
          /\ UNCHANGED <<lastState, driverLoaded, driversToVisit, ret, hostVars>>
      BY <2>1 DEF OnNodeStateChange
    <3>5. kparamsToVisit' \subseteq KParams
      BY <3>1, <3>3 DEF ParamMap
    <3>6. TypeOK'
      BY <2>0, <3>1, <3>2, <3>4, <3>5 DEF ParamMap, TypeOK, hostVars
    <3>7. QED
      BY <3>3, <3>4, <3>6
  <2>2. ASSUME NEW k \in KParams, SyncKernelParam(k) PROVE TypeInv'
    <3> DEFINE err == [call |-> "OnNodeStateChange", needDrain |-> needDrain,
                       needReboot |-> FALSE, err |-> TRUE]
    <3>1. k \in DOMAIN desiredKernelParams
      BY <2>0, <2>2 DEF SyncKernelParam
    <3>2. ParamMap([desiredKernelParams EXCEPT ![k] = @ + 1])
          /\ DOMAIN [desiredKernelParams EXCEPT ![k] = @ + 1] = DOMAIN desiredKernelParams
      BY <2>0, <3>1, IncrementType
    <3>3. /\ desiredKernelParams' \in {desiredKernelParams, [desiredKernelParams EXCEPT ![k] = @ + 1]}
          /\ ret' \in {ret, err}
          /\ pc' \in {pc, "Idle"}
          /\ kparamsToVisit' \subseteq kparamsToVisit
          /\ needDrain' \in {needDrain, FALSE}
          /\ needReboot' \in {needReboot, FALSE, TRUE}
          /\ bootcfg' \in {bootcfg, bootcfg \cup {k}}
          /\ driversToVisit' \in {driversToVisit, {}}
          /\ UNCHANGED <<desireState, lastState, driverLoaded, cmdline, kmods, hostIfaces>>
      BY <2>2 DEF SyncKernelParam, ReturnRebootError, Return
    <3>4. err \in RetType
      BY <2>0 DEF RetType, TypeOK
    <3>5. ParamMap(desiredKernelParams')
          /\ DOMAIN desiredKernelParams' = DOMAIN desiredKernelParams
      BY <2>0, <3>2, <3>3
    <3>6. TypeOK'
      BY <2>0, <3>3, <3>4, <3>5 DEF TypeOK, ParamMap
    <3>7. pc' = "SyncDriverState" => desireState' \in Specs
      BY <2>2, <3>3 DEF SyncKernelParam
    <3>8. QED
      BY <3>3, <3>5, <3>6, <3>7, <2>0
  <2>3. CASE SyncKernelParamsDone
    <3>1. /\ ret' \in RetType
          /\ pc' = "Idle"
          /\ kparamsToVisit' = {}
          /\ driversToVisit' = {}
          /\ needDrain' = FALSE
          /\ needReboot' = FALSE
      <4>1. CASE ReturnRebootError
        <5>1. [call |-> "OnNodeStateChange", needDrain |-> needDrain,
               needReboot |-> FALSE, err |-> TRUE] \in RetType
          BY <2>0 DEF RetType, TypeOK
        <5>2. QED
          BY <4>1, <5>1 DEF ReturnRebootError, Return
      <4>2. CASE \E update \in BOOLEAN :
                   Return([call |-> "OnNodeStateChange",
                           needDrain |-> needDrain \/ (needReboot \/ update),
                           needReboot |-> needReboot \/ update, err |-> FALSE])
        <5>1. PICK update \in BOOLEAN :
                   Return([call |-> "OnNodeStateChange",
                           needDrain |-> needDrain \/ (needReboot \/ update),
                           needReboot |-> needReboot \/ update, err |-> FALSE])
          BY <4>2
        <5>2. [call |-> "OnNodeStateChange",
               needDrain |-> needDrain \/ (needReboot \/ update),
               needReboot |-> needReboot \/ update, err |-> FALSE] \in RetType
          BY <2>0 DEF RetType, TypeOK
        <5>3. QED
          BY <5>1, <5>2 DEF Return
      <4>3. QED
        BY <2>3, <4>1, <4>2 DEF SyncKernelParamsDone
    <3>2. UNCHANGED <<pluginVars, hostVars>>
      BY <2>3 DEF SyncKernelParamsDone
    <3>3. QED
      BY <3>1, <3>2, <2>0 DEF TypeOK, pluginVars, hostVars
  <2>4. CASE ApplyNothingToDo
    BY <2>4, <2>0 DEF ApplyNothingToDo, ApplyRet, RetType, TypeOK, pluginVars, hostVars
  <2>5. CASE ApplyStart
    BY <2>5, <2>0, NoStateAssumption DEF ApplyStart, TypeOK, Drivers, pluginVars, hostVars
  <2>6. ASSUME NEW d \in Drivers, SyncDriver(d) PROVE TypeInv'
    <3>1. ret' \in {ret, ApplyRet(TRUE)}
      BY <2>6 DEF SyncDriver, Return
    <3>2. ret' \in RetType
      BY <3>1, <2>0, ApplyRetType DEF TypeOK
    <3>3. TypeOK'
      BY <2>6, <2>0, <3>2 DEF SyncDriver, Return, TypeOK
    <3>4. QED
      BY <2>6, <2>0, <3>3 DEF SyncDriver, Return
  <2>7. CASE ApplyFinish
    <3>1. ParamMap(addToDesiredKernelParams(desiredKernelParams, KernelParamPciRealloc))
      BY <2>0, AddToDesiredKernelParamsType DEF KParams, VfioKParams
    <3>2. ParamMap(desiredKernelParams')
      BY <2>7, <2>0, <3>1 DEF ApplyFinish, pluginVars
    <3>3. ret' \in RetType
      <4>1. ret' \in {ApplyRet(TRUE), ApplyRet(FALSE)}
        BY <2>7 DEF ApplyFinish, Return
      <4>2. QED
        BY <4>1, ApplyRetType
    <3>4. desireState \in Specs
      BY <2>7, <2>0 DEF ApplyFinish
    <3>5. TypeOK'
      BY <2>7, <2>0, <3>2, <3>3, <3>4 DEF ApplyFinish, Return, TypeOK, ParamMap, pluginVars
    <3>6. QED
      BY <2>7, <3>5 DEF ApplyFinish, Return
  <2>8. CASE DaemonRestart
    BY <2>8, <2>0 DEF DaemonRestart, NewGenericPlugin, NoRet, RetType, Drivers, TypeOK, hostVars
  <2>9. CASE NodeReboot
    BY <2>9, <2>0 DEF NodeReboot, NewGenericPlugin, NoRet, RetType, Drivers, TypeOK
  <2>10. CASE UNCHANGED vars
    BY <2>10, <2>0 DEF vars, pluginVars, callVars, hostVars, TypeOK
  <2>11. QED
    BY <2>1, <2>2, <2>3, <2>4, <2>5, <2>6, <2>7, <2>8, <2>9, <2>10
       DEF Next, CallStep
<1>3. QED
  BY <1>1, <1>2, PTL DEF Spec

(* Every reachable state of the plugin is well typed (TypeOK): the ledger  *)
(* maps queued kernel parameters to attempt counts, the loop cursors stay  *)
(* within the driver catalogue and the parameter set, and the values a     *)
(* call returns are well formed.                                            *)
THEOREM TypeSafe == Spec => []TypeOK
<1>1. TypeInv => TypeOK
  BY DEF TypeInv
<1>. QED
  BY <1>1, TypeCorrect, PTL


-----------------------------------------------------------------------------
(* The IOMMU parameters of vfio_pci.                                       *)

IommuParams == {KernelParamIntelIommu, KernelParamIommuPt}

\* vfio_pci is loaded only with intel_iommu=on and iommu=pt tracked in
\* DesiredKernelParams, so that syncDesiredKernelParams keeps asking for
\* them for as long as the process runs.
THEOREM VfioParamsTracked == Spec => []VfioKernelParamsTracked
<1> USE DEF VfioInv, VfioKernelParamsTracked
<1>1. Init => VfioInv
  BY DEF Init, Drivers
<1>2. TypeInv /\ VfioInv /\ [Next]_vars => VfioInv'
  <2> SUFFICES ASSUME TypeInv, VfioInv, [Next]_vars PROVE VfioInv'
    OBVIOUS
  <2>0. /\ ParamMap(desiredKernelParams)
        /\ kparamsToVisit \subseteq DOMAIN desiredKernelParams
        /\ pc = "SyncDriverState" => desireState \in Specs
        /\ driverLoaded \in [Drivers -> BOOLEAN]
    BY TypeOKParamMap DEF TypeInv, TypeOK
  <2>1. ASSUME NEW new \in Specs, NEW status \in Statuses, OnNodeStateChange(new, status)
        PROVE  VfioInv'
    <3>1. /\ ParamMap(addVfioDesiredKernelParam(new))
          /\ DOMAIN desiredKernelParams \subseteq DOMAIN addVfioDesiredKernelParam(new)
          /\ (~driverLoaded[Vfio] /\ NeedDriver(Vfio, new))
               => IommuParams \subseteq DOMAIN addVfioDesiredKernelParam(new)
      BY <2>0, AddVfioDesiredKernelParamType DEF IommuParams
    <3>2. /\ desireState' = new
          /\ desiredKernelParams' = addVfioDesiredKernelParam(new)
          /\ driverLoaded' = driverLoaded
      BY <2>1 DEF OnNodeStateChange
    <3>3. QED
      BY <3>1, <3>2 DEF IommuParams
  <2>2. ASSUME NEW k \in KParams, SyncKernelParam(k) PROVE VfioInv'
    <3>1. k \in DOMAIN desiredKernelParams
      BY <2>0, <2>2 DEF SyncKernelParam
    <3>2. DOMAIN [desiredKernelParams EXCEPT ![k] = @ + 1] = DOMAIN desiredKernelParams
      BY <2>0, <3>1, IncrementType
    <3>3. /\ desiredKernelParams' \in {desiredKernelParams, [desiredKernelParams EXCEPT ![k] = @ + 1]}
          /\ UNCHANGED <<desireState, driverLoaded>>
      BY <2>2 DEF SyncKernelParam, ReturnRebootError, Return
    <3>4. QED
      BY <3>2, <3>3
  <2>3. ASSUME NEW d \in Drivers, SyncDriver(d) PROVE VfioInv'
    <3>1. UNCHANGED <<desireState, desiredKernelParams>>
      BY <2>3 DEF SyncDriver
    <3>2. \/ driverLoaded' = driverLoaded
          \/ /\ NeedDriver(d, desireState)
             /\ pc = "SyncDriverState"
             /\ driverLoaded' = [driverLoaded EXCEPT ![d] = TRUE]
      BY <2>3 DEF SyncDriver, Return
    <3>3. desireState # NoState
      BY <2>3, <2>0, NoStateAssumption DEF SyncDriver
    <3>4. driverLoaded'[Vfio] => driverLoaded[Vfio] \/ NeedDriver(Vfio, desireState)
      BY <3>2, <2>0 DEF Drivers
    <3>5. QED
      BY <3>1, <3>3, <3>4
  <2>4. CASE ApplyFinish
    <3>1. UNCHANGED <<desireState, driverLoaded>>
      BY <2>4 DEF ApplyFinish, pluginVars
    <3>2. DOMAIN addToDesiredKernelParams(desiredKernelParams, KernelParamPciRealloc)
            = DOMAIN desiredKernelParams \cup {KernelParamPciRealloc}
      BY <2>0, AddToDesiredKernelParamsType DEF KParams, VfioKParams
    <3>3. DOMAIN desiredKernelParams \subseteq DOMAIN desiredKernelParams'
      BY <2>4, <3>2 DEF ApplyFinish, pluginVars
    <3>4. QED
      BY <3>1, <3>3
  <2>5. CASE DaemonRestart \/ NodeReboot
    <3>1. desireState' = NoState /\ driverLoaded' = [d \in Drivers |-> FALSE]
      BY <2>5 DEF DaemonRestart, NodeReboot, NewGenericPlugin
    <3>2. QED
      BY <3>1 DEF Drivers
  <2>6. CASE SyncKernelParamsDone \/ ApplyNothingToDo \/ ApplyStart \/ UNCHANGED vars
    <3>1. UNCHANGED pluginVars
      BY <2>6 DEF SyncKernelParamsDone, ApplyNothingToDo, ApplyStart, vars
    <3>2. QED
      BY <3>1 DEF pluginVars
  <2>7. QED
    BY <2>1, <2>2, <2>3, <2>4, <2>5, <2>6 DEF Next, CallStep
<1>3. QED
  BY <1>1, <1>2, TypeCorrect, PTL DEF Spec

-----------------------------------------------------------------------------
(* Drivers of an applied state are loaded.                                 *)

\* AppliedDriversLoaded strengthened: a DriverLoaded flag means the module
\* is in the kernel; inside syncDriverState every driver already visited
\* that DesireState needs is marked loaded; and the drivers a recorded
\* LastState needs (by the catalogue) are in the kernel.
AppliedInv ==
    /\ \A d \in Drivers : driverLoaded[d] => d \in kmods
    /\ pc = "SyncDriverState" =>
          \A d \in Drivers \ driversToVisit :
             NeedDriver(d, desireState) => driverLoaded[d]
    /\ lastState # NoState =>
          \A d \in Drivers : NeedDriver(d, lastState) => d \in kmods

\* The catalogue asks, for each driver, exactly what spec section 4.1 says
\* that driver is needed for.
LEMMA NeedDriverMatchesSpec ==
    ASSUME NEW s, NEW d \in Drivers
    PROVE  NeedDriver(d, s) = SpecNeedsDriver(d, s)
<1>1. CASE d = Vfio
  BY <1>1 DEF NeedDriver, DriverStateMap, SpecNeedsDriver, needDriverCheckDeviceType,
             Drivers, Vfio, VirtioVdpa, VhostVdpa
<1>2. CASE d = VirtioVdpa
  BY <1>2 DEF NeedDriver, DriverStateMap, SpecNeedsDriver, needDriverCheckVdpaType,
             Drivers, Vfio, VirtioVdpa, VhostVdpa
<1>3. CASE d = VhostVdpa
  BY <1>3 DEF NeedDriver, DriverStateMap, SpecNeedsDriver, needDriverCheckVdpaType,
             Drivers, Vfio, VirtioVdpa, VhostVdpa
<1>4. QED
  BY <1>1, <1>2, <1>3 DEF Drivers

\* Every step keeps AppliedInv.
LEMMA AppliedInvStep == TypeInv /\ AppliedInv /\ [Next]_vars => AppliedInv'
<1> SUFFICES ASSUME TypeInv, AppliedInv, [Next]_vars PROVE AppliedInv'
  OBVIOUS
<1>0. driverLoaded \in [Drivers -> BOOLEAN]
  BY DEF TypeInv, TypeOK
\* Steps that leave the flags, the modules and LastState alone and do not
\* enter syncDriverState.
<1>1. ASSUME UNCHANGED <<driverLoaded, kmods, lastState>>,
             pc' # "SyncDriverState"
      PROVE  AppliedInv'
  BY <1>1 DEF AppliedInv
<1>2. ASSUME NEW new \in Specs, NEW status \in Statuses, OnNodeStateChange(new, status)
      PROVE  AppliedInv'
  BY <1>1, <1>2 DEF OnNodeStateChange, hostVars
<1>3. ASSUME NEW k \in KParams, SyncKernelParam(k) PROVE AppliedInv'
  <2>1. pc = "SyncKernelParams" /\ pc' \in {pc, "Idle"}
    BY <1>3 DEF SyncKernelParam, ReturnRebootError, Return
  <2>2. QED
    BY <1>1, <1>3, <2>1 DEF SyncKernelParam
<1>4. CASE SyncKernelParamsDone
  <2>1. pc' = "Idle"
    BY <1>4 DEF SyncKernelParamsDone, ReturnRebootError, Return
  <2>2. QED
    BY <1>1, <1>4, <2>1 DEF SyncKernelParamsDone, pluginVars, hostVars
<1>5. CASE ApplyNothingToDo
  BY <1>1, <1>5 DEF ApplyNothingToDo, pluginVars, hostVars
<1>6. CASE ApplyStart
  BY <1>6 DEF ApplyStart, AppliedInv, pluginVars, hostVars
<1>7. ASSUME NEW d \in Drivers, SyncDriver(d) PROVE AppliedInv'
  <2>1. /\ UNCHANGED <<desireState, lastState>>
        /\ pc = "SyncDriverState"
    BY <1>7 DEF SyncDriver
  <2>2. CASE /\ driverLoaded[d] \/ ~NeedDriver(d, desireState)
             /\ driversToVisit' = driversToVisit \ {d}
             /\ UNCHANGED <<pc, driverLoaded, kmods>>
    BY <2>1, <2>2 DEF AppliedInv
  <2>3. CASE /\ kmods' = kmods \cup {d}
             /\ driverLoaded' = [driverLoaded EXCEPT ![d] = TRUE]
             /\ driversToVisit' = driversToVisit \ {d}
             /\ UNCHANGED pc
    BY <1>0, <2>1, <2>3 DEF AppliedInv
  <2>4. CASE /\ Return(ApplyRet(TRUE))
             /\ UNCHANGED <<driverLoaded, kmods>>
    BY <1>1, <2>1, <2>4 DEF Return
  <2>5. QED
    BY <1>7, <2>2, <2>3, <2>4 DEF SyncDriver
<1>8. CASE ApplyFinish
  <2>1. /\ pc' = "Idle"
        /\ UNCHANGED <<driverLoaded, kmods>>
        /\ lastState' \in {lastState, desireState}
    BY <1>8 DEF ApplyFinish, Return, pluginVars
  \* Every driver has been visited: the ones DesireState needs are loaded.
  <2>2. \A d \in Drivers : NeedDriver(d, desireState) => d \in kmods
    BY <1>8 DEF ApplyFinish, AppliedInv
  <2>3. QED
    BY <2>1, <2>2 DEF AppliedInv
<1>9. CASE DaemonRestart \/ NodeReboot
  BY <1>9 DEF DaemonRestart, NodeReboot, NewGenericPlugin, AppliedInv
<1>10. CASE UNCHANGED vars
  BY <1>10 DEF vars, pluginVars, callVars, hostVars, AppliedInv
<1>11. QED
  BY <1>2, <1>3, <1>4, <1>5, <1>6, <1>7, <1>8, <1>9, <1>10 DEF Next, CallStep

\* Once Apply has recorded LastState, every kernel module spec section 4.1
\* says that state needs is loaded (AppliedDriversLoaded): syncDriverState
\* visits the whole catalogue before SyncNodeState may succeed, a flag is
\* only set with its module, and a restart or a reboot clears the flags and
\* LastState together.
THEOREM DriversLoaded == Spec => []AppliedDriversLoaded
<1>1. Init => AppliedInv
  BY DEF Init, AppliedInv, Drivers
<1>2. AppliedInv /\ TypeInv => AppliedDriversLoaded
  BY NeedDriverMatchesSpec DEF AppliedInv, AppliedDriversLoaded
<1>3. QED
  BY <1>1, <1>2, AppliedInvStep, TypeCorrect, PTL DEF Spec

=============================================================================
