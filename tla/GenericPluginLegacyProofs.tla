--------------------- MODULE GenericPluginLegacyProofs ---------------------
(***************************************************************************)
(* Proofs about GenericPluginLegacy for every set of desired and observed *)
(* interface lists.                                                        *)
(***************************************************************************)
EXTENDS GenericPluginLegacy, TLAPS

\* A tracked-parameter map: keys are kernel parameters, values counters.
ParamMap(params) ==
    DOMAIN params \subseteq KParams /\ params \in [DOMAIN params -> Nat]

\* The counter a parameter had before OnNodeStateChange (0 if untracked).
BeforeCount(k) ==
    IF k \in DOMAIN desiredKernelParams THEN desiredKernelParams[k] ELSE 0

\* What needRebootNode leaves in the ledger, seen as a ledger step: the
\* old keys are kept, every counter stays or goes up by one for an unset
\* parameter not given up, and only such a parameter is written.
LedgerStep(r) ==
    /\ ParamMap(r.params)
    /\ DOMAIN desiredKernelParams \subseteq DOMAIN r.params
    /\ \A k \in DOMAIN r.params :
          \/ r.params[k] = BeforeCount(k)
          \/ r.params[k] = BeforeCount(k) + 1 /\ k \notin cmdline /\ BeforeCount(k) <= 4
    /\ r.written \subseteq DOMAIN r.params
    /\ \A k \in r.written : r.params[k] = BeforeCount(k) + 1

-----------------------------------------------------------------------------
(* Lemmas on the kernel-parameter map.                                     *)

\* AddToDesiredKernelParams adds its key at 0 and keeps every other entry.
LEMMA AddType ==
    ASSUME NEW params, NEW kparam \in KParams, ParamMap(params)
    PROVE  LET r == AddToDesiredKernelParams(params, kparam) IN
           /\ ParamMap(r)
           /\ DOMAIN r = DOMAIN params \cup {kparam}
           /\ \A k \in DOMAIN r : r[k] = IF k \in DOMAIN params THEN params[k] ELSE 0
BY DEF AddToDesiredKernelParams, ParamMap

\* SetAllDesiredKernelParams keeps the keys, and counts a parameter once
\* only when it is unset and has at most 4 attempts; it writes only
\* parameters it counted.
LEMMA SetAllStep ==
    ASSUME NEW params, NEW runs, NEW live, ParamMap(params)
    PROVE  LET r == SetAllDesiredKernelParams(params, runs, live) IN
           /\ ParamMap(r.params)
           /\ DOMAIN r.params = DOMAIN params
           /\ \A k \in DOMAIN params :
                 \/ r.params[k] = params[k]
                 \/ r.params[k] = params[k] + 1 /\ k \notin live /\ params[k] <= 4
           /\ r.written \subseteq DOMAIN params
           /\ \A k \in r.written : r.params[k] = params[k] + 1
           /\ r.needReboot \in BOOLEAN
BY DEF SetAllDesiredKernelParams, ParamMap, SetAllGiveUp

\* needRebootNode, from a typed ledger, is a ledger step and marks drivers
\* with load status values.
LEMMA NeedRebootNodeStep ==
    ASSUME NEW state, NEW update \in BOOLEAN, NEW runs,
           ParamMap(desiredKernelParams),
           loadVfioDriver \in {unloaded, loading, loaded},
           loadVirtioVdpaDriver \in {unloaded, loading, loaded}
    PROVE  LET r == needRebootNode(state, update, runs) IN
           /\ LedgerStep(r)
           /\ r.vfio \in {unloaded, loading, loaded}
           /\ r.virtio \in {unloaded, loading, loaded}
           /\ r.needReboot \in BOOLEAN
<1> DEFINE markVfio == loadVfioDriver # loaded /\ needVfioDriver(state)
<1> DEFINE p1 == AddToDesiredKernelParams(desiredKernelParams, KernelParamIntelIommu)
<1> DEFINE p2 == AddToDesiredKernelParams(p1, KernelParamIommuPt)
<1> DEFINE params == IF markVfio THEN p2 ELSE desiredKernelParams
<1> DEFINE setAll == SetAllDesiredKernelParams(params, runs, cmdline)
<1> DEFINE r == needRebootNode(state, update, runs)
<1>1. KernelParamIntelIommu \in KParams /\ KernelParamIommuPt \in KParams
  BY DEF KParams
<1>2. /\ ParamMap(p1)
      /\ DOMAIN p1 = DOMAIN desiredKernelParams \cup {KernelParamIntelIommu}
      /\ \A k \in DOMAIN p1 : p1[k] = BeforeCount(k)
  BY <1>1, AddType DEF BeforeCount
<1>3. /\ ParamMap(p2)
      /\ DOMAIN p2 = DOMAIN p1 \cup {KernelParamIommuPt}
      /\ \A k \in DOMAIN p2 : p2[k] = BeforeCount(k)
  <2>1. /\ ParamMap(p2)
        /\ DOMAIN p2 = DOMAIN p1 \cup {KernelParamIommuPt}
        /\ \A k \in DOMAIN p2 : p2[k] = IF k \in DOMAIN p1 THEN p1[k] ELSE 0
    BY <1>1, <1>2, AddType
  <2>2. QED
    BY <2>1, <1>2 DEF BeforeCount
\* The queued map: old keys kept, every counter as before.
<1>4. /\ ParamMap(params)
      /\ DOMAIN desiredKernelParams \subseteq DOMAIN params
      /\ \A k \in DOMAIN params : params[k] = BeforeCount(k)
  BY <1>2, <1>3 DEF BeforeCount
<1>5. /\ ParamMap(setAll.params)
      /\ DOMAIN setAll.params = DOMAIN params
      /\ \A k \in DOMAIN params :
            \/ setAll.params[k] = params[k]
            \/ setAll.params[k] = params[k] + 1 /\ k \notin cmdline /\ params[k] <= 4
      /\ setAll.written \subseteq DOMAIN params
      /\ \A k \in setAll.written : setAll.params[k] = params[k] + 1
      /\ setAll.needReboot \in BOOLEAN
  BY <1>4, SetAllStep
<1>6. /\ r.params = IF update THEN params ELSE setAll.params
      /\ r.written = IF update THEN {} ELSE setAll.written
      /\ r.needReboot = (update \/ setAll.needReboot)
      /\ r.vfio = IF markVfio THEN loading ELSE loadVfioDriver
      /\ r.virtio = IF loadVirtioVdpaDriver # loaded /\ needVirtioVdpaDriver(state)
                      THEN loading ELSE loadVirtioVdpaDriver
  BY DEF needRebootNode
<1>7. LedgerStep(r)
  <2>1. CASE update
    BY <2>1, <1>4, <1>6 DEF LedgerStep
  <2>2. CASE ~update
    BY <2>2, <1>4, <1>5, <1>6 DEF LedgerStep
  <2>3. QED
    BY <2>1, <2>2
<1>8. QED
  BY <1>5, <1>6, <1>7

-----------------------------------------------------------------------------
(* Type correctness.                                                       *)

\* The results Apply returns are results.
LEMMA ApplyRetType == \A b \in BOOLEAN : ApplyRet(b) \in RetType
BY DEF ApplyRet, RetType

LEMMA TypeOKParamMap == TypeOK => ParamMap(desiredKernelParams)
BY DEF TypeOK, ParamMap

\* The initial state (no process state yet, a fresh host) is well typed.
LEMMA TypeInit == Init => TypeOK
BY DEF Init, TypeOK, NoRet, RetType, unloaded, loading, loaded

\* Every call, restart and reboot keeps the state well typed.
LEMMA TypeStep == TypeOK /\ [Next]_vars => TypeOK'
<2> SUFFICES ASSUME TypeOK, [Next]_vars PROVE TypeOK'
  OBVIOUS
<2>0. ParamMap(desiredKernelParams)
  BY TypeOKParamMap
<2>1. ASSUME NEW new \in Specs, NEW status \in Statuses,
             OnNodeStateChange(new, status)
      PROVE  TypeOK'
  <3>1. PICK update \in BOOLEAN, runs \in [KParams -> ScriptRuns] :
           LET r == needRebootNode(new, update, runs) IN
           /\ loadVfioDriver' = r.vfio
           /\ loadVirtioVdpaDriver' = r.virtio
           /\ desiredKernelParams' = r.params
           /\ bootcfg' = bootcfg \cup r.written
           /\ ret' = [call |-> "OnNodeStateChange",
                      needDrain |-> needDrainNode(new, status) \/ r.needReboot,
                      needReboot |-> r.needReboot, err |-> FALSE]
    BY <2>1 DEF OnNodeStateChange
  <3> DEFINE r == needRebootNode(new, update, runs)
  <3>2. /\ LedgerStep(r)
        /\ r.vfio \in {unloaded, loading, loaded}
        /\ r.virtio \in {unloaded, loading, loaded}
        /\ r.needReboot \in BOOLEAN
    BY <2>0, NeedRebootNodeStep DEF TypeOK
  <3>3. ret' \in RetType
    BY <3>1, <3>2 DEF RetType
  <3>4. desiredKernelParams' \in [DOMAIN desiredKernelParams' -> Nat]
        /\ DOMAIN desiredKernelParams' \subseteq KParams
        /\ bootcfg' \subseteq KParams
    BY <3>1, <3>2 DEF LedgerStep, ParamMap, TypeOK
  <3>5. QED
    BY <2>1, <3>1, <3>2, <3>3, <3>4 DEF OnNodeStateChange, TypeOK
<2>2. CASE Apply
  <3>1. desireState \in Specs
    BY <2>2 DEF Apply, TypeOK
  <3>2. ret' \in {ApplyRet(TRUE), ApplyRet(FALSE)}
    BY <2>2 DEF Apply, ApplySyncNodeState
  <3>3. ret' \in RetType
    BY <3>2, ApplyRetType
  <3>4. /\ hostIfaces' \in Specs \cup {Unconfigured, Partial}
        /\ lastState' \in Specs \cup {NoState}
    BY <2>2, <3>1 DEF Apply, ApplySyncNodeState, TypeOK
  <3>5. /\ loadVfioDriver' \in {unloaded, loading, loaded}
        /\ loadVirtioVdpaDriver' \in {unloaded, loading, loaded}
        /\ kmods' \subseteq {Vfio, VirtioVdpa, VhostVdpa}
    BY <2>2 DEF Apply, LoadedAfter, TypeOK
  <3>6. QED
    BY <2>2, <3>3, <3>4, <3>5 DEF Apply, TypeOK
<2>3. CASE DaemonRestart
  BY <2>3 DEF DaemonRestart, NewGenericPlugin, hostVars, TypeOK, NoRet, RetType,
             unloaded, loading, loaded
<2>4. CASE NodeReboot
  BY <2>4 DEF NodeReboot, NewGenericPlugin, TypeOK, NoRet, RetType,
             unloaded, loading, loaded
<2>5. CASE UNCHANGED vars
  BY <2>5 DEF vars, pluginVars, hostVars, TypeOK
<2>6. QED
  BY <2>1, <2>2, <2>3, <2>4, <2>5 DEF Next

\* Every reachable state of the legacy plugin is well typed (TypeOK): the
\* load statuses stay in unloaded/loading/loaded, the ledger maps kernel
\* parameters to counters, and the host holds what the plugin wrote.
THEOREM LegacyTypeSafe == Spec => []TypeOK
BY TypeInit, TypeStep, PTL DEF Spec

-----------------------------------------------------------------------------
(* Refinement of the kernel-parameter ledger.                              *)

\* The legacy plugin implements the ledger of spec section 4.2 with its
\* give-up threshold of 4 (ImplementsLedger): needRebootNode only queues
\* parameters at 0 or keeps their counters, tries and counts a parameter
\* only when it is off the live command line with at most 4 attempts, and
\* writes only what it tried; Apply leaves the ledger and the boot
\* configuration alone; a restart or a reboot is the ledger's Forget or Boot.
THEOREM LegacyImplementsLedger == Spec => ImplementsLedger
<1>1. Init => Ledger!Init
  BY DEF Init, Ledger!Init
<1>2. TypeOK /\ [Next]_vars => [Ledger!Next]_Ledger!ledgerVars
  <2> SUFFICES ASSUME TypeOK, [Next]_vars PROVE [Ledger!Next]_Ledger!ledgerVars
    OBVIOUS
  <2>0. ParamMap(desiredKernelParams)
    BY TypeOKParamMap
  <2>1. ASSUME NEW new \in Specs, NEW status \in Statuses,
               OnNodeStateChange(new, status)
        PROVE  Ledger!Reconcile
    <3>1. PICK update \in BOOLEAN, runs \in [KParams -> ScriptRuns] :
             LET r == needRebootNode(new, update, runs) IN
             /\ desiredKernelParams' = r.params
             /\ bootcfg' = bootcfg \cup r.written
      BY <2>1 DEF OnNodeStateChange
    <3> DEFINE r == needRebootNode(new, update, runs)
    <3>2. LedgerStep(r)
      BY <2>0, NeedRebootNodeStep DEF TypeOK
    <3>3. cmdline' = cmdline
      BY <2>1 DEF OnNodeStateChange
    <3>4. \A k : Ledger!Before(k) = BeforeCount(k)
      BY DEF Ledger!Before, BeforeCount
    <3>5. QED
      BY <3>1, <3>2, <3>3, <3>4, SetAllGiveUp = 4
      DEF Ledger!Reconcile, Ledger!Eligible, LedgerStep, ParamMap, SetAllGiveUp
  <2>2. CASE Apply
    BY <2>2 DEF Apply, Ledger!ledgerVars
  <2>3. CASE DaemonRestart
    BY <2>3 DEF DaemonRestart, NewGenericPlugin, hostVars, Ledger!Next, Ledger!Forget
  <2>4. CASE NodeReboot
    BY <2>4 DEF NodeReboot, NewGenericPlugin, Ledger!Next, Ledger!Boot
  <2>5. CASE UNCHANGED vars
    BY <2>5 DEF vars, pluginVars, hostVars, Ledger!ledgerVars
  <2>6. QED
    BY <2>1, <2>2, <2>3, <2>4, <2>5 DEF Next, Ledger!Next
<1>3. QED
  BY <1>1, <1>2, LegacyTypeSafe, PTL DEF ImplementsLedger, Ledger!Spec, Spec

-----------------------------------------------------------------------------
(* Drivers of an applied state are loaded.                                 *)

\* No desired list asks for a vhost vDPA driver, which this version never
\* loads (run legacy_vhost_not_loaded shows what happens otherwise).
NoVhost == \A s \in Specs : ~SpecNeedsDriver(VhostVdpa, s)

\* AppliedDriversLoaded strengthened: a status loaded means the module is
\* in the kernel; a desired list that needs a driver has it marked (loading
\* or loaded), because needRebootNode marks it in the same call that sets
\* DesireState; and an applied list's drivers are in the kernel.
DriverInv ==
    /\ TypeOK
    /\ loadVfioDriver = loaded => Vfio \in kmods
    /\ loadVirtioVdpaDriver = loaded => VirtioVdpa \in kmods
    /\ desireState # NoState =>
          /\ needVfioDriver(desireState) => loadVfioDriver # unloaded
          /\ needVirtioVdpaDriver(desireState) => loadVirtioVdpaDriver # unloaded
    /\ lastState # NoState =>
          /\ needVfioDriver(lastState) => Vfio \in kmods
          /\ needVirtioVdpaDriver(lastState) => VirtioVdpa \in kmods

\* The drivers the spec asks for, for vfio_pci and virtio_vdpa, are the ones
\* needVfioDriver and needVirtioVdpaDriver test for.
LEMMA NeedsDriverCases ==
    ASSUME NEW s
    PROVE  /\ SpecNeedsDriver(Vfio, s) = needVfioDriver(s)
           /\ SpecNeedsDriver(VirtioVdpa, s) = needVirtioVdpaDriver(s)
BY DEF SpecNeedsDriver, needVfioDriver, needVirtioVdpaDriver, Vfio, VirtioVdpa, VhostVdpa

\* DriverInv gives AppliedDriversLoaded when no list needs vhost_vdpa.
LEMMA DriverInvApplied == NoVhost /\ DriverInv => AppliedDriversLoaded
<1> SUFFICES ASSUME NoVhost, DriverInv, lastState # NoState,
                    NEW d \in {Vfio, VirtioVdpa, VhostVdpa},
                    SpecNeedsDriver(d, lastState)
             PROVE  d \in kmods
  BY DEF AppliedDriversLoaded
<1>1. lastState \in Specs
  BY DEF DriverInv, TypeOK
<1>2. d # VhostVdpa
  BY <1>1 DEF NoVhost
<1>3. QED
  BY <1>2, NeedsDriverCases DEF DriverInv

\* The initial state has no desired or applied list.
LEMMA DriverInvInit == Init => DriverInv
BY TypeInit DEF Init, DriverInv, unloaded, loaded

\* Every step keeps DriverInv.
LEMMA DriverInvStep == DriverInv /\ [Next]_vars => DriverInv'
<1> SUFFICES ASSUME DriverInv, [Next]_vars PROVE DriverInv'
  OBVIOUS
<1> USE DEF unloaded, loading, loaded
<1>0. TypeOK'
  BY TypeStep DEF DriverInv
<1>6. /\ loadVfioDriver \in {unloaded, loading, loaded}
      /\ loadVirtioVdpaDriver \in {unloaded, loading, loaded}
  BY DEF DriverInv, TypeOK
<1>1. ASSUME NEW new \in Specs, NEW status \in Statuses,
             OnNodeStateChange(new, status)
      PROVE  DriverInv'
  <2>1. PICK update \in BOOLEAN, runs \in [KParams -> ScriptRuns] :
           LET r == needRebootNode(new, update, runs) IN
           /\ loadVfioDriver' = r.vfio
           /\ loadVirtioVdpaDriver' = r.virtio
    BY <1>1 DEF OnNodeStateChange
  <2> DEFINE r == needRebootNode(new, update, runs)
  <2>2. /\ r.vfio = IF loadVfioDriver # loaded /\ needVfioDriver(new)
                      THEN loading ELSE loadVfioDriver
        /\ r.virtio = IF loadVirtioVdpaDriver # loaded /\ needVirtioVdpaDriver(new)
                        THEN loading ELSE loadVirtioVdpaDriver
    BY DEF needRebootNode
  <2>3. /\ desireState' = new
        /\ UNCHANGED <<lastState, kmods>>
    BY <1>1 DEF OnNodeStateChange
  <2>4. QED
    BY <1>0, <2>1, <2>2, <2>3 DEF DriverInv
<1>2. CASE Apply
  <2>1. desireState # NoState /\ UNCHANGED desireState
    BY <1>2 DEF Apply
  \* A load that fails leaves the statuses and the modules as they were.
  <2>2. CASE /\ loadVfioDriver = loading
             /\ UNCHANGED <<loadVfioDriver, loadVirtioVdpaDriver, lastState, kmods>>
    BY <1>0, <2>1, <2>2 DEF DriverInv
  \* vfio_pci is loaded if it was marked, then virtio_vdpa fails.
  <2>3. CASE /\ loadVfioDriver' = LoadedAfter(loadVfioDriver)
             /\ kmods' = kmods \cup (IF loadVfioDriver = loading THEN {Vfio} ELSE {})
             /\ UNCHANGED <<loadVirtioVdpaDriver, lastState>>
    BY <1>0, <1>6, <2>1, <2>3 DEF DriverInv, LoadedAfter
  \* Both loads succeed; a success records the desired list.
  <2>4. CASE /\ loadVfioDriver' = LoadedAfter(loadVfioDriver)
             /\ loadVirtioVdpaDriver' = LoadedAfter(loadVirtioVdpaDriver)
             /\ kmods' = kmods \cup (IF loadVfioDriver = loading THEN {Vfio} ELSE {})
                               \cup (IF loadVirtioVdpaDriver = loading THEN {VirtioVdpa} ELSE {})
             /\ ApplySyncNodeState
    <3>1. lastState' = lastState \/ lastState' = desireState
      BY <2>4 DEF ApplySyncNodeState
    <3>2. /\ loadVfioDriver = loaded => Vfio \in kmods'
          /\ loadVirtioVdpaDriver = loaded => VirtioVdpa \in kmods'
          /\ loadVfioDriver' = loaded => Vfio \in kmods'
          /\ loadVirtioVdpaDriver' = loaded => VirtioVdpa \in kmods'
      BY <1>6, <2>4 DEF DriverInv, LoadedAfter
    <3>3. CASE lastState' = lastState
      BY <1>0, <1>6, <2>1, <2>4, <3>2, <3>3 DEF DriverInv, LoadedAfter
    <3>4. CASE lastState' = desireState
      BY <1>0, <1>6, <2>1, <2>4, <3>2, <3>4 DEF DriverInv, LoadedAfter
    <3>5. QED
      BY <3>1, <3>3, <3>4
  <2>5. QED
    BY <1>2, <2>2, <2>3, <2>4 DEF Apply
<1>3. CASE DaemonRestart \/ NodeReboot
  BY <1>0, <1>3 DEF DaemonRestart, NodeReboot, NewGenericPlugin, DriverInv
<1>4. CASE UNCHANGED vars
  BY <1>0, <1>4 DEF vars, pluginVars, hostVars, DriverInv
<1>5. QED
  BY <1>1, <1>2, <1>3, <1>4 DEF Next

\* When no desired list asks for vhost_vdpa, every kernel module a recorded
\* LastState needs is loaded (AppliedDriversLoaded): needRebootNode marks a
\* needed driver in the call that sets DesireState, and Apply loads every
\* marked driver before SyncNodeState can succeed and record LastState.
THEOREM LegacyDriversLoaded == NoVhost => (Spec => []AppliedDriversLoaded)
<1> SUFFICES ASSUME NoVhost PROVE Spec => []AppliedDriversLoaded
  OBVIOUS
<1>1. Spec => []DriverInv
  BY DriverInvInit, DriverInvStep, PTL DEF Spec
<1>2. QED
  BY <1>1, DriverInvApplied, PTL

-----------------------------------------------------------------------------
(* Action properties.                                                      *)

\* What one step does to the ledger and the load statuses: needRebootNode
\* is a ledger step and moves a status only from unloaded or loading to
\* loading; Apply moves a status only from loading to loaded.
LEMMA LegacyStepCases ==
    ASSUME TypeOK, [Next]_vars
    PROVE  \/ DaemonRestart \/ NodeReboot
           \/ /\ \E r : LedgerStep(r) /\ desiredKernelParams' = r.params
              /\ loadVfioDriver' \in {loadVfioDriver, loading}
              /\ loadVfioDriver' = loading => loadVfioDriver \in {unloaded, loading}
              /\ loadVirtioVdpaDriver' \in {loadVirtioVdpaDriver, loading}
              /\ loadVirtioVdpaDriver' = loading => loadVirtioVdpaDriver \in {unloaded, loading}
           \/ /\ UNCHANGED desiredKernelParams
              /\ loadVfioDriver' \in {loadVfioDriver, LoadedAfter(loadVfioDriver)}
              /\ loadVirtioVdpaDriver' \in {loadVirtioVdpaDriver, LoadedAfter(loadVirtioVdpaDriver)}
<1>0. ParamMap(desiredKernelParams)
  BY TypeOKParamMap
<1>1. ASSUME NEW new \in Specs, NEW status \in Statuses, OnNodeStateChange(new, status)
      PROVE  /\ \E r : LedgerStep(r) /\ desiredKernelParams' = r.params
             /\ loadVfioDriver' \in {loadVfioDriver, loading}
             /\ loadVfioDriver' = loading => loadVfioDriver \in {unloaded, loading}
             /\ loadVirtioVdpaDriver' \in {loadVirtioVdpaDriver, loading}
             /\ loadVirtioVdpaDriver' = loading => loadVirtioVdpaDriver \in {unloaded, loading}
  <2>1. PICK update \in BOOLEAN, runs \in [KParams -> ScriptRuns] :
           LET r == needRebootNode(new, update, runs) IN
           /\ loadVfioDriver' = r.vfio
           /\ loadVirtioVdpaDriver' = r.virtio
           /\ desiredKernelParams' = r.params
    BY <1>1 DEF OnNodeStateChange
  <2> DEFINE r == needRebootNode(new, update, runs)
  <2>2. LedgerStep(r)
    BY <1>0, NeedRebootNodeStep DEF TypeOK
  <2>3. /\ r.vfio = IF loadVfioDriver # loaded /\ needVfioDriver(new)
                      THEN loading ELSE loadVfioDriver
        /\ r.virtio = IF loadVirtioVdpaDriver # loaded /\ needVirtioVdpaDriver(new)
                        THEN loading ELSE loadVirtioVdpaDriver
    BY DEF needRebootNode
  <2>4. QED
    BY <2>1, <2>2, <2>3 DEF TypeOK, unloaded, loading, loaded
<1>2. CASE Apply
  BY <1>2 DEF Apply
<1>3. CASE UNCHANGED vars
  BY <1>3 DEF vars, pluginVars
<1>4. QED
  BY <1>1, <1>2, <1>3 DEF Next

\* Within one process a driver's load status never goes back
\* (DriverLoadNeverRegresses): needRebootNode marks only a driver that is
\* not loaded, a failed LoadKernelModule leaves it loading, and only a
\* restart or a reboot starts again from unloaded.
THEOREM LegacyLoadMonotonic == Spec => DriverLoadNeverRegresses
<1>1. TypeOK /\ [Next]_vars =>
        [\/ DaemonRestart
         \/ NodeReboot
         \/ /\ loadVfioDriver' >= loadVfioDriver
            /\ loadVirtioVdpaDriver' >= loadVirtioVdpaDriver]_vars
  <2> SUFFICES ASSUME TypeOK, [Next]_vars
               PROVE  \/ DaemonRestart
                      \/ NodeReboot
                      \/ /\ loadVfioDriver' >= loadVfioDriver
                         /\ loadVirtioVdpaDriver' >= loadVirtioVdpaDriver
    OBVIOUS
  <2>1. /\ loadVfioDriver \in {unloaded, loading, loaded}
        /\ loadVirtioVdpaDriver \in {unloaded, loading, loaded}
    BY DEF TypeOK
  <2>2. QED
    BY <2>1, LegacyStepCases DEF LoadedAfter, unloaded, loading, loaded
<1>2. QED
  BY <1>1, LegacyTypeSafe, PTL DEF Spec, DriverLoadNeverRegresses

=============================================================================
