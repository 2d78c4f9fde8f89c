--------------------------- MODULE GenericPlugin ---------------------------
(***************************************************************************)
(* The generic SR-IOV plugin of src/unnamed/part_000 (the driver-catalog   *)
(* version of pkg/plugins/generic): OnNodeStateChange decides drain and    *)
(* reboot, Apply loads the kernel modules and syncs the interfaces.        *)
(*                                                                         *)
(* The daemon serialises the calls (one reconciliation at a time), but    *)
(* each call is a loop over a Go map whose order is random and which       *)
(* returns on the first error, so a call is modelled as a sequence of      *)
(* steps, one per loop iteration, with pc naming the loop in progress.     *)
(* Between calls the daemon may call either entry point again, and at any *)
(* point the daemon process may restart (plugin memory lost, host kept) or *)
(* the node may reboot (the boot configuration becomes the live kernel     *)
(* command line, loaded modules and VFs are gone).                         *)
(***************************************************************************)
EXTENDS Naturals, Sequences, FiniteSets, DrainPolicy

CONSTANTS
    Specs,          \* desired interface lists the daemon may hand over
    Statuses,       \* observed interface lists that may accompany them
    MaxAttempts,    \* bound on the attempt counters (a model bound)
    NoState,        \* a nil *SriovNetworkNodeState
    Unconfigured,   \* host interfaces with no VFs (fresh boot)
    Partial         \* host interfaces left half-synced by a failed sync

ASSUME MaxAttemptsAssumption == MaxAttempts \in Nat \ {0}
ASSUME NoStateAssumption ==
    /\ NoState \notin Specs
    /\ {Unconfigured, Partial} \cap Specs = {}
    /\ Unconfigured # Partial

VARIABLES
    \* GenericPlugin fields
    desireState,          \* DesireState (its Spec.Interfaces)
    lastState,            \* LastState (its Spec.Interfaces)
    driverLoaded,         \* DriverStateMap[d].DriverLoaded
    desiredKernelParams,  \* DesiredKernelParams: param -> attempts
    \* the call in progress
    pc,                   \* "Idle", "SyncKernelParams" or "SyncDriverState"
    kparamsToVisit,       \* keys the range over DesiredKernelParams has left
    driversToVisit,       \* keys the range over DriverStateMap has left
    needDrain,            \* OnNodeStateChange's named result needDrain
    needReboot,           \* syncDesiredKernelParams's local needReboot
    ret,                  \* what the last call returned
    \* the host
    cmdline,              \* parameters on the live kernel command line
    bootcfg,              \* parameters in the boot loader configuration
    kmods,                \* kernel modules loaded
    hostIfaces            \* interface configuration of the host

pluginVars == <<desireState, lastState, driverLoaded, desiredKernelParams>>
callVars == <<pc, kparamsToVisit, driversToVisit, needDrain, needReboot, ret>>
hostVars == <<cmdline, bootcfg, kmods, hostIfaces>>
vars == <<pluginVars, callVars, hostVars>>

-----------------------------------------------------------------------------
(* Constants of the package.                                               *)

Vfio == "vfio_pci"
VirtioVdpa == "virtio_vdpa"
VhostVdpa == "vhost_vdpa"
Drivers == {Vfio, VirtioVdpa, VhostVdpa}

DeviceTypeVfioPci == "vfio-pci"
DeviceTypeNetDevice == "netdevice"
VdpaTypeVirtio == "virtio"
VdpaTypeVhost == "vhost"

KernelParamIntelIommu == "intel_iommu=on"
KernelParamIommuPt == "iommu=pt"
KernelParamPciRealloc == "pci=realloc"
\* The parameters addVfioDesiredKernelParam queues.
VfioKParams == {KernelParamIntelIommu, KernelParamIommuPt}

\* Every parameter the plugin queues: the vfio ones and pci=realloc, which
\* Apply queues when SyncNodeState runs out of memory.
KParams == VfioKParams \cup {KernelParamPciRealloc}

\* Mutant: the vhost_vdpa catalog entry copied from virtio_vdpa unchanged.
MutantDriverStateMapCopyPaste ==
    [d \in Drivers |->
        CASE d = Vfio ->
               [DeviceType |-> DeviceTypeVfioPci, VdpaType |-> "",
                NeedDriverFunc |-> "needDriverCheckDeviceType"]
          [] d \in {VirtioVdpa, VhostVdpa} ->
               [DeviceType |-> DeviceTypeNetDevice, VdpaType |-> VdpaTypeVirtio,
                NeedDriverFunc |-> "needDriverCheckVdpaType"]]

\* The catalog NewGenericPlugin builds: which field each driver's
\* NeedDriverFunc compares against the VF groups.
DriverStateMap ==
    [d \in Drivers |->
        CASE d = Vfio ->
               [DeviceType |-> DeviceTypeVfioPci, VdpaType |-> "",
                NeedDriverFunc |-> "needDriverCheckDeviceType"]
          [] d = VirtioVdpa ->
               [DeviceType |-> DeviceTypeNetDevice, VdpaType |-> VdpaTypeVirtio,
                NeedDriverFunc |-> "needDriverCheckVdpaType"]
          [] d = VhostVdpa ->
               [DeviceType |-> DeviceTypeNetDevice, VdpaType |-> VdpaTypeVhost,
                NeedDriverFunc |-> "needDriverCheckVdpaType"]]

\* The VF groups of all interfaces of a desired list.
VfGroupsOf(state) == UNION {state[i].vfGroups : i \in 1..Len(state)}

needDriverCheckDeviceType(state, driverState) ==
    \E g \in VfGroupsOf(state) : g.deviceType = driverState.DeviceType

needDriverCheckVdpaType(state, driverState) ==
    \E g \in VfGroupsOf(state) : g.vdpaType = driverState.VdpaType

NeedDriver(d, state) ==
    IF DriverStateMap[d].NeedDriverFunc = "needDriverCheckDeviceType"
      THEN needDriverCheckDeviceType(state, DriverStateMap[d])
      ELSE needDriverCheckVdpaType(state, DriverStateMap[d])

\* Mutant: the membership test dropped, re-queuing resets the counter.
MutantAddToDesiredKernelParamsNoGuard(params, kparam) ==
    [k \in DOMAIN params \cup {kparam} |-> IF k = kparam THEN 0 ELSE params[k]]

\* addToDesiredKernelParams: a new key starts at 0 attempts; a known key
\* keeps its counter.
addToDesiredKernelParams(params, kparam) ==
    IF kparam \in DOMAIN params THEN params
    ELSE [k \in DOMAIN params \cup {kparam} |->
            IF k = kparam THEN 0 ELSE params[k]]

\* Mutant: only intel_iommu=on queued for vfio_pci.
MutantAddVfioOnlyIntelIommu(state) ==
    IF ~driverLoaded[Vfio] /\ NeedDriver(Vfio, state)
      THEN addToDesiredKernelParams(desiredKernelParams, KernelParamIntelIommu)
      ELSE desiredKernelParams

\* addVfioDesiredKernelParam: the IOMMU parameters are queued while vfio_pci
\* is needed and not yet loaded.
addVfioDesiredKernelParam(state) ==
    IF ~driverLoaded[Vfio] /\ NeedDriver(Vfio, state)
      THEN addToDesiredKernelParams(
             addToDesiredKernelParams(desiredKernelParams, KernelParamIntelIommu),
             KernelParamIommuPt)
      ELSE desiredKernelParams

RetType == [call : {"None", "OnNodeStateChange", "Apply"},
            needDrain : BOOLEAN, needReboot : BOOLEAN, err : BOOLEAN]

NoRet == [call |-> "None", needDrain |-> FALSE, needReboot |-> FALSE, err |-> FALSE]

ApplyRet(err) == [call |-> "Apply", needDrain |-> FALSE, needReboot |-> FALSE, err |-> err]

-----------------------------------------------------------------------------
(* The plugin as NewGenericPlugin leaves it, on a freshly installed host  *)
(* whose boot configuration has none of the parameters yet.              *)

\* The state of every field and of the call after NewGenericPlugin: (primed)
\* the values a fresh process starts from.
NewGenericPlugin ==
    /\ desireState' = NoState
    /\ lastState' = NoState
    /\ driverLoaded' = [d \in Drivers |-> FALSE]
    /\ desiredKernelParams' = [k \in {} |-> 0]
    /\ pc' = "Idle"
    /\ kparamsToVisit' = {}
    /\ driversToVisit' = {}
    /\ needDrain' = FALSE
    /\ needReboot' = FALSE
    /\ ret' = NoRet

Init ==
    /\ desireState = NoState
    /\ lastState = NoState
    /\ driverLoaded = [d \in Drivers |-> FALSE]
    /\ desiredKernelParams = [k \in {} |-> 0]
    /\ pc = "Idle"
    /\ kparamsToVisit = {}
    /\ driversToVisit = {}
    /\ needDrain = FALSE
    /\ needReboot = FALSE
    /\ ret = NoRet
    /\ cmdline = {}
    /\ bootcfg = {}
    /\ kmods = {}
    /\ hostIfaces = Unconfigured

-----------------------------------------------------------------------------
(* OnNodeStateChange(new): set DesireState, decide the drain, then         *)
(* needRebootNode: queue the IOMMU parameters and start the loop of        *)
(* syncDesiredKernelParams over the tracked parameters.                    *)

OnNodeStateChange(new, status) ==
    /\ pc = "Idle"
    /\ \A k \in DOMAIN desiredKernelParams : desiredKernelParams[k] < MaxAttempts
    /\ desireState' = new
    /\ needDrain' = needDrainNode(new, status)
    /\ desiredKernelParams' = addVfioDesiredKernelParam(new)
    /\ kparamsToVisit' = DOMAIN desiredKernelParams'
    /\ needReboot' = FALSE
    /\ pc' = "SyncKernelParams"
    /\ UNCHANGED <<lastState, driverLoaded, driversToVisit, ret, hostVars>>

\* A call returns r: its loop variables and locals go out of scope.
Return(r) ==
    /\ ret' = r
    /\ pc' = "Idle"
    /\ kparamsToVisit' = {}
    /\ driversToVisit' = {}
    /\ needDrain' = FALSE
    /\ needReboot' = FALSE

\* OnNodeStateChange returns after needRebootNode failed: (needDrain, false, err).
ReturnRebootError ==
    Return([call |-> "OnNodeStateChange", needDrain |-> needDrain,
            needReboot |-> FALSE, err |-> TRUE])

\* What enable-kargs.sh can do (outside src/, spec section 6): its exit
\* status and what it prints.
ScriptRuns == [exitStatus : {0, 1, 127}, stdout : {"1", "0", ""}]

\* strconv.Atoi(strings.TrimSpace(stdout)) on the strings the script prints.
Atoi(str) ==
    CASE str = "1" -> [value |-> 1, err |-> FALSE]
      [] str = "0" -> [value |-> 0, err |-> FALSE]
      [] str = ""  -> [value |-> 0, err |-> TRUE]

isCommandNotFound(run) == run.exitStatus = 127

\* utils.IsKernelCmdLineParamSet (outside src/) reads the live command line
\* and can fail doing so.
CmdlineReadMayFail == TRUE

\* trySetKernelParam: (update, err) for one run of the script.
trySetKernelParam(run) ==
    IF run.exitStatus # 0
      THEN [update |-> FALSE, err |-> ~isCommandNotFound(run)]
      ELSE LET i == Atoi(run.stdout) IN
           [update |-> ~i.err /\ i.value > 0, err |-> i.err]

\* Mutant: a parameter already on the command line is counted as tried.
MutantSyncKernelParamCountsSet(kparam) ==
    /\ pc = "SyncKernelParams"
    /\ kparam \in kparamsToVisit
    /\ \/ \* IsKernelCmdLineParamSet failed
          /\ CmdlineReadMayFail
          /\ ReturnRebootError
          /\ UNCHANGED <<desiredKernelParams, bootcfg>>
       \/ \* the parameter is on the live command line
          /\ kparam \in cmdline
          /\ kparamsToVisit' = kparamsToVisit \ {kparam}
          /\ desiredKernelParams' = [desiredKernelParams EXCEPT ![kparam] = @ + 1]
          /\ UNCHANGED <<pc, ret, needDrain, needReboot, bootcfg>>
       \/ /\ kparam \notin cmdline
          /\ \E run \in ScriptRuns :
               LET result == trySetKernelParam(run) IN
               \/ /\ result.err
                  /\ ReturnRebootError
                  /\ UNCHANGED <<desiredKernelParams, bootcfg>>
               \/ /\ ~result.err
                  /\ bootcfg' = IF result.update THEN bootcfg \cup {kparam} ELSE bootcfg
                  /\ needReboot' = (needReboot \/ result.update)
                  /\ kparamsToVisit' = kparamsToVisit \ {kparam}
                  /\ desiredKernelParams' =
                        [desiredKernelParams EXCEPT ![kparam] = @ + 1]
                  /\ UNCHANGED <<pc, ret, needDrain>>
    /\ UNCHANGED <<desireState, lastState, driverLoaded, driversToVisit,
                   cmdline, kmods, hostIfaces>>

\* One iteration of syncDesiredKernelParams for kparam: IsKernelCmdLineParamSet,
\* then, when the parameter is not set, trySetKernelParam; the script puts
\* the parameter in the boot configuration when it reports a change.
SyncKernelParam(kparam) ==
    /\ pc = "SyncKernelParams"
    /\ kparam \in kparamsToVisit
    /\ \/ \* IsKernelCmdLineParamSet failed
          /\ CmdlineReadMayFail
          /\ ReturnRebootError
          /\ UNCHANGED <<desiredKernelParams, bootcfg>>
       \/ \* the parameter is on the live command line
          /\ kparam \in cmdline
          /\ kparamsToVisit' = kparamsToVisit \ {kparam}
          /\ UNCHANGED <<pc, ret, needDrain, needReboot, desiredKernelParams, bootcfg>>
       \/ /\ kparam \notin cmdline
          /\ \E run \in ScriptRuns :
               LET result == trySetKernelParam(run) IN
               \/ /\ result.err
                  /\ ReturnRebootError
                  /\ UNCHANGED <<desiredKernelParams, bootcfg>>
               \/ /\ ~result.err
                  /\ bootcfg' = IF result.update THEN bootcfg \cup {kparam} ELSE bootcfg
                  /\ needReboot' = (needReboot \/ result.update)
                  /\ kparamsToVisit' = kparamsToVisit \ {kparam}
                  /\ desiredKernelParams' =
                        [desiredKernelParams EXCEPT ![kparam] = @ + 1]
                  /\ UNCHANGED <<pc, ret, needDrain>>
    /\ UNCHANGED <<desireState, lastState, driverLoaded, driversToVisit,
                   cmdline, kmods, hostIfaces>>

\* The loop is over: needRebootNode writes the switchdev configuration file
\* (an error fails the call) and OnNodeStateChange returns, turning a
\* reboot into a drain.
SyncKernelParamsDone ==
    /\ pc = "SyncKernelParams"
    /\ kparamsToVisit = {}
    /\ \/ \* WriteSwitchdevConfFile failed
          ReturnRebootError
       \/ \E update \in BOOLEAN :
            LET reboot == needReboot \/ update IN
            Return([call |-> "OnNodeStateChange", needDrain |-> needDrain \/ reboot,
                    needReboot |-> reboot, err |-> FALSE])
    /\ UNCHANGED <<pluginVars, hostVars>>

-----------------------------------------------------------------------------
(* Apply: the LastState short-circuit, syncDriverState (a loop over the    *)
(* catalog), then GetPfsToSkip, Chroot and SyncNodeState.                  *)

ApplyNothingToDo ==
    /\ pc = "Idle"
    /\ desireState # NoState
    /\ lastState # NoState
    /\ lastState = desireState
    /\ ret' = ApplyRet(FALSE)
    /\ UNCHANGED <<pluginVars, pc, kparamsToVisit, driversToVisit, needDrain,
                   needReboot, hostVars>>

ApplyStart ==
    /\ pc = "Idle"
    /\ desireState # NoState
    /\ lastState = NoState \/ lastState # desireState
    /\ pc' = "SyncDriverState"
    /\ driversToVisit' = Drivers
    /\ UNCHANGED <<pluginVars, kparamsToVisit, needDrain, needReboot, ret, hostVars>>


\* One iteration of syncDriverState: load the driver if it is needed by
\* DesireState and not loaded; a LoadKernelModule error fails Apply.
SyncDriver(d) ==
    /\ pc = "SyncDriverState"
    /\ d \in driversToVisit
    /\ \/ /\ driverLoaded[d] \/ ~NeedDriver(d, desireState)
          /\ driversToVisit' = driversToVisit \ {d}
          /\ UNCHANGED <<pc, ret, driverLoaded, kmods>>
       \/ /\ ~driverLoaded[d] /\ NeedDriver(d, desireState)
          /\ kmods' = kmods \cup {d}
          /\ driverLoaded' = [driverLoaded EXCEPT ![d] = TRUE]
          /\ driversToVisit' = driversToVisit \ {d}
          /\ UNCHANGED <<pc, ret>>
       \/ /\ ~driverLoaded[d] /\ NeedDriver(d, desireState)
          /\ Return(ApplyRet(TRUE))
          /\ UNCHANGED <<driverLoaded, kmods>>
    /\ UNCHANGED <<desireState, lastState, desiredKernelParams, kparamsToVisit,
                   needDrain, needReboot, cmdline, bootcfg, hostIfaces>>

\* The drivers are loaded: GetPfsToSkip, Chroot("/host") unless running on
\* the host, SyncNodeState; on success LastState becomes a copy of
\* DesireState; a "cannot allocate memory" failure queues pci=realloc.
\* Mutant: on a failed SyncNodeState the host's (partial) configuration is
\* recorded as the last applied state.
MutantApplyFinishRecordsHost ==
    /\ pc = "SyncDriverState"
    /\ driversToVisit = {}
    /\ \/ /\ Return(ApplyRet(TRUE))
          /\ UNCHANGED <<pluginVars, hostIfaces>>
       \/ /\ hostIfaces' = desireState
          /\ lastState' = desireState
          /\ Return(ApplyRet(FALSE))
          /\ UNCHANGED <<desireState, driverLoaded, desiredKernelParams>>
       \/ /\ hostIfaces' \in {hostIfaces, Partial}
          /\ lastState' = hostIfaces'
          /\ Return(ApplyRet(TRUE))
          /\ UNCHANGED <<desireState, driverLoaded, desiredKernelParams>>
    /\ UNCHANGED <<cmdline, bootcfg, kmods>>

ApplyFinish ==
    /\ pc = "SyncDriverState"
    /\ driversToVisit = {}
    /\ \/ \* GetPfsToSkip failed, or (not RunningOnHost) Chroot failed
          /\ Return(ApplyRet(TRUE))
          /\ UNCHANGED <<pluginVars, hostIfaces>>
       \/ \* SyncNodeState succeeded
          /\ hostIfaces' = desireState
          /\ lastState' = desireState
          /\ Return(ApplyRet(FALSE))
          /\ UNCHANGED <<desireState, driverLoaded, desiredKernelParams>>
       \/ \* SyncNodeState failed, possibly after changing some PFs
          /\ hostIfaces' \in {hostIfaces, Partial}
          /\ \E enomem \in BOOLEAN :
               desiredKernelParams' =
                 IF enomem
                   THEN addToDesiredKernelParams(desiredKernelParams, KernelParamPciRealloc)
                   ELSE desiredKernelParams
          /\ Return(ApplyRet(TRUE))
          /\ UNCHANGED <<desireState, lastState, driverLoaded>>
    /\ UNCHANGED <<cmdline, bootcfg, kmods>>

-----------------------------------------------------------------------------
(* The environment: the daemon process restarts, or the node reboots.     *)

DaemonRestart ==
    /\ NewGenericPlugin
    /\ UNCHANGED hostVars

NodeReboot ==
    /\ NewGenericPlugin
    /\ cmdline' = bootcfg
    /\ kmods' = {}
    /\ hostIfaces' = Unconfigured
    /\ UNCHANGED bootcfg

-----------------------------------------------------------------------------

\* The steps of a call in progress (the loops of syncDesiredKernelParams
\* and syncDriverState, and the ends of both calls).
CallStep ==
    \/ \E k \in KParams : SyncKernelParam(k)
    \/ SyncKernelParamsDone
    \/ \E d \in Drivers : SyncDriver(d)
    \/ ApplyFinish

Next ==
    \/ \E new \in Specs, status \in Statuses : OnNodeStateChange(new, status)
    \/ ApplyNothingToDo
    \/ ApplyStart
    \/ CallStep
    \/ DaemonRestart
    \/ NodeReboot

Spec == Init /\ [][Next]_vars

-----------------------------------------------------------------------------
(* Properties.                                                             *)

TypeOK ==
    /\ desireState \in Specs \cup {NoState}
    /\ lastState \in Specs \cup {NoState}
    /\ driverLoaded \in [Drivers -> BOOLEAN]
    /\ DOMAIN desiredKernelParams \subseteq KParams
    /\ desiredKernelParams \in [DOMAIN desiredKernelParams -> Nat]
    /\ pc \in {"Idle", "SyncKernelParams", "SyncDriverState"}
    /\ kparamsToVisit \subseteq KParams
    /\ driversToVisit \subseteq Drivers
    /\ needDrain \in BOOLEAN
    /\ needReboot \in BOOLEAN
    /\ ret \in RetType
    /\ cmdline \subseteq KParams
    /\ bootcfg \subseteq KParams
    /\ kmods \subseteq Drivers
    /\ hostIfaces \in Specs \cup {Unconfigured, Partial}

\* vfio_pci is never marked loaded while the IOMMU kernel parameters it
\* depends on are untracked: syncDriverState may load vfio_pci only for a
\* DesireState whose OnNodeStateChange (addVfioDesiredKernelParam) has
\* queued intel_iommu=on and iommu=pt, across restarts and reboots.
VfioKernelParamsTracked ==
    driverLoaded[Vfio] =>
        {KernelParamIntelIommu, KernelParamIommuPt} \subseteq DOMAIN desiredKernelParams

\* The drivers the spec (section 4.1) says a desired list needs: vfio_pci
\* for a vfio-pci device type, a vDPA driver for its vDPA type.
SpecNeedsDriver(d, state) ==
    CASE d = Vfio -> \E g \in VfGroupsOf(state) : g.deviceType = DeviceTypeVfioPci
      [] d = VirtioVdpa -> \E g \in VfGroupsOf(state) : g.vdpaType = VdpaTypeVirtio
      [] d = VhostVdpa -> \E g \in VfGroupsOf(state) : g.vdpaType = VdpaTypeVhost

\* Once Apply has recorded LastState, every kernel module that state needs
\* is loaded in the kernel: the LastState short-circuit of Apply never
\* skips a driver load that the catalog of NewGenericPlugin should do.
AppliedDriversLoaded ==
    lastState # NoState =>
        \A d \in Drivers : SpecNeedsDriver(d, lastState) => d \in kmods

\* A tracked kernel parameter is never dropped and its attempt counter never
\* goes back, except when the process starts afresh (restart or reboot):
\* re-queuing a parameter (addToDesiredKernelParams) keeps its counter.
AttemptsNeverReset ==
    [][\/ DaemonRestart
       \/ NodeReboot
       \/ \A k \in DOMAIN desiredKernelParams :
            /\ k \in DOMAIN desiredKernelParams'
            /\ desiredKernelParams'[k] >= desiredKernelParams[k]]_vars

\* The give-up threshold of spec section 4.2.
KernelParamGiveUp == 4

\* Spec 4.2 and 8: the script is never run for a parameter whose attempt
\* counter is above the give-up threshold of 4 (generic_plugin.go has this
\* check; syncDesiredKernelParams of part_000 has none).
GiveUpRespected ==
    [][\A k \in DOMAIN desiredKernelParams :
         (k \in DOMAIN desiredKernelParams' /\
          desiredKernelParams'[k] > desiredKernelParams[k])
            => desiredKernelParams[k] <= KernelParamGiveUp]_vars

\* Spec 4.5: Apply returns success only once the host holds the desired
\* interfaces; its LastState short-circuit must not report success on a
\* host that a failed SyncNodeState left in another state.
ApplySuccessMeansConfigured ==
    [][(\/ ApplyNothingToDo
        \/ pc = "SyncDriverState" /\ ret' = ApplyRet(FALSE))
         => hostIfaces' = desireState']_vars

\* Spec 4.4: a switchdev configuration write error is logged and adds no
\* reboot, but does not abort the decision: when OnNodeStateChange itself
\* returns after its kernel-parameter loop has finished and asked for a
\* reboot (not a restart or a reboot cutting the call short), the value it
\* returns reports that reboot.
KernelParamRebootReported ==
    [][(/\ pc = "SyncKernelParams" /\ kparamsToVisit = {} /\ needReboot
        /\ pc' = "Idle" /\ ret'.call = "OnNodeStateChange")
         => ret'.needReboot]_vars

\* Spec 6 and 7: a parameter-setter run whose trimmed stdout is not an
\* integer is tolerated as "no reboot needed", with no error; only a run
\* that fails (an exit status other than 0 and 127) or an unreadable command
\* line aborts syncDesiredKernelParams.  So, on a host where neither
\* happens, OnNodeStateChange never returns an error from inside its
\* kernel-parameter loop (trySetKernelParam returns the Atoi error).
KernelParamLoopNotAborted ==
    [][(/\ pc = "SyncKernelParams" /\ kparamsToVisit # {}
        /\ pc' = "Idle" /\ ret'.call = "OnNodeStateChange")
         => ~ret'.err]_vars

\* The ledger of spec section 4.2 seen through DesiredKernelParams and the
\* host; part_000 has no give-up, so the threshold is set above every
\* counter the model lets OnNodeStateChange start from.
Ledger == INSTANCE KernelParamLedger
            WITH Params <- KParams, GiveUp <- MaxAttempts,
                 ledger <- desiredKernelParams

\* part_000 implements the ledger: each step of syncDesiredKernelParams
\* tries, counts and writes one tracked parameter that is not on the live
\* command line, OnNodeStateChange and a failed SyncNodeState only queue
\* (keeping counters), and restarts and reboots lose the ledger.
ImplementsLedger == Ledger!Spec

=============================================================================
