------------------------ MODULE GenericPluginLegacy ------------------------
(***************************************************************************)
(* The generic SR-IOV plugin of src/pkg/plugins/generic/generic_plugin.go: *)
(* the version with a tri-state load status per driver (vfio_pci and      *)
(* virtio_vdpa only) and SetAllDesiredKernelParams, which gives a kernel  *)
(* parameter up after four attempts and only logs errors.                 *)
(*                                                                         *)
(* No loop of this version returns early: the range over the kernel       *)
(* parameters visits every key whatever the script does, and Apply is a   *)
(* straight sequence of calls.  A failed call leaves exactly the effects  *)
(* of the steps before it, and a crash in the middle of a call is the     *)
(* same as a failure followed by a restart, so each entry point is one    *)
(* atomic action whose disjuncts are its exits.                           *)
(***************************************************************************)
EXTENDS Naturals, Sequences, DrainPolicy

CONSTANTS
    Specs,          \* desired interface lists the daemon may hand over
    Statuses,       \* observed interface lists that may accompany them
    NoState,        \* a nil *SriovNetworkNodeState
    Unconfigured,   \* host interfaces with no VFs (fresh boot)
    Partial         \* host interfaces left half-synced by a failed sync

ASSUME LegacyNoStateAssumption ==
    /\ NoState \notin Specs
    /\ {Unconfigured, Partial} \cap Specs = {}
    /\ Unconfigured # Partial

VARIABLES
    desireState,            \* DesireState (its Spec.Interfaces)
    lastState,              \* LastState (its Spec.Interfaces)
    loadVfioDriver,         \* LoadVfioDriver
    loadVirtioVdpaDriver,   \* LoadVirtioVdpaDriver
    desiredKernelParams,    \* DesiredKernelParams: param -> attempts
    ret,                    \* what the last call returned
    cmdline,                \* parameters on the live kernel command line
    bootcfg,                \* parameters in the boot loader configuration
    kmods,                  \* kernel modules loaded
    hostIfaces              \* interface configuration of the host

pluginVars == <<desireState, lastState, loadVfioDriver, loadVirtioVdpaDriver,
                desiredKernelParams>>
hostVars == <<cmdline, bootcfg, kmods, hostIfaces>>
vars == <<pluginVars, ret, hostVars>>

-----------------------------------------------------------------------------
(* Constants.                                                              *)

\* The load status values (iota).
unloaded == 0
loading == 1
loaded == 2

Vfio == "vfio_pci"
VirtioVdpa == "virtio_vdpa"
VhostVdpa == "vhost_vdpa"

DeviceTypeVfioPci == "vfio-pci"
DeviceTypeNetDevice == "netdevice"
VdpaTypeVirtio == "virtio"
VdpaTypeVhost == "vhost"

KernelParamIntelIommu == "intel_iommu=on"
KernelParamIommuPt == "iommu=pt"
KParams == {KernelParamIntelIommu, KernelParamIommuPt}

\* SetAllDesiredKernelParams gives a parameter up once attempts > 4.
SetAllGiveUp == 4

RetType == [call : {"None", "OnNodeStateChange", "Apply"},
            needDrain : BOOLEAN, needReboot : BOOLEAN, err : BOOLEAN]

NoRet == [call |-> "None", needDrain |-> FALSE, needReboot |-> FALSE, err |-> FALSE]

ApplyRet(err) == [call |-> "Apply", needDrain |-> FALSE, needReboot |-> FALSE, err |-> err]

-----------------------------------------------------------------------------
(* Helpers.                                                                *)

VfGroupsOf(state) == UNION {state[i].vfGroups : i \in 1..Len(state)}

needVfioDriver(state) ==
    \E g \in VfGroupsOf(state) : g.deviceType = DeviceTypeVfioPci

\* Mutant: the virtio check compares against the vhost vDPA type.
MutantNeedVirtioVdpaDriverVhost(state) ==
    \E g \in VfGroupsOf(state) : g.vdpaType = VdpaTypeVhost

needVirtioVdpaDriver(state) ==
    \E g \in VfGroupsOf(state) : g.vdpaType = VdpaTypeVirtio

\* What enable-kargs.sh can do (outside src/): exit status and output.
ScriptRuns == [exitStatus : {0, 1, 127}, stdout : {"1", "0", ""}]

\* strconv.Atoi(strings.TrimSpace(stdout)) on the strings the script prints.
Atoi(str) ==
    CASE str = "1" -> [value |-> 1, err |-> FALSE]
      [] str = "0" -> [value |-> 0, err |-> FALSE]
      [] str = ""  -> [value |-> 0, err |-> TRUE]

isCommandNotFound(run) == run.exitStatus = 127

trySetKernelParam(run) ==
    IF run.exitStatus # 0
      THEN [update |-> FALSE, err |-> ~isCommandNotFound(run)]
      ELSE LET i == Atoi(run.stdout) IN
           [update |-> ~i.err /\ i.value > 0, err |-> i.err]

\* Mutant: the membership test dropped, re-queuing resets the counter.
MutantAddToDesiredKernelParamsNoGuard(params, kparam) ==
    [k \in DOMAIN params \cup {kparam} |-> IF k = kparam THEN 0 ELSE params[k]]

AddToDesiredKernelParams(params, kparam) ==
    IF kparam \in DOMAIN params THEN params
    ELSE [k \in DOMAIN params \cup {kparam} |->
            IF k = kparam THEN 0 ELSE params[k]]

\* SetAllDesiredKernelParams over the live command line live, the script
\* run for parameter k being runs[k]: every unset parameter not given up is
\* tried and counted (a script error is only logged); the script writes the
\* parameters it reports as changed into the boot configuration.
SetAllDesiredKernelParams(params, runs, live) ==
    LET tried == {k \in DOMAIN params : k \notin live /\ ~(params[k] > SetAllGiveUp)}
        written == {k \in tried : trySetKernelParam(runs[k]).update}
    IN  [params |-> [k \in DOMAIN params |->
                       IF k \in tried THEN params[k] + 1 ELSE params[k]],
         needReboot |-> written # {},
         written |-> written]

\* Mutant: drivers are marked loading without the "not loaded" test.
MutantNeedRebootNodeNoLoadedCheck(state, update, runs) ==
    LET markVfio == needVfioDriver(state)
        markVirtio == needVirtioVdpaDriver(state)
        params == IF markVfio
                    THEN AddToDesiredKernelParams(
                           AddToDesiredKernelParams(desiredKernelParams,
                                                    KernelParamIntelIommu),
                           KernelParamIommuPt)
                    ELSE desiredKernelParams
        setAll == SetAllDesiredKernelParams(params, runs, cmdline)
    IN  [vfio |-> IF markVfio THEN loading ELSE loadVfioDriver,
         virtio |-> IF markVirtio THEN loading ELSE loadVirtioVdpaDriver,
         params |-> IF update THEN params ELSE setAll.params,
         written |-> IF update THEN {} ELSE setAll.written,
         needReboot |-> update \/ setAll.needReboot]

\* needRebootNode(state) with WriteSwitchdevConfFile reporting update (its
\* error is only logged and leaves update false): mark the needed drivers
\* loading, queue the IOMMU parameters for vfio_pci, then
\* needReboot || update || SetAllDesiredKernelParams().
needRebootNode(state, update, runs) ==
    LET markVfio == loadVfioDriver # loaded /\ needVfioDriver(state)
        markVirtio == loadVirtioVdpaDriver # loaded /\ needVirtioVdpaDriver(state)
        params == IF markVfio
                    THEN AddToDesiredKernelParams(
                           AddToDesiredKernelParams(desiredKernelParams,
                                                    KernelParamIntelIommu),
                           KernelParamIommuPt)
                    ELSE desiredKernelParams
        setAll == SetAllDesiredKernelParams(params, runs, cmdline)
    IN  [vfio |-> IF markVfio THEN loading ELSE loadVfioDriver,
         virtio |-> IF markVirtio THEN loading ELSE loadVirtioVdpaDriver,
         params |-> IF update THEN params ELSE setAll.params,
         written |-> IF update THEN {} ELSE setAll.written,
         needReboot |-> update \/ setAll.needReboot]

\* The status after Apply's LoadKernelModule of a driver marked loading.
LoadedAfter(status) == IF status = loading THEN loaded ELSE status

-----------------------------------------------------------------------------

Init ==
    /\ desireState = NoState
    /\ lastState = NoState
    /\ loadVfioDriver = unloaded
    /\ loadVirtioVdpaDriver = unloaded
    /\ desiredKernelParams = [k \in {} |-> 0]
    /\ ret = NoRet
    /\ cmdline = {}
    /\ bootcfg = {}
    /\ kmods = {}
    /\ hostIfaces = Unconfigured

\* NewGenericPlugin in a fresh process (primed).
NewGenericPlugin ==
    /\ desireState' = NoState
    /\ lastState' = NoState
    /\ loadVfioDriver' = unloaded
    /\ loadVirtioVdpaDriver' = unloaded
    /\ desiredKernelParams' = [k \in {} |-> 0]
    /\ ret' = NoRet

\* OnNodeStateChange(new): DesireState, needDrainNode, needRebootNode; a
\* reboot forces a drain.
OnNodeStateChange(new, status) ==
    /\ desireState' = new
    /\ \E update \in BOOLEAN, runs \in [KParams -> ScriptRuns] :
         LET r == needRebootNode(new, update, runs) IN
         /\ loadVfioDriver' = r.vfio
         /\ loadVirtioVdpaDriver' = r.virtio
         /\ desiredKernelParams' = r.params
         /\ bootcfg' = bootcfg \cup r.written
         /\ ret' = [call |-> "OnNodeStateChange",
                    needDrain |-> needDrainNode(new, status) \/ r.needReboot,
                    needReboot |-> r.needReboot, err |-> FALSE]
    /\ UNCHANGED <<lastState, cmdline, kmods, hostIfaces>>

\* Mutant: a failed sync records the host's configuration as LastState.
MutantApplySyncNodeStateRecordsHost ==
    \/ /\ lastState # NoState
       /\ lastState = desireState
       /\ ret' = ApplyRet(FALSE)
       /\ UNCHANGED <<lastState, hostIfaces>>
    \/ /\ lastState = NoState \/ lastState # desireState
       /\ \/ /\ hostIfaces' \in {hostIfaces, Partial}
             /\ ret' = ApplyRet(TRUE)
             /\ lastState' = hostIfaces'
          \/ /\ hostIfaces' = desireState
             /\ lastState' = desireState
             /\ ret' = ApplyRet(FALSE)

\* Apply after its driver loads: the LastState short-circuit, then
\* GetPfsToSkip, Chroot and SyncNodeState; LastState is copied on success.
ApplySyncNodeState ==
    \/ /\ lastState # NoState
       /\ lastState = desireState
       /\ ret' = ApplyRet(FALSE)
       /\ UNCHANGED <<lastState, hostIfaces>>
    \/ /\ lastState = NoState \/ lastState # desireState
       /\ \/ \* GetPfsToSkip, Chroot or SyncNodeState failed
             /\ hostIfaces' \in {hostIfaces, Partial}
             /\ ret' = ApplyRet(TRUE)
             /\ UNCHANGED lastState
          \/ /\ hostIfaces' = desireState
             /\ lastState' = desireState
             /\ ret' = ApplyRet(FALSE)

\* Apply: load vfio_pci, then virtio_vdpa, if OnNodeStateChange marked them
\* loading (a LoadKernelModule error returns and leaves the status loading),
\* then ApplySyncNodeState.
Apply ==
    /\ desireState # NoState
    /\ \/ \* LoadKernelModule("vfio_pci") failed
          /\ loadVfioDriver = loading
          /\ ret' = ApplyRet(TRUE)
          /\ UNCHANGED <<loadVfioDriver, loadVirtioVdpaDriver, lastState, kmods, hostIfaces>>
       \/ \* vfio_pci done, LoadKernelModule("virtio_vdpa") failed
          /\ loadVirtioVdpaDriver = loading
          /\ loadVfioDriver' = LoadedAfter(loadVfioDriver)
          /\ kmods' = kmods \cup (IF loadVfioDriver = loading THEN {Vfio} ELSE {})
          /\ ret' = ApplyRet(TRUE)
          /\ UNCHANGED <<loadVirtioVdpaDriver, lastState, hostIfaces>>
       \/ /\ loadVfioDriver' = LoadedAfter(loadVfioDriver)
          /\ loadVirtioVdpaDriver' = LoadedAfter(loadVirtioVdpaDriver)
          /\ kmods' = kmods \cup (IF loadVfioDriver = loading THEN {Vfio} ELSE {})
                            \cup (IF loadVirtioVdpaDriver = loading THEN {VirtioVdpa} ELSE {})
          /\ ApplySyncNodeState
    /\ UNCHANGED <<desireState, desiredKernelParams, cmdline, bootcfg>>

DaemonRestart ==
    /\ NewGenericPlugin
    /\ UNCHANGED hostVars

NodeReboot ==
    /\ NewGenericPlugin
    /\ cmdline' = bootcfg
    /\ kmods' = {}
    /\ hostIfaces' = Unconfigured
    /\ UNCHANGED bootcfg

Next ==
    \/ \E new \in Specs, status \in Statuses : OnNodeStateChange(new, status)
    \/ Apply
    \/ DaemonRestart
    \/ NodeReboot

Spec == Init /\ [][Next]_vars

-----------------------------------------------------------------------------
(* Properties.                                                             *)

TypeOK ==
    /\ desireState \in Specs \cup {NoState}
    /\ lastState \in Specs \cup {NoState}
    /\ loadVfioDriver \in {unloaded, loading, loaded}
    /\ loadVirtioVdpaDriver \in {unloaded, loading, loaded}
    /\ DOMAIN desiredKernelParams \subseteq KParams
    /\ desiredKernelParams \in [DOMAIN desiredKernelParams -> Nat]
    /\ ret \in RetType
    /\ cmdline \subseteq KParams
    /\ bootcfg \subseteq KParams
    /\ kmods \subseteq {Vfio, VirtioVdpa, VhostVdpa}
    /\ hostIfaces \in Specs \cup {Unconfigured, Partial}

\* The drivers the spec (section 4.1) says a desired list needs: vfio_pci
\* for a vfio-pci device type, a vDPA driver for its vDPA type.
SpecNeedsDriver(d, state) ==
    CASE d = Vfio -> \E g \in VfGroupsOf(state) : g.deviceType = DeviceTypeVfioPci
      [] d = VirtioVdpa -> \E g \in VfGroupsOf(state) : g.vdpaType = VdpaTypeVirtio
      [] d = VhostVdpa -> \E g \in VfGroupsOf(state) : g.vdpaType = VdpaTypeVhost

\* Once Apply has recorded LastState, every kernel module that state needs
\* is loaded: the loading mark set by needRebootNode is realised by Apply
\* before any success, across restarts (which forget the marks but keep
\* the modules) and reboots (which drop both).
AppliedDriversLoaded ==
    lastState # NoState =>
        \A d \in {Vfio, VirtioVdpa, VhostVdpa} : SpecNeedsDriver(d, lastState) => d \in kmods

\* Spec section 8: within one process a driver's load status never goes
\* back (unloaded -> loading -> loaded); a failed LoadKernelModule leaves
\* it loading, and only a new process starts again from unloaded.
DriverLoadNeverRegresses ==
    [][\/ DaemonRestart
       \/ NodeReboot
       \/ /\ loadVfioDriver' >= loadVfioDriver
          /\ loadVirtioVdpaDriver' >= loadVirtioVdpaDriver]_vars

\* Spec 4.4: every state change runs the kernel-parameter sync: when
\* OnNodeStateChange returns, every tracked parameter that was not on the
\* live command line and not given up has had one more attempt, whatever
\* the switchdev file write reported.
KernelParamsSyncedOnChange ==
    [][ret'.call = "OnNodeStateChange" =>
         \A k \in DOMAIN desiredKernelParams' :
            LET before == IF k \in DOMAIN desiredKernelParams
                            THEN desiredKernelParams[k] ELSE 0
            IN  (k \notin cmdline /\ before <= 4)
                  => desiredKernelParams'[k] = before + 1]_vars

\* The ledger of spec section 4.2 with its give-up threshold of 4, seen
\* through the plugin's DesiredKernelParams and the host's command line
\* and boot configuration.
Ledger == INSTANCE KernelParamLedger
            WITH Params <- KParams, GiveUp <- SetAllGiveUp,
                 ledger <- desiredKernelParams

\* The legacy plugin implements the ledger: OnNodeStateChange queues the
\* IOMMU parameters and tries, counts and writes only tracked parameters
\* that are unset and not given up; restarts and reboots lose the ledger.
ImplementsLedger == Ledger!Spec

=============================================================================
