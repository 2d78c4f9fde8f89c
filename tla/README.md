# TLA+ models of the SR-IOV generic plugin

This directory holds the formal models of the generic plugin of the SR-IOV
network operator's config daemon, the TLC configurations that check them, and
the TLAPS proofs about them.

## The system

The repository has two versions of the plugin:

* `src/unnamed/part_000` is the **current** version. A catalogue
  `DriverStateMap` (vfio_pci, virtio_vdpa, vhost_vdpa) records a `DriverLoaded`
  flag per driver. A ledger `DesiredKernelParams` (parameter -> attempts)
  tracks the kernel parameters the node needs.
* `src/pkg/plugins/generic/generic_plugin.go` is the **legacy** version. It
  has a tri-state per driver (unloaded / loading / loaded) and
  `SetAllDesiredKernelParams`, which gives up after four attempts and only
  logs errors.

The daemon drives the plugin with two calls, one at a time:

* **`OnNodeStateChange(new)`** does four things:
  * It stores the desired state.
  * It computes `needDrainNode`, a pure function of the desired and observed
    interfaces.
  * It queues `intel_iommu=on` and `iommu=pt` when vfio-pci VFs are requested
    (`addVfioDesiredKernelParam`).
  * It tries every queued parameter that is not on the live command line
    (`syncDesiredKernelParams`). Each try runs `enable-kargs.sh`, which may put
    the parameter into the boot configuration, and counts the attempt.

  Finally it writes the switchdev configuration file. Any error aborts, and a
  reboot implies a drain.
* **`Apply()`** starts with a shortcut: it returns at once when `LastState`
  has the desired interfaces. Otherwise it loads the drivers the desired state
  needs (`syncDriverState`) and calls `GetPfsToSkip`, `Chroot` and
  `SyncNodeState`. When `SyncNodeState` fails with ENOMEM, Apply queues
  `pci=realloc`. When everything succeeds, it records `LastState`.

The plugin's state lives only in memory. A daemon restart recreates it with
`NewGenericPlugin`, and the host keeps its boot configuration, loaded modules
and interface configuration. A node reboot makes the boot configuration the
live command line, unloads the modules and resets the interfaces.

### Inventory

| part | state | operations | hard behaviour |
|---|---|---|---|
| drain decision | none (pure) | `needDrainNode` | nested loops with a `break` and early `return`s |
| kernel-parameter ledger | `DesiredKernelParams` | `addToDesiredKernelParams`, `addVfioDesiredKernelParam`, `syncDesiredKernelParams`, `trySetKernelParam` | random map order; abort on the first error after earlier parameters were written and counted; no give-up |
| driver catalogue | `DriverStateMap[*].DriverLoaded` | `syncDriverState` | random map order; abort on the first failing load |
| Apply | `DesireState`, `LastState` | `Apply` | the `LastState` shortcut; partial `SyncNodeState`; ENOMEM queues `pci=realloc` |
| environment | live cmdline, boot configuration, loaded modules, interfaces | script, modprobe, SyncNodeState, restart, reboot | failures anywhere; restart forgets the memory |

## Modules

* **`DrainPolicy.tla`** models `needDrainNode`, which is identical in both
  files. It gives two forms:
  * `needDrainNode` is the rule as a quantified formula.
  * `needDrainNodeLoop` and `InnerScan` transcribe the loops as recursive
    functions, keeping the `break` on `NumVfs = 0` and the early returns.
* **`MC_DrainPolicy.tla` / `.cfg`** check that the two forms agree. The inputs
  are every interface list of length at most 2 over 2 PCI addresses, VF
  counts {0, 2} and MTUs {1500, 9000}. This covers duplicate addresses,
  unconfigured PFs, PFs without VFs and every mismatch `NeedUpdate` sees.
  `VfCountsAssumption` states that VF counts are natural numbers. NumVfs is a
  count read from sysfs, and the loop's `NumVfs > 0` agrees with the rule's
  `NumVfs # 0` only on such counts.
* **`DrainPolicyProofs.tla`** proves the agreement for every value of those
  constants (see "Proof about the drain decision" below).
* **`GenericPlugin.tla`** models part_000.

  Variables:
  * `desireState`, `lastState`, `driverLoaded` and `desiredKernelParams` are
    the plugin's fields.
  * `pc`, `kparamsToVisit`, `driversToVisit`, `needDrain`, `needReboot` and
    `ret` are a call in progress: which loop it is in, the map keys not yet
    visited, its locals, and the last return value.
  * `cmdline`, `bootcfg`, `kmods` and `hostIfaces` are the host.

  Actions:
  * `OnNodeStateChange` runs up to the parameter loop.
  * `SyncKernelParam(k)` is one loop iteration, with `trySetKernelParam`,
    `isCommandNotFound` and `Atoi` modelled by what they do on the script's
    exit status and output.
  * `SyncKernelParamsDone` is the switchdev tail.
  * `ApplyNothingToDo` and `ApplyStart` are the `LastState` shortcut.
  * `SyncDriver(d)` is one iteration of `syncDriverState`.
  * `ApplyFinish` is the rest of Apply.
  * `DaemonRestart` and `NodeReboot` are the environment.

  Map keys are visited in any order: the iteration takes any element of the
  set of keys not yet visited. Specs are abstracted to interface lists whose
  PFs carry a set of VF groups, each with a device type and a vDPA type.
* **`MC_GenericPlugin.tla`** defines the instance:
  * Two desired specs: vfio+virtio VF groups on one PF, and vhost+netdevice VF
    groups on the other.
  * Two observed statuses.
  * `MaxAttempts` bounds the attempt counters. `OnNodeStateChange` is only
    taken while every counter is below it. The bound is a model bound, not
    code.
* **`GenericPluginProofs.tla`** and **`GenericPluginLedgerProofs.tla`** hold
  the TLAPS proofs about part_000.
* **`KernelParamLedger.tla`** is the abstract contract of the
  kernel-parameter ledger (spec.md §4.2), shared by both versions. Its
  variables are the `ledger` (parameter -> attempts), the live `cmdline` and
  the `bootcfg`. It has three actions:
  * `Reconcile`: parameters are queued (new ones at 0, tracked ones keep their
    counters), eligible ones (off the command line, at most `GiveUp`
    attempts) may be tried and counted once, and only tried parameters enter
    the boot configuration.
  * `Forget`: the process ends and the ledger is lost.
  * `Boot`: the boot configuration becomes the command line.

  Both plugin modules instantiate it with `Ledger == INSTANCE
  KernelParamLedger WITH ledger <- desiredKernelParams, ...` and check
  `ImplementsLedger == Ledger!Spec` as a PROPERTY. Legacy uses `GiveUp <- 4`
  and part_000 uses its counter bound `MaxAttempts`.
* **`GenericPluginLegacy.tla`** models `generic_plugin.go`.

  No loop of that file returns early. `SetAllDesiredKernelParams` visits
  every key whatever the script does, and `Apply` is a straight sequence. So
  each entry point is one atomic action whose disjuncts are its exits. A crash
  in the middle of a call is the same as a failure followed by `DaemonRestart`.

  Variables:
  * `desireState`, `lastState`, `loadVfioDriver`, `loadVirtioVdpaDriver`
    (`unloaded`/`loading`/`loaded` = 0/1/2) and `desiredKernelParams` are
    the plugin's fields.
  * `ret` is the last return value.
  * The host variables are those of `GenericPlugin`.

  Actions and helpers:
  * `OnNodeStateChange` sets `DesireState` and calls `needRebootNode`. That
    marks the needed drivers `loading` when they are not `loaded`, queues the
    IOMMU parameters for vfio, and then evaluates the short-circuit
    `needReboot || update || SetAllDesiredKernelParams()`. The switchdev
    result `update` is a free boolean, since its error is only logged.
    `SetAllDesiredKernelParams` is a set comprehension: every tracked
    parameter that is off the command line and has at most 4 attempts is tried
    and counted, and the script's errors are ignored.
  * `Apply` loads vfio_pci and then virtio_vdpa when they are marked. A
    failure returns with the status left `loading`. Then comes
    `ApplySyncNodeState`: the `LastState` shortcut, a failure that may leave
    `Partial` interfaces, or success, which copies `DesireState`.
  * `DaemonRestart` and `NodeReboot` are as in `GenericPlugin`.
* **`MC_GenericPluginLegacy.tla`** defines the instance:
  * a PF whose VF groups need vfio and virtio, and a plain netdevice PF;
  * a vhost-only list for the vhost run.

  The attempt counters need no model bound: a parameter stops being tried
  above 4, so every counter stays at most 5.
* **`GenericPluginLegacyProofs.tla`** holds the TLAPS proofs about the
  legacy model.

## Runs

| run | cfg | result | what it shows |
|---|---|---|---|
| drain_loop | MC_DrainPolicy.cfg | pass, 5329 states | The loops compute the documented drain rule. |
| plugin_safety | MC_GenericPlugin.cfg | pass, about 3.5M states | `TypeOK`, `VfioKernelParamsTracked`, `AppliedDriversLoaded` and `AttemptsNeverReset` hold under every interleaving of calls, map orders, failures, restarts and reboots. |
| giveup_missing | MC_GenericPlugin_giveup.cfg | violation | `GiveUpRespected` fails. |
| stale_laststate | MC_GenericPlugin_skip.cfg | violation | `ApplySuccessMeansConfigured` fails. |
| switchdev_error_drops_reboot | MC_GenericPlugin_switchdev.cfg | violation | `KernelParamRebootReported` fails. |
| atoi_error_aborts | MC_GenericPlugin_atoi.cfg | violation | `KernelParamLoopNotAborted` fails on a host whose setter never fails. |
| legacy_safety | MC_GenericPluginLegacy.cfg | pass, about 11k states | `TypeOK`, `AppliedDriversLoaded`, `DriverLoadNeverRegresses` and `ImplementsLedger` hold for the legacy plugin. |
| legacy_vhost_not_loaded | MC_GenericPluginLegacy_vhost.cfg | violation | `AppliedDriversLoaded` fails for a vhost list. |
| legacy_kparams_skipped | MC_GenericPluginLegacy_shortcircuit.cfg | violation | `KernelParamsSyncedOnChange` fails. |

What the passing properties say:

* **`VfioKernelParamsTracked`:** when vfio_pci is recorded as loaded, both
  IOMMU parameters are in the ledger. A restart clears both, so the order of
  steps matters.
* **`AppliedDriversLoaded`:** when a `LastState` is recorded, every driver that
  spec.md §4.1 says the state needs is in the kernel. This catches the
  catalogue entries and the partial loads.
* **`AttemptsNeverReset`:** while the daemon lives, no queued parameter leaves
  the ledger and no counter goes down. This is what makes the attempt counts
  mean something.
* **`ImplementsLedger`** (both versions): every step of the plugin is a step
  of the abstract ledger or a stutter. Nothing is counted twice in one
  round, nothing past the give-up threshold is tried, nothing untried is
  written, re-queuing never resets a counter, and Apply leaves the ledger
  alone.
* **`DriverLoadNeverRegresses`** (legacy): within one process a load status
  only goes up. A failed load leaves it `loading`, and only a restart or a
  reboot resets it.

What the violation runs check:

* **`GiveUpRespected`:** no counter above 4 is ever incremented (spec.md §6).
* **`ApplySuccessMeansConfigured`:** an `Apply` that returns nil leaves the
  host configured as desired.
* **`KernelParamRebootReported`:** when `OnNodeStateChange` itself returns
  (`ret'.call = "OnNodeStateChange"`, not a restart or reboot cutting the call
  short) after its parameter loop asked for a reboot, it reports the reboot.
* **`KernelParamLoopNotAborted`:** on a host whose parameter setter never fails
  (exit 0, or 127 when the tool is missing) and whose command line is always
  readable, `OnNodeStateChange` never returns an error from inside its
  parameter loop. spec.md §6 says output that does not parse is "no reboot
  needed". The run overrides `ScriptRuns` and `CmdlineReadMayFail` so that the
  only error left is the parse error.

Bounds:

* `MaxAttempts = 2` allows a parameter to be retried after a
  reboot.
* Every one of the three parameters can be queued: `pci=realloc` comes from
  ENOMEM.
* All three drivers are needed by some spec.
* The giveup run uses `MaxAttempts = 6` so that a fifth attempt is reachable.

Each property of a passing run has a mutant: a plausible bug in a mapped
definition under which TLC finds it violated (see `PROJECT.json`).

**Fairness.** None is assumed, and no liveness property is claimed. spec.md §5
says the host-manager and utils calls can block. The model gives each such
call only a success or a failure outcome, so "every call returns" would hold
only because the model has no hanging call.

## Findings

1. **No give-up.** `syncDesiredKernelParams` (part_000:256) retries an unset
   parameter for ever. spec.md and the legacy `attempts > 4` say it is given
   up.
2. **Stale `LastState`.** This is a code bug at part_000:143. The sequence is:
   apply A successfully, fail an apply of B that has already reconfigured some
   PFs, then desire A again. `Apply` now returns nil on a half-configured
   host.
3. **Switchdev error.** An error from the switchdev write (part_000:332)
   returns `needReboot = false` after kernel parameters were already written to
   the boot configuration and counted. spec.md tolerates that error.
4. **Legacy: vhost never loaded.** `needVirtioVdpaDriver`
   (generic_plugin.go:145) and `needRebootNode` (line 267) only know virtio.
   A vhost vDPA list is synced and recorded without `vhost_vdpa`, which
   spec.md §4.1 says it needs.
5. **Legacy: short-circuit skips the parameters.** At generic_plugin.go:280,
   `update || SetAllDesiredKernelParams()` does not try the kernel parameters
   when the switchdev file changed. The IOMMU parameters just queued for vfio
   are not written before the reboot this call asks for, so vfio needs a
   second reboot. spec.md §4.4 syncs them on every change.
6. **Parse error aborts the parameter loop.** At part_000:222,
   `trySetKernelParam` returns the `strconv.Atoi` error when the setter exits
   0 but prints something that is not an integer, for example nothing.
   `syncDesiredKernelParams` returns that error. This aborts the loop before
   the attempt is counted and before the remaining parameters are tried, and
   it does so again on every later call. spec.md §6 says a parse failure is
   tolerated as "no reboot needed", with no error.

Also seen while modelling, without a run of their own:

* The legacy plugin only logs script errors and still counts the attempt.
  spec.md aborts the round on an error.
* Legacy `Apply` has no `pci=realloc` handling.
* Legacy `Apply` loads the marked drivers before the `LastState` shortcut.

## Proofs about part_000 (all checked by tlapm)

`GenericPluginProofs.tla`:

* **`TypeCorrect`** and its corollary **`TypeSafe`** (`Spec => []TypeOK`).
  `TypeCorrect` proves `Spec => []TypeInv`, where `TypeInv` is `TypeOK`
  strengthened in two ways:
  * `desireState \in Specs` while Apply runs;
  * `kparamsToVisit \subseteq DOMAIN desiredKernelParams`.

  The strengthening is needed because the loop increments
  `desiredKernelParams[k]` for a visited `k`, which is only well typed when
  `k` is in the ledger.
* **`VfioParamsTracked`:** `Spec => []VfioKernelParamsTracked`, through
  `VfioInv`. `VfioInv` adds that a desired state needing vfio already has both
  IOMMU parameters queued. This holds because `OnNodeStateChange` queues them
  before Apply can load the driver, and a restart clears the desired state,
  the flags and the ledger together.
* **`DriversLoaded`:** `Spec => []AppliedDriversLoaded`, through `AppliedInv`.
  `AppliedInv` adds two facts:
  * a `DriverLoaded` flag means the module is in `kmods`;
  * inside `syncDriverState`, every driver already visited that
    `DesireState` needs is flagged.

  The second fact is needed because `ApplyFinish` records `DesireState`
  once the range is empty. The lemma `NeedDriverMatchesSpec` says that the
  catalogue's `NeedDriver` is exactly spec §4.1's `SpecNeedsDriver` for each
  of the three drivers. This is the point where a wrong catalogue entry would
  break the proof.

`GenericPluginLedgerProofs.tla`:

* **`AttemptsKept`** (`Spec => AttemptsNeverReset`, an action property). The
  lemma `LedgerStepCases` says that every step except a restart or a reboot
  does one of two things:
  * it only queues (`Queued`: old keys keep their counters, new keys start at
    0);
  * it adds one attempt to a key the loop visits, a key off the command line,
    and writes at most that key into the boot configuration.

  The lemmas `AddQueued`, `QueuedTrans` and `AddVfioQueued` give the queuing
  half.
* **`LedgerRefined`** (`Spec => ImplementsLedger`). The refinement is to the
  abstract ledger with `GiveUp <- MaxAttempts`:
  * queuing steps and the loop's iterations are `Reconcile` steps;
  * the other steps stutter;
  * a restart is a `Forget` and a reboot is a `Boot`.

  It needs the inductive `LedgerInv`: while the loop runs, the keys it has not
  visited are below `MaxAttempts`. `OnNodeStateChange` starts the loop only
  when every counter is below the bound, and each key is counted once.

TLC checked `AppliedInv` and `LedgerInv` as invariants on the plugin_safety
instance (3.5M states) before the proofs.

The assumptions are `MaxAttempts \in Nat \ {0}`, and `NoState`,
`Unconfigured` and `Partial` being distinct from every spec.
`MaxAttempts` is a model bound. In part_000 it stands where the spec's
give-up would be, so `LedgerRefined` says the code counts and writes like the
ledger. It does not say the code gives up, and the run giveup_missing shows
that the code does not.

## Proofs (`GenericPluginLegacyProofs.tla`, all checked by tlapm)

* **`LegacyTypeSafe`** (`Spec => []TypeOK`). `TypeOK` is inductive as it
  stands (lemmas `TypeInit` and `TypeStep`). It rests on `NeedRebootNodeStep`,
  which says that `needRebootNode` applied to a typed ledger gives a typed
  ledger and statuses. That lemma in turn rests on `AddType` and
  `SetAllStep`, which state what the two ledger operators return.
* **`LegacyImplementsLedger`** (`Spec => ImplementsLedger`). The refinement
  mapping sends `ledger` to `desiredKernelParams` and keeps `cmdline` and
  `bootcfg`. The initial states map to `Ledger!Init`. Each step maps as
  follows:
  * `OnNodeStateChange` is a `Reconcile`: `NeedRebootNodeStep` shows that the
    new ledger keeps the old keys, and that it counts and writes only
    eligible parameters.
  * `Apply` is a stutter.
  * `DaemonRestart` is a `Forget`.
  * `NodeReboot` is a `Boot`.

  It uses `TypeOK` from `LegacyTypeSafe`.
* **`LegacyDriversLoaded`**: `NoVhost => (Spec => []AppliedDriversLoaded)`.
  `NoVhost` means that no desired list needs vhost_vdpa. Without it the
  property is false, as the run legacy_vhost_not_loaded shows. The inductive
  invariant `DriverInv` strengthens the property with three facts:
  * a status `loaded` means that the module is in `kmods`;
  * a desired list that needs a driver has that driver marked (not
    `unloaded`);
  * a recorded list's drivers are in `kmods`.

  The second fact is what makes it inductive. `Apply` records
  `DesireState` only after loading every marked driver, so it needs to know
  that `needRebootNode` marked the drivers in the call that set
  `DesireState`. A restart or a reboot clears the marks, the desired list
  and `LastState` together. TLC checked `DriverInv` as an invariant before the
  proof.

* **`LegacyLoadMonotonic`** (`Spec => DriverLoadNeverRegresses`) is an
  action property. It comes from the lemma `LegacyStepCases`. It says that `OnNodeStateChange`
  is a ledger step that moves a status only from unloaded or loading to
  loading, and that `Apply` moves a status only to `LoadedAfter` of itself
  and leaves the ledger alone.

The only assumption is `LegacyNoStateAssumption`: `NoState`, `Unconfigured`
and `Partial` are not specs.

## Proof about the drain decision (`DrainPolicyProofs.tla`, checked by tlapm)

* **`DrainLoopCorrect`** (`Spec => []DrainLoopMatchesSpec`). It holds for any
  PCI addresses, MTUs and list bound, under the one assumption
  `VfCountsAssumption` (VF counts are in `Nat`). The lists lie in
  `Seq(Iface)` and never change (`ListsInv`). The theorem rests on the lemma
  `LoopMatchesSpec`: for any two sequences whose observed VF counts are
  natural, `needDrainNodeLoop(d, c) = needDrainNode(d, c)`.

`InnerScan` and `needDrainNodeLoop` define recursive functions in a LET. Such
a function is `CHOOSE f : f = Body(f)`, so the provers know nothing of its
values until that equation is shown to have exactly one solution. Each loop
is handled in three steps:

1. **A closed form.**
   * `ScanClosed` is the value of the inner scan from index j. `configured`
     holds when some desired interface at or after j has the address.
     `drain` holds when, in addition, the observed interface has VFs and
     one of those desired interfaces `NeedUpdate`s it.
   * `LoopClosed` is the value of the outer loop from index i: some later
     observed interface is a `Hit`.
2. **It solves the equation** (`ScanClosedFix`, `LoopClosedFix`). This is
   checked pointwise, one case per branch of the loop body. The `break` on
   `NumVfs = 0` is the case where the closed form's `drain` is false.
3. **No other function solves it** (`ScanUnique`, `LoopUnique`). Take the
   disagreement index nearest the end of the list. The lemma `LeastNat`
   finds it by counting from the end; `LeastNat` comes from `WFMin` and
   `NatLessThanWellFounded` of the library. At that index the body reads
   only the next entry (`ScanBodyLocal`, `LoopBodyAt`), where the two
   functions agree, so they agree there too.

This argument takes the place of the induction over the list that the
library's operator-parameter theorems would give. The `break` and the early
returns are exactly the cases of step 2. The mutant that drops the `break`
fails that step, and TLC shows it breaking `DrainLoopMatchesSpec`.

## What stays with TLC

A proved theorem states every invariant and every action property of the
passing runs. The violation runs stay with TLC: they exhibit counterexamples.
The model has no liveness property (see Fairness).

## Not modelled

* The nil dereference of a legacy or current `Apply` called before any
  `OnNodeStateChange`. The daemon calls `OnNodeStateChange` first, and the
  model assumes it.
* The host manager, utils and the script. They are outside src/ and appear as
  nondeterministic outcomes.
* Slice aliasing from the shallow `LastState` copy.

## Plan for the next sittings

1. Liveness of kernel parameters: under fair reboots, a parameter the script
   accepts eventually reaches the live command line. This is for both
   versions, and for the legacy version also under the short-circuit. It
   would be checked by TLC.
2. Properties of the abstract ledger proved once in `KernelParamLedger`, for
   example that the boot configuration only holds tracked-and-tried
   parameters. They would then carry over to both versions through the
   refinement theorems.
