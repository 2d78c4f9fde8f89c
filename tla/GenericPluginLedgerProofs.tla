--------------------- MODULE GenericPluginLedgerProofs ---------------------
(***************************************************************************)
(* Proofs that part_000 keeps its kernel-parameter ledger: the attempt    *)
(* counters never go back within a process, and every step is a step of  *)
(* the abstract ledger of KernelParamLedger (spec section 4.2).           *)
(***************************************************************************)
EXTENDS GenericPluginProofs

\* new is old with some parameters queued: old keys keep their counters,
\* new keys start at 0.
Queued(new, old) ==
    /\ DOMAIN old \subseteq DOMAIN new
    /\ \A k \in DOMAIN new : new[k] = IF k \in DOMAIN old THEN old[k] ELSE 0

\* OnNodeStateChange starts the loop only when every counter is below
\* MaxAttempts, and the loop counts each key once: while it runs, the keys
\* it has not visited yet are still below MaxAttempts.
LedgerInv ==
    pc = "SyncKernelParams" =>
        \A k \in kparamsToVisit : desiredKernelParams[k] < MaxAttempts

-----------------------------------------------------------------------------
(* Queuing keeps counters.                                                 *)

\* addToDesiredKernelParams only queues.
LEMMA AddQueued ==
    ASSUME NEW params, NEW kparam \in KParams, ParamMap(params)
    PROVE  Queued(addToDesiredKernelParams(params, kparam), params)
BY DEF addToDesiredKernelParams, Queued, ParamMap

\* Queuing twice is queuing.
LEMMA QueuedTrans ==
    ASSUME NEW p0, NEW p1, NEW p2, Queued(p1, p0), Queued(p2, p1)
    PROVE  Queued(p2, p0)
BY DEF Queued

\* addVfioDesiredKernelParam only queues.
LEMMA AddVfioQueued ==
    ASSUME NEW state, ParamMap(desiredKernelParams)
    PROVE  Queued(addVfioDesiredKernelParam(state), desiredKernelParams)
<1> DEFINE p1 == addToDesiredKernelParams(desiredKernelParams, KernelParamIntelIommu)
<1> DEFINE p2 == addToDesiredKernelParams(p1, KernelParamIommuPt)
<1>1. KernelParamIntelIommu \in KParams /\ KernelParamIommuPt \in KParams
  BY DEF KParams, VfioKParams
<1>2. Queued(p1, desiredKernelParams) /\ ParamMap(p1)
  BY <1>1, AddQueued, AddToDesiredKernelParamsType
<1>3. Queued(p2, p1)
  BY <1>1, <1>2, AddQueued
<1>4. Queued(p2, desiredKernelParams)
  BY <1>2, <1>3, QueuedTrans
<1>5. Queued(desiredKernelParams, desiredKernelParams)
  BY DEF Queued
<1>6. QED
  BY <1>4, <1>5 DEF addVfioDesiredKernelParam

\* What a step of the plugin does to DesiredKernelParams: a restart or a
\* reboot, or a queue, or one more attempt for a key the range visits.
LEMMA LedgerStepCases ==
    ASSUME TypeInv, [Next]_vars
    PROVE  \/ DaemonRestart \/ NodeReboot
           \/ /\ Queued(desiredKernelParams', desiredKernelParams)
              /\ UNCHANGED <<cmdline, bootcfg>>
           \/ \E k \in kparamsToVisit :
                 /\ pc = "SyncKernelParams"
                 /\ k \notin cmdline
                 /\ desiredKernelParams' = [desiredKernelParams EXCEPT ![k] = @ + 1]
                 /\ bootcfg' \in {bootcfg, bootcfg \cup {k}}
                 /\ UNCHANGED cmdline
<1>0. ParamMap(desiredKernelParams) /\ kparamsToVisit \subseteq DOMAIN desiredKernelParams
  BY TypeOKParamMap DEF TypeInv
<1>1. Queued(desiredKernelParams, desiredKernelParams)
  BY DEF Queued
<1>2. ASSUME NEW new \in Specs, NEW status \in Statuses, OnNodeStateChange(new, status)
      PROVE  Queued(desiredKernelParams', desiredKernelParams) /\ UNCHANGED <<cmdline, bootcfg>>
  BY <1>0, <1>2, AddVfioQueued DEF OnNodeStateChange, hostVars
<1>3. ASSUME NEW k \in KParams, SyncKernelParam(k)
      PROVE  \/ Queued(desiredKernelParams', desiredKernelParams) /\ UNCHANGED <<cmdline, bootcfg>>
             \/ \E j \in kparamsToVisit :
                   /\ pc = "SyncKernelParams"
                   /\ j \notin cmdline
                   /\ desiredKernelParams' = [desiredKernelParams EXCEPT ![j] = @ + 1]
                   /\ bootcfg' \in {bootcfg, bootcfg \cup {j}}
                   /\ UNCHANGED cmdline
  BY <1>1, <1>3 DEF SyncKernelParam, ReturnRebootError, Return
<1>4. CASE ApplyFinish
  <2>1. Queued(addToDesiredKernelParams(desiredKernelParams, KernelParamPciRealloc),
               desiredKernelParams)
    BY <1>0, AddQueued DEF KParams, VfioKParams
  <2>2. QED
    BY <1>1, <1>4, <2>1 DEF ApplyFinish, pluginVars
<1>5. CASE SyncKernelParamsDone \/ ApplyNothingToDo \/ ApplyStart \/ UNCHANGED vars
  BY <1>1, <1>5 DEF SyncKernelParamsDone, ApplyNothingToDo, ApplyStart, vars,
                    pluginVars, hostVars
<1>6. ASSUME NEW d \in Drivers, SyncDriver(d)
      PROVE  Queued(desiredKernelParams', desiredKernelParams) /\ UNCHANGED <<cmdline, bootcfg>>
  BY <1>1, <1>6 DEF SyncDriver
<1>7. QED
  BY <1>2, <1>3, <1>4, <1>5, <1>6 DEF Next, CallStep

\* Within one process no tracked kernel parameter leaves DesiredKernelParams
\* and no attempt counter goes down (AttemptsNeverReset): needRebootNode and
\* a failed SyncNodeState only queue, and syncDesiredKernelParams only adds
\* one; only a restart or a reboot starts a new, empty ledger.
THEOREM AttemptsKept == Spec => AttemptsNeverReset
<1>1. TypeInv /\ [Next]_vars =>
        [\/ DaemonRestart
         \/ NodeReboot
         \/ \A k \in DOMAIN desiredKernelParams :
              /\ k \in DOMAIN desiredKernelParams'
              /\ desiredKernelParams'[k] >= desiredKernelParams[k]]_vars
  <2> SUFFICES ASSUME TypeInv, [Next]_vars
               PROVE  \/ DaemonRestart
                      \/ NodeReboot
                      \/ \A k \in DOMAIN desiredKernelParams :
                           /\ k \in DOMAIN desiredKernelParams'
                           /\ desiredKernelParams'[k] >= desiredKernelParams[k]
    OBVIOUS
  <2>0. ParamMap(desiredKernelParams) /\ kparamsToVisit \subseteq DOMAIN desiredKernelParams
    BY TypeOKParamMap DEF TypeInv
  <2>1. QED
    BY <2>0, LedgerStepCases DEF Queued, ParamMap
<1>2. QED
  BY <1>1, TypeCorrect, PTL DEF Spec, AttemptsNeverReset

-----------------------------------------------------------------------------
(* Refinement of the kernel-parameter ledger.                              *)

\* Every step keeps LedgerInv.
LEMMA LedgerInvStep == TypeInv /\ LedgerInv /\ [Next]_vars => LedgerInv'
<1> SUFFICES ASSUME TypeInv, LedgerInv, [Next]_vars PROVE LedgerInv'
  OBVIOUS
<1>0. ParamMap(desiredKernelParams) /\ kparamsToVisit \subseteq DOMAIN desiredKernelParams
  BY TypeOKParamMap DEF TypeInv
<1>1. ASSUME NEW new \in Specs, NEW status \in Statuses, OnNodeStateChange(new, status)
      PROVE  LedgerInv'
  <2>1. /\ Queued(desiredKernelParams', desiredKernelParams)
        /\ kparamsToVisit' = DOMAIN desiredKernelParams'
        /\ \A k \in DOMAIN desiredKernelParams : desiredKernelParams[k] < MaxAttempts
    BY <1>0, <1>1, AddVfioQueued DEF OnNodeStateChange
  <2>2. QED
    BY <2>1, MaxAttemptsAssumption DEF Queued, LedgerInv
<1>2. ASSUME NEW k \in KParams, SyncKernelParam(k) PROVE LedgerInv'
  <2>1. CASE pc' = "Idle"
    BY <2>1 DEF LedgerInv
  <2>2. CASE /\ kparamsToVisit' = kparamsToVisit \ {k}
             /\ desiredKernelParams' \in {desiredKernelParams,
                                           [desiredKernelParams EXCEPT ![k] = @ + 1]}
    BY <1>0, <1>2, <2>2 DEF LedgerInv, SyncKernelParam, ParamMap
  <2>3. QED
    BY <1>2, <2>1, <2>2 DEF SyncKernelParam, ReturnRebootError, Return
<1>3. CASE UNCHANGED vars
  BY <1>3 DEF vars, pluginVars, callVars, LedgerInv
\* Every other step leaves pc outside the parameter loop.
<1>4. CASE \/ SyncKernelParamsDone \/ ApplyNothingToDo \/ ApplyStart
           \/ \E d \in Drivers : SyncDriver(d)
           \/ ApplyFinish \/ DaemonRestart \/ NodeReboot
  <2>1. pc' # "SyncKernelParams"
    BY <1>4 DEF SyncKernelParamsDone, ApplyNothingToDo, ApplyStart, SyncDriver,
                ApplyFinish, DaemonRestart, NodeReboot, NewGenericPlugin,
                ReturnRebootError, Return
  <2>2. QED
    BY <2>1 DEF LedgerInv
<1>5. QED
  BY <1>1, <1>2, <1>3, <1>4 DEF Next, CallStep

\* part_000 implements the kernel-parameter ledger of spec section 4.2 with
\* the threshold MaxAttempts (ImplementsLedger): OnNodeStateChange and a
\* failed SyncNodeState only queue, each iteration of
\* syncDesiredKernelParams counts one tracked parameter that is off the live
\* command line and writes only that one, other steps leave the ledger
\* alone, and a restart or a reboot is the ledger's Forget or Boot.
THEOREM LedgerRefined == Spec => ImplementsLedger
<1>1. Init => Ledger!Init
  BY DEF Init, Ledger!Init
<1>2. TypeInv /\ TypeInv' /\ LedgerInv /\ [Next]_vars => [Ledger!Next]_Ledger!ledgerVars
  <2> SUFFICES ASSUME TypeInv, TypeInv', LedgerInv, [Next]_vars
               PROVE  [Ledger!Next]_Ledger!ledgerVars
    OBVIOUS
  <2>0. /\ ParamMap(desiredKernelParams) /\ ParamMap(desiredKernelParams')
        /\ kparamsToVisit \subseteq DOMAIN desiredKernelParams
    BY DEF TypeInv, TypeOK, ParamMap
  <2>1. CASE DaemonRestart
    BY <2>1 DEF DaemonRestart, NewGenericPlugin, hostVars, Ledger!Next, Ledger!Forget
  <2>2. CASE NodeReboot
    BY <2>2 DEF NodeReboot, NewGenericPlugin, Ledger!Next, Ledger!Boot
  <2>3. CASE Queued(desiredKernelParams', desiredKernelParams) /\ UNCHANGED <<cmdline, bootcfg>>
    <3>1. Ledger!Reconcile
      BY <2>0, <2>3 DEF Queued, ParamMap, Ledger!Reconcile, Ledger!Before
    <3>2. QED
      BY <3>1 DEF Ledger!Next
  <2>4. ASSUME NEW k \in kparamsToVisit,
               pc = "SyncKernelParams",
               k \notin cmdline,
               desiredKernelParams' = [desiredKernelParams EXCEPT ![k] = @ + 1],
               bootcfg' \in {bootcfg, bootcfg \cup {k}},
               UNCHANGED cmdline
        PROVE  [Ledger!Next]_Ledger!ledgerVars
    <3>1. k \in DOMAIN desiredKernelParams /\ desiredKernelParams[k] < MaxAttempts
      BY <2>0, <2>4 DEF LedgerInv
    <3>2. /\ DOMAIN desiredKernelParams' = DOMAIN desiredKernelParams
          /\ desiredKernelParams'[k] = desiredKernelParams[k] + 1
          /\ \A j \in DOMAIN desiredKernelParams \ {k} :
                desiredKernelParams'[j] = desiredKernelParams[j]
      BY <2>4, <3>1
    <3>3. /\ bootcfg \subseteq bootcfg'
          /\ bootcfg' \ bootcfg \subseteq {k}
      BY <2>4
    <3>4. /\ Ledger!Before(k) = desiredKernelParams[k]
          /\ \A j \in DOMAIN desiredKernelParams : Ledger!Before(j) = desiredKernelParams[j]
          /\ Ledger!Eligible(k)
      BY <2>4, <3>1, <2>0, MaxAttemptsAssumption DEF Ledger!Before, Ledger!Eligible, ParamMap
    <3>5. Ledger!Reconcile
      BY <2>0, <2>4, <3>1, <3>2, <3>3, <3>4 DEF ParamMap, Ledger!Reconcile
    <3>6. QED
      BY <3>5 DEF Ledger!Next
  <2>5. QED
    BY <2>1, <2>2, <2>3, <2>4, LedgerStepCases
<1>3. Init => LedgerInv
  BY DEF Init, LedgerInv
<1>4. QED
  BY <1>1, <1>2, <1>3, LedgerInvStep, TypeCorrect, PTL
  DEF Spec, ImplementsLedger, Ledger!Spec

=============================================================================
