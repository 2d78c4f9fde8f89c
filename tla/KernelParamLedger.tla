------------------------- MODULE KernelParamLedger -------------------------
(***************************************************************************)
(* What the kernel-parameter ledger of the generic plugin promises (spec  *)
(* section 4.2), independent of the version: the daemon's memory tracks    *)
(* desired boot parameters with attempt counters; a parameter is queued   *)
(* at 0 and queuing it again keeps its counter; a sync tries parameters    *)
(* that are tracked, absent from the live command line and not given up, *)
(* counts each try once, and only a try puts a parameter into the boot    *)
(* configuration; the ledger is lost with the process, and the live       *)
(* command line changes only when the node boots from its configuration.  *)
(***************************************************************************)
EXTENDS Naturals

CONSTANTS
    Params,     \* the boot parameters the plugin can ask for
    GiveUp      \* a parameter with more attempts than this is not tried

VARIABLES
    ledger,     \* tracked parameter -> attempts
    cmdline,    \* parameters on the live kernel command line
    bootcfg     \* parameters in the boot loader configuration

ledgerVars == <<ledger, cmdline, bootcfg>>

Init ==
    /\ ledger = [k \in {} |-> 0]
    /\ cmdline = {}
    /\ bootcfg = {}

\* The counter a parameter has before a step: 0 when it is not tracked yet
\* (queuing it starts it at 0).
Before(k) == IF k \in DOMAIN ledger THEN ledger[k] ELSE 0

\* A parameter a sync may try: absent from the live command line and not
\* past the give-up threshold.
Eligible(k) == k \notin cmdline /\ Before(k) <= GiveUp

\* One reconciliation step: some parameters are queued (new ones at 0,
\* tracked ones keep their counters), some eligible ones are tried, each
\* counted once, and the script writes only tried parameters into the boot
\* configuration.
Reconcile ==
    /\ DOMAIN ledger \subseteq DOMAIN ledger'
    /\ DOMAIN ledger' \subseteq Params
    /\ \A k \in DOMAIN ledger' :
          \/ ledger'[k] = Before(k)
          \/ ledger'[k] = Before(k) + 1 /\ Eligible(k)
    /\ bootcfg \subseteq bootcfg'
    /\ \A k \in bootcfg' \ bootcfg :
          k \in DOMAIN ledger' /\ ledger'[k] = Before(k) + 1
    /\ UNCHANGED cmdline

\* The daemon process ends: its ledger is gone, the host keeps its state.
Forget ==
    /\ ledger' = [k \in {} |-> 0]
    /\ UNCHANGED <<cmdline, bootcfg>>

\* The node boots from its boot configuration (the process ends too).
Boot ==
    /\ ledger' = [k \in {} |-> 0]
    /\ cmdline' = bootcfg
    /\ UNCHANGED bootcfg

Next ==
    \/ Reconcile
    \/ Forget
    \/ Boot

Spec == Init /\ [][Next]_ledgerVars

=============================================================================
