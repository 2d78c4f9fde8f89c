---------------------------- MODULE DrainPolicy ----------------------------
(***************************************************************************)
(* The drain decision of the generic plugin: needDrainNode(desired,        *)
(* current) of src/unnamed/part_000 (identical in                          *)
(* src/pkg/plugins/generic/generic_plugin.go).                             *)
(*                                                                         *)
(* An interface spec (sriovnetworkv1.Interface) is abstracted to its PCI   *)
(* address, its VF count, its MTU and its VF groups; an interface status   *)
(* (InterfaceExt) to its PCI address, VF count and MTU.  Both lists are    *)
(* TLA+ sequences, kept in the order the code iterates them.               *)
(*                                                                         *)
(* Two forms are given: needDrainNode, the existential the core model      *)
(* uses, and needDrainNodeLoop, a transcription of the two nested loops    *)
(* with their break and early returns.  MC_DrainPolicy checks that they    *)
(* agree on every pair of bounded lists.                                   *)
(***************************************************************************)
EXTENDS Naturals, Sequences

\* utils.NeedUpdate (pkg/utils, outside src/): the observed interface
\* differs from the requested one in a field that touches live traffic.
NeedUpdate(iface, ifaceStatus) ==
    \/ iface.numVfs # ifaceStatus.numVfs
    \/ iface.mtu # ifaceStatus.mtu

\* An observed interface is configured when some desired interface has
\* its PCI address.
Configured(desired, ifaceStatus) ==
    \E j \in 1..Len(desired) : desired[j].pciAddress = ifaceStatus.pciAddress

\* needDrainNode: some observed interface either carries VFs and differs
\* from a desired interface with its address, or carries VFs and is no
\* longer configured at all.
needDrainNode(desired, current) ==
    \E i \in 1..Len(current) :
        LET ifaceStatus == current[i] IN
        /\ ifaceStatus.numVfs # 0
        /\ \/ \E j \in 1..Len(desired) :
                 /\ desired[j].pciAddress = ifaceStatus.pciAddress
                 /\ NeedUpdate(desired[j], ifaceStatus)
           \/ ~Configured(desired, ifaceStatus)

\* Mutant: the break on a PF with no VFs dropped.
MutantInnerScanNoBreak(desired, ifaceStatus) ==
    LET scan[j \in 1..(Len(desired) + 1)] ==
          IF j > Len(desired)
            THEN [configured |-> FALSE, drain |-> FALSE]
          ELSE IF desired[j].pciAddress # ifaceStatus.pciAddress
            THEN scan[j + 1]
          ELSE IF NeedUpdate(desired[j], ifaceStatus)
            THEN [configured |-> TRUE, drain |-> TRUE]
          ELSE [configured |-> TRUE, drain |-> scan[j + 1].drain]
    IN  scan[1]

\* The inner loop over desired from index j for one observed interface:
\* [configured, drain] as the loop leaves them (break on NumVfs = 0,
\* return on NeedUpdate).
InnerScan(desired, ifaceStatus) ==
    LET scan[j \in 1..(Len(desired) + 1)] ==
          IF j > Len(desired)
            THEN [configured |-> FALSE, drain |-> FALSE]
          ELSE IF desired[j].pciAddress # ifaceStatus.pciAddress
            THEN scan[j + 1]
          ELSE IF ifaceStatus.numVfs = 0
            THEN [configured |-> TRUE, drain |-> FALSE]
          ELSE IF NeedUpdate(desired[j], ifaceStatus)
            THEN [configured |-> TRUE, drain |-> TRUE]
          ELSE [configured |-> TRUE, drain |-> scan[j + 1].drain]
    IN  scan[1]

\* The outer loop over current from index i, returning on the first
\* observed interface that needs a drain.
needDrainNodeLoop(desired, current) ==
    LET loop[i \in 0..Len(current)] ==
          IF i = Len(current) THEN FALSE
          ELSE LET r == InnerScan(desired, current[i + 1]) IN
               IF r.drain THEN TRUE
               ELSE IF ~r.configured /\ current[i + 1].numVfs > 0 THEN TRUE
               ELSE loop[i + 1]
    IN  loop[0]

=============================================================================
