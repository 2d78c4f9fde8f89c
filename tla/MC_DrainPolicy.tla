--------------------------- MODULE MC_DrainPolicy ---------------------------
(***************************************************************************)
(* Bounded check of the drain decision: every pair of desired and         *)
(* observed interface lists of length at most MaxIfaces, over two PCI      *)
(* addresses, a zero and a non-zero VF count and two MTUs, is an initial   *)
(* state; the loop transcription must agree with needDrainNode on each.   *)
(***************************************************************************)
EXTENDS DrainPolicy, FiniteSets

CONSTANTS PciAddrs, VfCounts, Mtus, MaxIfaces

\* NumVfs is a count of virtual functions read from sysfs: never negative.
\* The loop tests NumVfs > 0 where needDrainNode tests NumVfs # 0; the two
\* agree only on such counts.
ASSUME VfCountsAssumption == VfCounts \subseteq Nat

VARIABLES desired, current

vars == <<desired, current>>

Iface == [pciAddress : PciAddrs, numVfs : VfCounts, mtu : Mtus]

IfaceLists == UNION {[1..n -> Iface] : n \in 0..MaxIfaces}

Init == desired \in IfaceLists /\ current \in IfaceLists

Next == UNCHANGED vars

Spec == Init /\ [][Next]_vars

\* The loops of needDrainNode (break on a configured interface with no VFs,
\* return on the first interface needing an update or a reset) compute
\* exactly the decision the rest of the model relies on.
DrainLoopMatchesSpec ==
    needDrainNodeLoop(desired, current) = needDrainNode(desired, current)

=============================================================================
