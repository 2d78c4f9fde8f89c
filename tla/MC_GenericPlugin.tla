-------------------------- MODULE MC_GenericPlugin --------------------------
(***************************************************************************)
(* Instance of GenericPlugin for TLC: one PF at p1 whose VF groups ask    *)
(* for vfio_pci and virtio_vdpa, or for vhost_vdpa beside a plain         *)
(* netdevice; an observed list that forces a drain and one that does not. *)
(***************************************************************************)
EXTENDS GenericPlugin

GroupVfio == [deviceType |-> DeviceTypeVfioPci, vdpaType |-> ""]
GroupVirtio == [deviceType |-> DeviceTypeNetDevice, vdpaType |-> VdpaTypeVirtio]
GroupVhost == [deviceType |-> DeviceTypeNetDevice, vdpaType |-> VdpaTypeVhost]
GroupNetdev == [deviceType |-> DeviceTypeNetDevice, vdpaType |-> ""]

PF(groups) == [pciAddress |-> "p1", numVfs |-> 2, mtu |-> 1500, vfGroups |-> groups]

MCSpecs == {<<PF({GroupVfio, GroupVirtio})>>, <<PF({GroupVhost, GroupNetdev})>>}

MCStatuses == {<<>>, <<[pciAddress |-> "p1", numVfs |-> 1, mtu |-> 1500]>>}

\* A smaller instance for long retry histories: only the vfio_pci list.
MCSpecsVfio == {<<PF({GroupVfio})>>}

MCStatusesNone == {<<>>}

\* A host whose parameter setter never fails (it exits 0, or 127 when the
\* tool is missing) and whose command line is always readable; the setter
\* may still print nothing, or something that is not a number.
MCScriptRunsNoFailure == [exitStatus : {0, 127}, stdout : {"1", "0", ""}]

MCCmdlineReadNeverFails == FALSE

=============================================================================
