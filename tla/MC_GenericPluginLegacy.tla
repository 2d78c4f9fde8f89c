----------------------- MODULE MC_GenericPluginLegacy -----------------------
(***************************************************************************)
(* Instance of GenericPluginLegacy for TLC: one PF at p1 whose VF groups  *)
(* ask for vfio_pci and virtio_vdpa, or for a plain netdevice; a vhost    *)
(* list for the driver the legacy plugin does not know.                   *)
(***************************************************************************)
EXTENDS GenericPluginLegacy

GroupVfio == [deviceType |-> DeviceTypeVfioPci, vdpaType |-> ""]
GroupVirtio == [deviceType |-> DeviceTypeNetDevice, vdpaType |-> VdpaTypeVirtio]
GroupVhost == [deviceType |-> DeviceTypeNetDevice, vdpaType |-> VdpaTypeVhost]
GroupNetdev == [deviceType |-> DeviceTypeNetDevice, vdpaType |-> ""]

PF(groups) == [pciAddress |-> "p1", numVfs |-> 2, mtu |-> 1500, vfGroups |-> groups]

MCSpecs == {<<PF({GroupVfio, GroupVirtio})>>, <<PF({GroupNetdev})>>}

MCStatuses == {<<>>, <<[pciAddress |-> "p1", numVfs |-> 1, mtu |-> 1500]>>}

MCSpecsVhost == {<<PF({GroupVhost})>>}

MCStatusesNone == {<<>>}

=============================================================================
