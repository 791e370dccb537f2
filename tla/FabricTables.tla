------------------------------- MODULE FabricTables -------------------------------
(* The types of fabrics, PCIe and network devices, as ResourceTables writes them. *)
EXTENDS ResourceTables

\* Fabric (redfish/fabric.go)
Fabric ==
  Resource(
    [fields |-> {"Description", "FabricType", "MaxZones", "Oem", "Status", "UUID"},
     one |-> [addressPools |-> "AddressPools", connections |-> "Connections", endpointGroups |-> "EndpointGroups",
              endpoints |-> "Endpoints", switches |-> "Switches", zones |-> "Zones"],
     keeps |-> TRUE],
    [AddressPools |-> Members("addressPools", "AddressPool"), Connections |-> Members("connections", "Connection"),
     EndpointGroups |-> Members("endpointGroups", "EndpointGroup"), Endpoints |-> Members("endpoints", "Endpoint"),
     Switches |-> Members("switches", "Switch"), Update |-> Patch({"UUID"})])

\* Switch (redfish/switch.go)
SwitchFields ==
  [fields |-> {"AssetTag", "CXL", "CurrentBandwidthGbps", "Description", "DomainID", "Enabled",
               "EnvironmentMetrics", "FirmwareVersion", "IsManaged", "Location", "LocationIndicatorActive",
               "Manufacturer", "MaxBandwidthGbps", "Model", "Oem", "PartNumber", "PowerState", "Redundancy",
               "RedundancyCount", "SKU", "SerialNumber", "Status", "SupportedProtocols", "SwitchType",
               "TotalSwitchWidth", "UUID", "EndpointsCount", "ManagedByCount"},
   counts |-> {"RedundancyCount", "EndpointsCount", "ManagedByCount"}]

SwitchDecode ==
  [one |-> [certificates |-> "Certificates", logServices |-> "LogServices", metrics |-> "Metrics",
            ports |-> "Ports", chassis |-> "Links.Chassis", pcieDevice |-> "Links.PCIeDevice"],
   many |-> [endpoints |-> "Links.Endpoints", managedBy |-> "Links.ManagedBy"],
   target |-> [resetTarget |-> "#Reset"],
   count |-> [EndpointsCount |-> "Links.Endpoints", ManagedByCount |-> "Links.ManagedBy",
              RedundancyCount |-> "Redundancy"],
   keeps |-> TRUE]

SwitchFromCertificates ==
  [Certificates |-> Members("certificates", "Certificate"), LogServices |-> Members("logServices", "LogService"),
   Metrics |-> Get("metrics", "SwitchMetrics"), Ports |-> Members("ports", "Port"),
   Chassis |-> Get("chassis", "Chassis"), Endpoints |-> Objects("endpoints", "Endpoint"),
   ManagedBy |-> Objects("managedBy", "Manager"), PCIeDevice |-> Get("pcieDevice", "PCIeDevice"),
   Reset |-> Post("resetTarget"),
   Update |-> Patch({"AssetTag", "Enabled", "IsManaged", "LocationIndicatorActive"})]

\* Port (redfish/port.go)
PortFields ==
  [fields |-> {"ActiveWidth", "CapableProtocolVersions", "CurrentProtocolVersion", "CurrentSpeedGbps", "CXL",
               "Description", "Enabled", "Ethernet", "FibreChannel", "FunctionMaxBandwidth",
               "FunctionMinBandwidth", "InfiniBand", "InterfaceEnabled", "LinkConfiguration",
               "LinkNetworkTechnology", "LinkState", "LinkStatus", "LinkTransitionIndicator", "Location",
               "LocationIndicatorActive", "MaxFrameSize", "MaxSpeedGbps", "PortId", "PortMedium", "PortProtocol",
               "PortType", "RemotePortId", "SFP", "SignalDetected", "Status", "Width",
               "AssociatedEndpointsCount", "CablesCount", "ConnectedPortsCount", "ConnectedSwitchesCount",
               "ConnectedSwitchPortsCount", "EthernetInterfacesCount", "OemLinks", "OemActions", "Oem"},
   counts |-> {"AssociatedEndpointsCount", "CablesCount", "ConnectedPortsCount", "ConnectedSwitchesCount",
               "ConnectedSwitchPortsCount", "EthernetInterfacesCount"},
   inside |-> [BackpressureSampleInterval |-> "CXL", CompletionCollectionInterval |-> "CXL",
               CongestionTelemetryEnabled |-> "CXL", EgressModeratePercentage |-> "CXL",
               EgressSeverePercentage |-> "CXL", MaxSustainedRequestCmpBias |-> "CXL",
               TemporaryThroughputReductionEnabled |-> "CXL", EEEEnabled |-> "Ethernet",
               FlowControlConfiguration |-> "Ethernet", LLDPEnabled |-> "Ethernet",
               ChassisIDSubtype |-> "Ethernet", ManagementAddressIPv4 |-> "Ethernet",
               ManagementAddressIPv6 |-> "Ethernet", ManagementAddressMAC |-> "Ethernet",
               PortIDSubtype |-> "Ethernet", SystemCapabilities |-> "Ethernet", SystemDescription |-> "Ethernet",
               SystemName |-> "Ethernet", WakeOnLANEnabled |-> "Ethernet",
               AllocationPercent |-> "FunctionMaxBandwidth", AutoSpeedNegotiationEnabled |-> "LinkConfiguration",
               ConfiguredLinkSpeedGbps |-> "LinkConfiguration", ConfiguredWidth |-> "LinkConfiguration"]]

PortDecode ==
  [one |-> [environmentMetrics |-> "EnvironmentMetrics", metrics |-> "Metrics"],
   many |-> [associatedEndpoints |-> "Links.AssociatedEndpoints", cables |-> "Links.Cables",
             connectedPorts |-> "Links.ConnectedPorts", connectedSwitches |-> "Links.ConnectedSwitches",
             connectedSwitchPorts |-> "Links.ConnectedSwitchPorts",
             ethernetInterfaces |-> "Links.EthernetInterfaces"],
   inline |-> [genZLPRT |-> "GenZ.LRPT", genZMPRT |-> "GenZ.MRPT", genZVCAT |-> "GenZ.VCAT"],
   target |-> [resetTarget |-> "#Reset", resetPPBTarget |-> "#ResetPPB"],
   count |-> [AssociatedEndpointsCount |-> "Links.AssociatedEndpoints", CablesCount |-> "Links.Cables",
              ConnectedPortsCount |-> "Links.ConnectedPorts",
              ConnectedSwitchesCount |-> "Links.ConnectedSwitches",
              ConnectedSwitchPortsCount |-> "Links.ConnectedPorts",
              EthernetInterfacesCount |-> "Links.EthernetInterfaces"]]

PortFromEnvironmentMetrics ==
  [EnvironmentMetrics |-> GetIf("environmentMetrics", "EnvironmentMetrics"),
   Metrics |-> GetIf("metrics", "PortMetrics"),
   AssociatedEndpoints |-> Objects("associatedEndpoints", "Endpoint"), Cables |-> Objects("cables", "Cable"),
   ConnectedPorts |-> Objects("connectedPorts", "Port"),
   ConnectedSwitchPorts |-> Objects("connectedSwitchPorts", "Port"),
   ConnectedSwitches |-> Objects("connectedSwitches", "Switch"),
   EthernetInterfaces |-> Objects("ethernetInterfaces", "EthernetInterface"),
   GenZLPRT |-> Objects("genZLPRT", "RouteEntry"), GenZMPRT |-> Objects("genZMPRT", "RouteEntry"),
   GenZVCAT |-> Objects("genZVCAT", "VCATEntry")]

PortFromUpdate ==
  [Update |-> Patch({"BackpressureSampleInterval", "CompletionCollectionInterval", "CongestionTelemetryEnabled",
                     "EgressModeratePercentage", "EgressSeverePercentage", "MaxSustainedRequestCmpBias",
                     "TemporaryThroughputReductionEnabled", "Enabled", "EEEEnabled", "FlowControlConfiguration",
                     "LLDPEnabled", "ChassisId", "ChassisIDSubtype", "ManagementAddressIPv4",
                     "ManagementAddressIPv6", "ManagementAddressMAC", "ManagementVlanId", "PortId",
                     "PortIDSubtype", "SystemCapabilities", "SystemDescription", "SystemName",
                     "WakeOnLANEnabled", "AllocationPercent", "InterfaceEnabled", "AutoSpeedNegotiationEnabled",
                     "ConfiguredLinkSpeedGbps", "ConfiguredWidth", "LinkState", "LinkTransitionIndicator",
                     "LocationIndicatorActive"}),
   ResetPort |-> Post("resetTarget"), ResetPPB |-> Post("resetPPBTarget")]

\* Zone (redfish/zone.go)
ZoneDocument ==
  [fields |-> {"DefaultRoutingEnabled", "Description", "ExternalAccessibility", "Identifiers", "Oem", "Status",
               "ZoneType", "AddressPoolsCount", "ContainedByZonesCount", "ContainsZonesCount", "EndpointsCount",
               "InvolvedSwitchesCount", "ResourceBlockCount"},
   counts |-> {"AddressPoolsCount", "ContainedByZonesCount", "ContainsZonesCount", "EndpointsCount",
               "InvolvedSwitchesCount", "ResourceBlockCount"},
   many |-> [addressPools |-> "Links.AddressPools", containedByZones |-> "Links.ContainedByZones",
             containsZones |-> "Links.ContainsZones", endpoints |-> "Links.Endpoints",
             involvedSwitches |-> "Links.InvolvedSwitches", resourceBlocks |-> "Links.ResourceBlocks"],
   target |-> [addEndpointTarget |-> "#AddEndpoint", removeEndpointTarget |-> "#RemoveEndpoint"],
   count |-> [AddressPoolsCount |-> "Links.AddressPools", ContainedByZonesCount |-> "Links.ContainedByZones",
              ContainsZonesCount |-> "Links.ContainsZones", EndpointsCount |-> "Links.Endpoints",
              InvolvedSwitchesCount |-> "Links.InvolvedSwitches", ResourceBlockCount |-> "Links.ResourceBlocks"],
   keeps |-> TRUE]

ZoneFromAddEndpoint ==
  [AddEndpoint |-> Post("addEndpointTarget"), RemoveEndpoint |-> Post("removeEndpointTarget"),
   AddressPools |-> Objects("addressPools", "AddressPool"),
   ContainedByZones |-> Objects("containedByZones", "Zone"), ContainsZones |-> Objects("containsZones", "Zone"),
   Endpoints |-> Objects("endpoints", "Endpoint"), InvolvedSwitches |-> Objects("involvedSwitches", "Switch"),
   ResourceBlocks |-> Objects("resourceBlocks", "ResourceBlock"),
   Update |-> Patch({"DefaultRoutingEnabled", "ExternalAccessibility", "ZoneType"})]

\* Endpoint (redfish/endpoint.go)
Endpoint ==
  Resource(
    [fields |-> {"ConnectedEntities", "Description", "EndpointProtocol", "HostReservationMemoryBytes",
                 "IPTransportDetails", "Identifiers", "PciId", "Redundancy", "RedundancyCount", "Status",
                 "MutuallyExclusiveEndpointsCount", "NetworkDeviceFunctionCount", "PortsCount",
                 "AddressPoolsCount", "ConnectedPortsCount"},
     counts |-> {"RedundancyCount", "MutuallyExclusiveEndpointsCount", "NetworkDeviceFunctionCount", "PortsCount",
                 "AddressPoolsCount", "ConnectedPortsCount"},
     many |-> [addressPools |-> "Links.AddressPools", connectedPorts |-> "Links.ConnectedPorts",
               mutuallyExclusiveEndpoints |-> "Links.MutuallyExclusiveEndpoints",
               networkDeviceFunction |-> "Links.NetworkDeviceFunction", ports |-> "Links.Ports"],
     count |-> [AddressPoolsCount |-> "Links.AddressPools", ConnectedPortsCount |-> "Links.ConnectedPorts",
                MutuallyExclusiveEndpointsCount |-> "Links.MutuallyExclusiveEndpoints",
                NetworkDeviceFunctionCount |-> "Links.NetworkDeviceFunction", PortsCount |-> "Links.Ports",
                RedundancyCount |-> "Redundancy"]],
    <<>>)

\* EndpointGroup of Swordfish (swordfish/endpointgroup.go)
SwordfishEndpointGroup ==
  Resource(
    [fields |-> {"AccessState", "Description", "EndpointsCount", "GroupType", "Identifier", "Preferred",
                 "TargetEndpointGroupIdentifier"},
     counts |-> {"EndpointsCount"}, one |-> [endpoints |-> "Endpoints"],
     count |-> [EndpointsCount |-> "Endpoints"], keeps |-> TRUE],
    [Update |-> Patch({"AccessState", "Endpoints", "GroupType", "Preferred", "TargetEndpointGroupIdentifier"}),
     Endpoints |-> Members("endpoints", "Endpoint")])

\* EndpointGroup (redfish/endpointgroup.go)
EndpointGroup ==
  Resource(
    [fields |-> {"Description", "GroupType", "Identifier", "TargetEndpointGroupIdentifier", "EndpointsCount",
                 "ConnectionsCount"},
     counts |-> {"EndpointsCount", "ConnectionsCount"},
     many |-> [connections |-> "Links.Connections", endpoints |-> "Links.Endpoints"],
     count |-> [ConnectionsCount |-> "Links.Connections", EndpointsCount |-> "Endpoints"], keeps |-> TRUE],
    [Update |-> Patch({"GroupType", "TargetEndpointGroupIdentifier"}),
     Endpoints |-> Objects("endpoints", "Endpoint"), Connections |-> Objects("connections", "Connection")])

\* PCIeDevice (redfish/pciedevice.go)
PCIeDeviceDocument ==
  [fields |-> {"AssetTag", "CXLDevice", "Description", "DeviceType", "EnvironmentMetrics", "FirmwareVersion",
               "LocationIndicatorActive", "Manufacturer", "Model", "Oem", "PCIeInterface", "PartNumber",
               "ReadyToRemove", "SKU", "SerialNumber", "Slot", "SparePartNumber", "StagedVersion", "Status",
               "UUID", "ChassisCount", "PCIeFunctionsCount", "ProcessorsCount"},
   counts |-> {"ChassisCount", "PCIeFunctionsCount", "ProcessorsCount"},
   one |-> [assembly |-> "Assembly", cxlLogicalDevices |-> "CXLLogicalDevices",
            pcieFunctions |-> "PCIeFunctions", sw |-> "Links.Switch"],
   many |-> [chassis |-> "Links.Chassis", processors |-> "Links.Processors",
             pcieFunctionsArray |-> "Links.PCIeFunctions"],
   count |-> [ChassisCount |-> "Links.Chassis", ProcessorsCount |-> "Links.Processors",
              PCIeFunctionsCount |-> "Links.PCIeFunctions"],
   keeps |-> TRUE]

PCIeDeviceFromUpdate ==
  [Update |-> Patch({"AssetTag", "LocationIndicatorActive", "ReadyToRemove"})]

PCIeDeviceFromAssembly ==
  [Assembly |-> GetIf("assembly", "Assembly"),
   CXLLogicalDevices |-> Members("cxlLogicalDevices", "CXLLogicalDevice"),
   Chassis |-> Objects("chassis", "Chassis"),
   PCIeFunctions |-> Either("pcieFunctionsArray", "pcieFunctions", "PCIeFunction"),
   Switch |-> GetIf("sw", "Switch"), Processors |-> Objects("processors", "Processor")]

\* PCIeFunction (redfish/pciefunction.go)
PCIeFunctionDocument ==
  [fields |-> {"ClassCode", "Description", "DeviceClass", "DeviceID", "FunctionID", "FunctionProtocol",
               "FunctionType", "Oem", "RevisionID", "Status", "SubsystemId", "SubsystemVendorId", "VendorId",
               "DrivesCount", "EthernetInterfacesCount", "MemoryDomainsCount", "NetworkDeviceFunctionsCount",
               "StorageControllersCount"},
   counts |-> {"DrivesCount", "EthernetInterfacesCount", "MemoryDomainsCount", "NetworkDeviceFunctionsCount",
               "StorageControllersCount"},
   one |-> [cxlLogicalDevice |-> "Links.CXLLogicalDevice", pcieDevice |-> "Links.PCIeDevice",
            processor |-> "Links.Processor"],
   many |-> [drives |-> "Links.Drives", ethernetInterfaces |-> "Links.EthernetInterfaces",
             memoryDomains |-> "Links.MemoryDomains", networkDeviceFunctions |-> "Links.NetworkDeviceFunctions",
             storageControllers |-> "Links.StorageControllers"],
   count |-> [DrivesCount |-> "Links.Drives", EthernetInterfacesCount |-> "Links.EthernetInterfaces",
              MemoryDomainsCount |-> "Links.MemoryDomains",
              NetworkDeviceFunctionsCount |-> "Links.NetworkDeviceFunctions",
              StorageControllersCount |-> "Links.StorageControllers"]]

PCIeFunctionFromCXLLogicalDevice ==
  [CXLLogicalDevice |-> GetIf("cxlLogicalDevice", "CXLLogicalDevice"), Drives |-> Objects("drives", "Drive"),
   EthernetInterfaces |-> Objects("ethernetInterfaces", "EthernetInterface"),
   MemoryDomains |-> Objects("memoryDomains", "MemoryDomain"),
   NetworkDeviceFunctions |-> Objects("networkDeviceFunctions", "NetworkDeviceFunction"),
   PCIeDevice |-> GetIf("pcieDevice", "PCIeDevice"), Processor |-> GetIf("processor", "Processor"),
   StorageControllers |-> Objects("storageControllers", "StorageController")]

\* NetworkAdapter (redfish/networkadapter.go)
NetworkAdapterDocument ==
  [fields |-> {"Controllers", "Description", "Identifiers", "LLDPEnabled", "Location", "Manufacturer", "Metrics",
               "Model", "Oem", "PartNumber", "SKU", "SerialNumber", "Status"},
   one |-> [assembly |-> "Assembly", certificates |-> "Certificates",
            environmentMetrics |-> "EnvironmentMetrics", networkDeviceFunctions |-> "NetworkDeviceFunctions",
            networkPorts |-> "NetworkPorts", ports |-> "Ports", processors |-> "Processors"],
   target |-> [resetSettingsToDefaultTarget |-> "#ResetSettingsToDefault"]]

NetworkAdapterFromUpdate ==
  [Update |-> Patch({"LLDPEnabled"}), Assembly |-> GetIf("assembly", "Assembly"),
   Certificates |-> Members("certificates", "Certificate"),
   EnvironmentMetrics |-> GetIf("environmentMetrics", "EnvironmentMetrics"),
   NetworkDeviceFunctions |-> Members("networkDeviceFunctions", "NetworkDeviceFunction"),
   NetworkPorts |-> Members("networkPorts", "NetworkPort"), Ports |-> Members("ports", "Port"),
   Processors |-> Members("processors", "Processor"),
   ResetSettingsToDefault |-> Post("resetSettingsToDefaultTarget")]

\* Controllers (redfish/networkadapter.go)
ControllersDocument ==
  [fields |-> {"ControllerCapabilities", "FirmwarePackageVersion", "Identifiers", "Location", "PCIeInterface",
               "NetworkDeviceFunctionsCount", "NetworkPortsCount", "PCIeDevicesCount", "PortsCount",
               "SoftwareImagesCount"},
   counts |-> {"NetworkDeviceFunctionsCount", "NetworkPortsCount", "PCIeDevicesCount", "PortsCount",
               "SoftwareImagesCount"},
   one |-> [activeSoftwareImage |-> "Links.ActiveSoftwareImage"],
   many |-> [networkDeviceFunctions |-> "Links.NetworkDeviceFunctions", networkPorts |-> "Links.NetworkPorts",
             pcieDevices |-> "Links.PCIeDevices", ports |-> "Links.Ports",
             softwareImages |-> "Links.SoftwareImages"],
   count |-> [NetworkDeviceFunctionsCount |-> "Links.NetworkDeviceFunctions",
              NetworkPortsCount |-> "Links.EthernetInterfaces", PCIeDevicesCount |-> "Links.PCIeDevices",
              PortsCount |-> "Links.Ports", SoftwareImagesCount |-> "Links.SoftwareImages"]]

ControllersFromActiveSoftwareImage ==
  [ActiveSoftwareImage |-> GetIf("activeSoftwareImage", "SoftwareInventory"),
   NetworkDeviceFunctions |-> Objects("networkDeviceFunctions", "NetworkDeviceFunction"),
   NetworkPorts |-> Objects("networkPorts", "NetworkPort"), PCIeDevices |-> Objects("pcieDevices", "PCIeDevice"),
   Ports |-> Objects("ports", "Port"), SoftwareImages |-> Objects("softwareImages", "SoftwareInventory")]

\* NetworkDeviceFunction (redfish/networkdevicefunction.go)
NetworkDeviceFunctionFields ==
  [fields |-> {"AssignablePhysicalNetworkPortsCount", "AssignablePhysicalPortsCount", "BootMode", "Description",
               "DeviceEnabled", "Ethernet", "FibreChannel", "HTTPBoot", "InfiniBand", "Limits",
               "MaxVirtualFunctions", "NetDevFuncCapabilities", "NetDevFuncType", "Oem", "SAVIEnabled", "Status",
               "VirtualFunctionsEnabled", "ISCSIBoot", "EndpointsCount", "EthernetInterfacesCount",
               "OffloadProcessorsCount"},
   counts |-> {"AssignablePhysicalNetworkPortsCount", "AssignablePhysicalPortsCount", "EndpointsCount",
               "EthernetInterfacesCount", "OffloadProcessorsCount"}]

NetworkDeviceFunctionDecode ==
  [one |-> [metrics |-> "Metrics", offloadSystem |-> "Links.OffloadSystem",
            pcieFunction |-> "Links.PCIeFunction", physicalPortAssignment |-> "Links.PhysicalPortAssignment",
            physicalNetworkPortAssignment |-> "Links.PhysicalNetworkPortAssignment"],
   many |-> [assignablePhysicalNetworkPorts |-> "AssignablePhysicalNetworkPorts",
             assignablePhysicalPorts |-> "AssignablePhysicalPorts", endpoints |-> "Links.Endpoints",
             ethernetInterfaces |-> "Links.EthernetInterfaces", offloadProcessors |-> "Links.OffloadProcessors"],
   inline |-> [allowDeny |-> "AllowDeny"],
   count |-> [EndpointsCount |-> "Links.Endpoints", EthernetInterfacesCount |-> "Links.EthernetInterfaces",
              OffloadProcessorsCount |-> "Links.OffloadProcessors",
              AssignablePhysicalNetworkPortsCount |-> "AssignablePhysicalNetworkPorts",
              AssignablePhysicalPortsCount |-> "AssignablePhysicalPorts"],
   keeps |-> TRUE]

NetworkDeviceFunctionFromEndpoints ==
  [Endpoints |-> Objects("endpoints", "Endpoint"),
   EthernetInterfaces |-> Objects("ethernetInterfaces", "EthernetInterface"),
   OffloadProcessors |-> Objects("offloadProcessors", "Processor"),
   OffloadSystem |-> GetIf("offloadSystem", "ComputerSystem"),
   PCIeFunction |-> GetIf("pcieFunction", "PCIeFunction"),
   PhysicalNetworkPortAssignment |-> GetIf("physicalNetworkPortAssignment", "Port"),
   PhysicalPortAssignment |-> GetIf("physicalPortAssignment", "NetworkPort"),
   Update |-> Patch({"BootMode", "DeviceEnabled", "NetDevFuncType", "SAVIEnabled"})]

\* NetworkInterface (redfish/networkinterface.go)
NetworkInterface ==
  Resource(
    [fields |-> {"Description", "Oem", "Status"}, one |-> [networkAdapter |-> "Links.NetworkAdapter"],
     inline |-> [networkDeviceFunctions |-> "NetworkDeviceFunctions", networkPorts |-> "NetworkPorts",
                 ports |-> "Ports"]],
    [NetworkAdapter |-> GetIf("networkAdapter", "NetworkAdapter"),
     NetworkDeviceFunctions |-> Objects("networkDeviceFunctions", "NetworkDeviceFunction"),
     NetworkPorts |-> Objects("networkPorts", "NetworkPort"), Ports |-> Objects("ports", "Port")])

\* NetworkPort (redfish/networkport.go)
NetworkPort ==
  Resource(
    [fields |-> {"ActiveLinkTechnology", "AssociatedNetworkAddresses", "CurrentLinkSpeedMbps", "Description",
                 "EEEEnabled", "FCFabricName", "FCPortConnectionType", "FlowControlConfiguration",
                 "FlowControlStatus", "LinkStatus", "MaxFrameSize", "NetDevFuncMaxBWAlloc", "NetDevFuncMinBWAlloc",
                 "NumberDiscoveredRemotePorts", "PhysicalPortNumber", "PortMaximumMTU", "SignalDetected", "Status",
                 "SupportedEthernetCapabilities", "SupportedLinkCapabilities", "VendorId", "WakeOnLANEnabled"},
     keeps |-> TRUE],
    [Update |-> Patch({"ActiveLinkTechnology", "CurrentLinkSpeedMbps", "EEEEnabled", "FlowControlConfiguration",
                       "WakeOnLANEnabled"})])

\* FabricAdapter (redfish/fabricadapter.go)
FabricAdapterDocument ==
  [fields |-> {"ASICManufacturer", "ASICPartNumber", "ASICRevisionIdentifier", "Description", "FabricType",
               "FabricTypeCapabilities", "FirmwareVersion", "GenZ", "Location", "LocationIndicatorActive",
               "Manufacturer", "Model", "Oem", "PCIeInterface", "PartNumber", "SKU", "SerialNumber",
               "SparePartNumber", "Status", "UUID", "EndpointsCount", "MemoryDomainsCount", "PCIeDevicesCount",
               "ProcessorsCount"},
   counts |-> {"EndpointsCount", "MemoryDomainsCount", "PCIeDevicesCount", "ProcessorsCount"},
   one |-> [ports |-> "Ports"],
   many |-> [endpoints |-> "Links.Endpoints", memoryDomains |-> "Links.MemoryDomains",
             pcieDevices |-> "Links.PCIeDevices", processors |-> "Links.Processors"],
   count |-> [EndpointsCount |-> "Links.Endpoints", MemoryDomainsCount |-> "Links.MemoryDomains",
              PCIeDevicesCount |-> "Links.PCIeDevices", ProcessorsCount |-> "Links.Processors"],
   keeps |-> TRUE]

FabricAdapterFromPorts ==
  [Ports |-> Members("ports", "Port"), Endpoints |-> Objects("endpoints", "Endpoint"),
   MemoryDomains |-> Objects("memoryDomains", "MemoryDomain"),
   PCIeDevices |-> Objects("pcieDevices", "PCIeDevice"), Processors |-> Objects("processors", "Processor"),
   Update |-> Patch({"FabricType", "LocationIndicatorActive"})]

\* MediaController (redfish/mediacontroller.go)
MediaController ==
  Resource(
    [fields |-> {"Description", "Manufacturer", "MediaControllerType", "Model", "Oem", "PartNumber",
                 "SerialNumber", "Status", "UUID", "EndpointsCount", "MemoryDomainsCount"},
     counts |-> {"EndpointsCount", "MemoryDomainsCount"},
     one |-> [environmentMetrics |-> "EnvironmentMetrics", ports |-> "Ports"],
     many |-> [endpoints |-> "Links.Endpoints", memoryDomains |-> "Links.MemoryDomains"],
     target |-> [resetTarget |-> "#Reset"],
     count |-> [EndpointsCount |-> "Links.Endpoints", MemoryDomainsCount |-> "Links.MemoryDomains"]],
    [Reset |-> Post("resetTarget"), EnvironmentMetrics |-> GetIf("environmentMetrics", "EnvironmentMetrics"),
     Ports |-> Members("ports", "Port"), Endpoints |-> Objects("endpoints", "Endpoint"),
     MemoryDomains |-> Objects("memoryDomains", "MemoryDomain")])

\* Connection (redfish/connection.go)
ConnectionDocument ==
  [fields |-> {"ConnectionKeys", "ConnectionType", "Description", "MemoryChunkInfo", "MemoryRegionInfo",
               "Status", "VolumeInfo", "InitiatorEndpointGroupsCount", "InitiatorEndpointsCount",
               "TargetEndpointGroupsCount", "TargetEndpointsCount"},
   counts |-> {"InitiatorEndpointGroupsCount", "InitiatorEndpointsCount", "TargetEndpointGroupsCount",
               "TargetEndpointsCount"},
   many |-> [initiatorEndpointGroups |-> "Links.InitiatorEndpointGroups",
             initiatorEndpoints |-> "Links.InitiatorEndpoints",
             targetEndpointGroups |-> "Links.TargetEndpointGroups", targetEndpoints |-> "Links.TargetEndpoints"],
   count |-> [InitiatorEndpointGroupsCount |-> "Links.InitiatorEndpointGroups",
              InitiatorEndpointsCount |-> "Links.InitiatorEndpoints",
              TargetEndpointGroupsCount |-> "Links.TargetEndpointGroups",
              TargetEndpointsCount |-> "Links.TargetEndpoints"]]

ConnectionFromInitiatorEndpointGroups ==
  [InitiatorEndpointGroups |-> Objects("initiatorEndpointGroups", "EndpointGroup"),
   InitiatorEndpoints |-> Objects("initiatorEndpoints", "Endpoint"),
   TargetEndpointGroups |-> Objects("targetEndpointGroups", "EndpointGroup"),
   TargetEndpoints |-> Objects("targetEndpoints", "Endpoint")]

\* CXLLogicalDevice (redfish/cxllogicaldevice.go)
CXLLogicalDevice ==
  Resource(
    [fields |-> {"Description", "Identifiers", "MemorySizeMiB", "QoS", "QoSTelemetryCapabilities",
                 "SemanticsSupported", "Status", "EndpointsCount", "MemoryChunksCount", "MemoryDomainsCount",
                 "PCIeFunctionsCount"},
     counts |-> {"EndpointsCount", "MemoryChunksCount", "MemoryDomainsCount", "PCIeFunctionsCount"},
     one |-> [log |-> "Log", memoryRegions |-> "MemoryRegions"],
     many |-> [endpoints |-> "Links.Endpoints", memoryChunks |-> "Links.MemoryChunks",
               memoryDomains |-> "Links.MemoryDomains", pcieFunctions |-> "Links.PCIeFunctions"],
     count |-> [EndpointsCount |-> "Links.Endpoints", MemoryChunksCount |-> "Links.MemoryChunks",
                MemoryDomainsCount |-> "Links.MemoryDomains", PCIeFunctionsCount |-> "Links.PCIeFunctions"]],
    [Log |-> GetIf("log", "LogService"), Endpoints |-> Objects("endpoints", "Endpoint"),
     MemoryChunks |-> Objects("memoryChunks", "MemoryChunks"),
     MemoryDomains |-> Objects("memoryDomains", "MemoryDomain"),
     PCIeFunctions |-> Objects("pcieFunctions", "PCIeFunction")])

\* AddressPool (redfish/addresspool.go)
AddressPool ==
  Resource(
    [fields |-> {"Description", "Ethernet", "GenZ", "Status", "EndpointsCount", "ZonesCount"},
     counts |-> {"EndpointsCount", "ZonesCount"},
     many |-> [endpoints |-> "Links.Endpoints", zones |-> "Links.Zones"],
     count |-> [EndpointsCount |-> "Links.Endpoints", ZonesCount |-> "Links.Zones"]],
    [Endpoints |-> Objects("endpoints", "Endpoint"), Zones |-> Objects("zones", "Zone")])

\* The types of this module by name.
FabricTypes ==
  [Fabric |-> Fabric,
   Switch |-> Resource(SwitchFields @@ SwitchDecode, SwitchFromCertificates),
   Port |-> Resource(PortFields @@ PortDecode, PortFromEnvironmentMetrics @@ PortFromUpdate),
   Zone |-> Resource(ZoneDocument, ZoneFromAddEndpoint),
   Endpoint |-> Endpoint,
   SwordfishEndpointGroup |-> SwordfishEndpointGroup,
   EndpointGroup |-> EndpointGroup,
   PCIeDevice |-> Resource(PCIeDeviceDocument, PCIeDeviceFromUpdate @@ PCIeDeviceFromAssembly),
   PCIeFunction |-> Resource(PCIeFunctionDocument, PCIeFunctionFromCXLLogicalDevice),
   NetworkAdapter |-> Resource(NetworkAdapterDocument, NetworkAdapterFromUpdate),
   Controllers |-> Resource(ControllersDocument, ControllersFromActiveSoftwareImage),
   NetworkDeviceFunction |-> Resource(NetworkDeviceFunctionFields @@ NetworkDeviceFunctionDecode,
                                      NetworkDeviceFunctionFromEndpoints),
   NetworkInterface |-> NetworkInterface,
   NetworkPort |-> NetworkPort,
   FabricAdapter |-> Resource(FabricAdapterDocument, FabricAdapterFromPorts),
   MediaController |-> MediaController,
   Connection |-> Resource(ConnectionDocument, ConnectionFromInitiatorEndpointGroups),
   CXLLogicalDevice |-> CXLLogicalDevice,
   AddressPool |-> AddressPool]
===================================================================================
