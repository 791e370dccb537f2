---------------------------- MODULE MC_Resources ----------------------------
(***************************************************************************)
(* Resources with the types that have tables, and what those types are     *)
(* known not to do.                                                        *)
(***************************************************************************)
EXTENDS Resources, ServiceTables, EquipmentTables, SystemTables, FabricTables, StorageTables, DetailTables,
        VendorTables

AllTypes ==
  ServiceTypes @@ EquipmentTypes @@ SystemTypes @@ FabricTypes @@ StorageTypes @@ DetailTypes @@ VendorTypes

\* Decoded into private fields that no method of the type returns, or not when they come
\* alone (PowerSupplyUnit, StorageService).  FreshTagWrites has the one of Bios.
MCUnread ==
  [AccountService |-> {"OutboundConnections"},
   AggregationSource |-> {"Links.ConnectionMethod", "Links.ResourcesAccessed",
                          "#GenerateSSHIdentityKeyPair", "#RemoveSSHIdentityKeyPair"},
   Bios |-> {"@Redfish.Settings.SettingsObject"},
   Cable |-> {"Links.DownstreamResources", "Links.UpstreamResources"},
   CapacitySource |-> {"ProvidingMemoryChunks"},
   Certificate |-> {"Links.Issuer", "Links.Subjects"},
   Chassis |-> {"FabricAdapters", "TrustedComponents"},
   Circuit |-> {"Links.PowerOutlet", "Links.Outlets"},
   ComponentIntegrity |-> {"Links.ComponentsProtected"},
   CompositionService |-> {"ResourceBlocks", "ResourceZones"},
   ContainerImage |-> {"Links.SoftwareImage"},
   Control |-> {"RelatedItem", "AssociatedSensors"},
   CoolingLoop |-> {"Links.Facility"},
   CoolingUnit |-> {"CoolantConnectorRedundancy"},
   CXLLogicalDevice |-> {"MemoryRegions"},
   Drive |-> {"Links.Storage", "Links.ActiveSoftwareImage", "Links.NetworkDeviceFunctions",
              "Links.SoftwareImages", "Links.StoragePools"},
   Endpoint |-> {"Links.Ports", "Links.ConnectedPorts", "Links.AddressPools",
                 "Links.MutuallyExclusiveEndpoints", "Links.NetworkDeviceFunction"},
   EthernetInterface |-> {"Links.RelatedInterfaces"},
   Fabric |-> {"Zones"},
   Facility |-> {"EnvironmentMetrics", "PowerDomains"},
   FileSystem |-> {"ReplicaTargets"},
   HostInterface |-> {"NetworkProtocol", "Links.FirmwareAuthRole", "Links.KernelAuthRole"},
   LogEntry |-> {"Links.OriginOfCondition"},
   MemoryDomain |-> {"MemoryChunks"},
   MemoryChunks |-> {"Links.CXLLogicalDevices", "Links.Endpoints", "Links.MemoryRegions"},
   NetworkDeviceFunction |-> {"Metrics", "AssignablePhysicalNetworkPorts", "AssignablePhysicalPorts",
                              "AllowDeny"},
   NVMeDomain |-> {"DomainMembers", "FirmwareImages"},
   PowerSupply |-> {"RelatedItem"},
   PowerSupplyUnit |-> {"Links.Outlet"},
   Redundancy |-> {"RedundancySet"},
   ResourceBlock |-> {"Storage", "Drives", "Memory", "Processors", "EthernetInterfaces", "NetworkInterfaces",
                      "SimpleStorage", "Links.ComputerSystems", "Links.Chassis",
                      "Links.ConsumingResourceBlocks", "Links.SupplyingResourceBlocks", "Links.Zones"},
   Sensor |-> {"RelatedItem", "Links.AssociatedControls"},
   SMCManager |-> {"Oem.Supermicro.IPAccessControl"},
   SpareResourceSet |-> {"Links.OnHandSpares"},
   Storage |-> {"ConsistencyGroups", "FileSystems", "StoragePools", "Links.StorageServices"},
   StorageController |-> {"Links.StorageServices", "Links.AttachedVolumes"},
   StoragePool |-> {"#SetDeduplicationState"},
   StorageService |-> {"IOPerformanceLoSCapabilities", "StoragePools", "StorageSubsystems",
                       "Links.HostingSystem"},
   SwordfishVolume |-> {"Links.JournalingMedia", "ReplicaTargets", "#CreateReplicaTarget"},
   Thermal |-> {"Redundancy"},
   ThermalFan |-> {"Assembly", "Redundancy"},
   VirtualMedia |-> {"#EjectMedia@ActionInfo"},
   Volume |-> {"Links.ClassOfService", "Links.JournalingMedia", "Links.OwningStorageService",
               "Links.StorageGroups", "Links.ConsistencyGroups", "Links.SpareResourceSets"}]

\* The drives of a chassis and the functions of a device have two places each; one is used.
MCShadowed == [Chassis |-> {"Links.Drives"}, PCIeDevice |-> {"PCIeFunctions"}]

\* The message registries by language, the tasks behind their service, the filtered entries
\* and the apply times of the volumes.
MCShared ==
  [Service |-> {"MessageRegistries", "MessageRegistriesByLanguage", "MessageRegistryByLanguage",
                "MessageByLanguage", "Tasks"},
   LogService |-> {"FilteredEntries"}, Storage |-> {"GetOperationApplyTimeValues"}]

\* coolingloop.go:228, powersupplyunit.go:303, virtualmedia.go:251, swordfish/storageservice.go:370,
\* swordfish/filesystem.go:241 and swordfish/storagepool.go:582.
MCCrossed ==
  [CoolingLoop |-> {"Facility"}, PowerSupplyUnit |-> {"Outlet"}, VirtualMedia |-> {"EjectMediaActionInfo"},
   StorageService |-> {"IOPerformanceLoSCapabilities"}, FileSystem |-> {"Metrics"},
   StoragePool |-> {"SetDeduplicationState"}]

MCUncounted ==
  [Chassis |-> {"CablesCount", "ResourceBlockCount"}, LogEntry |-> {"RelatedLogEntriesCount"},
   Cable |-> {"DownstreamChassisCount", "DownstreamPortsCount", "DownstreamResourcesCount",
              "UpstreamChassisCount", "UpstreamPortsCount", "UpstreamResourcesCount"},
   Port |-> {"ConnectedSwitchPortsCount"}, USBController |-> {"ProcessorsCount"}]

MCUnkept == {"Port", "NetworkAdapter", "LeakDetector", "DataStorageLineOfService"}
MCDrifting == {"Chassis", "ComputerSystem", "Manager", "StorageGroup"}

\* Fields such as Power.PowerSupplies, Thermal.Fans, Storage.StorageControllers, the LDAP of an
\* account service, the SupportedLinesOfService of capabilities and the metrics of a switch.
MCParts ==
  {"PowerSupply", "Redundancy", "ThermalFan", "Temperature", "StorageController", "ExternalAccountProvider",
   "EnvironmentMetrics", "NetworkDeviceFunction", "MemoryChunks", "MemoryRegion", "CapacitySource",
   "ClassOfService", "DataStorageLineOfService", "IOConnectivityLineOfService",
   "IOPerformanceLineOfService", "SwordfishVolume", "SwordfishEndpointGroup"}
=============================================================================
