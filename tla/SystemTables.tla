------------------------------- MODULE SystemTables -------------------------------
(* The types of computer systems, their parts and software, and managers, as ResourceTables writes them. *)
EXTENDS ResourceTables

\* ComputerSystem (redfish/computersystem.go)
ComputerSystemFields ==
  [fields |-> {"Description", "Oem", "Actions", "AssetTag", "Bios", "BiosVersion", "Boot", "BootImagePushURI",
               "BootProgress", "Certificates", "Composition", "EthernetInterfaces", "FabricAdapters",
               "GraphicalConsole", "GraphicsControllers", "HostedServices", "HostingRoles", "HostName",
               "HostWatchdogTimer", "IdlePowerSaver", "IndicatorLED", "KeyManagement", "LastResetCause",
               "LastResetTime", "Links", "LocationIndicatorActive", "LogServices", "Manufacturer",
               "ManufacturingMode", "MemoryDomains", "Memory", "MemorySummary", "Model",
               "MultipartImportConfigurationPushURI", "NetworkInterfaces", "OperatingSystem", "PartNumber",
               "PCIeDevicesCount", "PCIeDevices", "PCIeFunctionsCount", "PCIeFunctions",
               "PowerCycleDelaySeconds", "PowerMode", "PowerOffDelaySeconds", "PowerOnDelaySeconds",
               "PowerRestorePolicy", "PowerState", "Processors", "ProcessorSummary", "ProductionDate",
               "RedundancyCount", "Redundancy", "SecureBoot", "SerialConsole", "SerialNumber", "Settings",
               "SimpleStorage", "SKU", "Status", "Storage", "SubModel", "SystemType", "TrustedModules",
               "USBControllers", "UUID", "Virtualization", "VirtualMedia", "VirtualMediaConfig"},
   counts |-> {"PCIeDevicesCount", "PCIeFunctionsCount"},
   open |-> {"BiosLink", "CertificatesLink", "EthernetInterfacesLink", "FabricAdaptersLink",
             "GraphicsControllersLink", "LogServicesLink", "MemoryDomainsLink", "MemoryLink",
             "NetworkInterfacesLink", "OperatingSystemLink", "PCIeDevicesLink", "PCIeFunctionsLink",
             "ProcessorsLink", "RedundancyLink", "SecureBootLink", "SimpleStorageLink", "StorageLink",
             "USBControllersLink", "Virtualization", "VirtualMediaLink", "ManagedBy", "SetDefaultBootOrder",
             "BootOptionsLink", "BootCertificatesLink", "Reset"}]

ComputerSystemDecode ==
  [one |-> [BiosLink |-> "Bios", CertificatesLink |-> "Certificates",
            EthernetInterfacesLink |-> "EthernetInterfaces", FabricAdaptersLink |-> "FabricAdapters",
            GraphicsControllersLink |-> "GraphicsControllers", LogServicesLink |-> "LogServices",
            MemoryDomainsLink |-> "MemoryDomains", MemoryLink |-> "Memory",
            NetworkInterfacesLink |-> "NetworkInterfaces", OperatingSystemLink |-> "OperatingSystem",
            ProcessorsLink |-> "Processors", RedundancyLink |-> "Redundancy", SecureBootLink |-> "SecureBoot",
            SimpleStorageLink |-> "SimpleStorage", StorageLink |-> "Storage",
            USBControllersLink |-> "USBControllers", Virtualization |-> "Virtualization",
            VirtualMediaLink |-> "VirtualMedia", BootOptionsLink |-> "Boot.BootOptions",
            BootCertificatesLink |-> "Boot.Certificates"],
   many |-> [PCIeDevicesLink |-> "PCIeDevices", PCIeFunctionsLink |-> "PCIeFunctions",
             ManagedBy |-> "Links.ManagedBy"],
   target |-> [SetDefaultBootOrder |-> "#SetDefaultBootOrder", Reset |-> "#Reset"],
   info |-> [resetInfo |-> "#Reset@ActionInfo"], allowed |-> [SupportedResetTypes |-> "#Reset@AllowableValues"],
   count |-> [PCIeDevicesCount |-> "PCIeDevices", PCIeFunctionsCount |-> "PCIeFunctions"], keeps |-> TRUE]

ComputerSystemFromUpdate ==
  [Update |-> Patch({"AssetTag", "HostName", "LocationIndicatorActive", "PowerCycleDelaySeconds", "PowerMode",
                     "PowerOffDelaySeconds", "PowerOnDelaySeconds", "PowerRestorePolicy", "IndicatorLED"}),
   Bios |-> GetIf("BiosLink", "Bios"), BootOptions |-> Members("BootOptionsLink", "BootOption"),
   BootCertificates |-> Members("BootCertificatesLink", "Certificate"),
   EthernetInterfaces |-> Members("EthernetInterfacesLink", "EthernetInterface"),
   LogServices |-> Members("LogServicesLink", "LogService"), ManagedBy |-> Objects("ManagedBy", "Manager"),
   Memory |-> Members("MemoryLink", "Memory"), MemoryDomains |-> Members("MemoryDomainsLink", "MemoryDomain"),
   NetworkInterfaces |-> Members("NetworkInterfacesLink", "NetworkInterface")]

ComputerSystemFromOperatingSystem ==
  [OperatingSystem |-> Get("OperatingSystemLink", "OperatingSystem"),
   PCIeDevices |-> Objects("PCIeDevicesLink", "PCIeDevice"),
   PCIeFunctions |-> Objects("PCIeFunctionsLink", "PCIeFunction"),
   Processors |-> Members("ProcessorsLink", "Processor"), SecureBoot |-> GetIf("SecureBootLink", "SecureBoot")]

ComputerSystemFromReset ==
  [Reset |-> Reset("Reset", "SupportedResetTypes"),
   GetSupportedResetTypes |-> Learn("SupportedResetTypes", "resetInfo", "SupportedResetTypes"),
   ResetActionInfo |-> Get("resetInfo", "ActionInfo")]

ComputerSystemFromSetDefaultBootOrder ==
  [SetDefaultBootOrder |-> Post("SetDefaultBootOrder"),
   SimpleStorages |-> Members("SimpleStorageLink", "SimpleStorage"),
   Storage |-> Members("StorageLink", "Storage"), VirtualMedia |-> Members("VirtualMediaLink", "VirtualMedia"),
   USBControllers |-> Members("USBControllersLink", "USBController")]

\* Bios (redfish/bios.go)
BiosDocument ==
  [fields |-> {"AttributeRegistry", "Attributes", "Description"},
   one |-> [activeSoftwareImage |-> "Links.ActiveSoftwareImage",
            settingsTarget |-> "@Redfish.Settings.SettingsObject"],
   target |-> [changePasswordTarget |-> "#ChangePassword", resetBiosTarget |-> "#ResetBios"], keeps |-> TRUE]

BiosFromChangePassword ==
  [ChangePassword |-> Post("changePasswordTarget"), ResetBios |-> Post("resetBiosTarget")]

BiosFromGetActiveSoftwareImage ==
  [GetActiveSoftwareImage |-> GetIf("activeSoftwareImage", "SoftwareInventory")]

\* Processor (redfish/processor.go)
ProcessorFields ==
  [fields |-> {"AdditionalFirmwareVersions", "BaseSpeedMHz", "BaseSpeedPriorityState", "Description", "Enabled",
               "FPGA", "Family", "FirmwareVersion", "HighSpeedCoreIDs", "InstructionSet", "Location",
               "LocationIndicatorActive", "Manufacturer", "MaxSpeedMHz", "MaxTDPWatts", "MemorySummary",
               "MinSpeedMHz", "Model", "Oem", "OperatingSpeedMHz", "OperatingSpeedRangeMHz", "PartNumber",
               "PowerState", "ProcessorArchitecture", "ProcessorId", "ProcessorIndex", "ProcessorMemory",
               "ProcessorType", "Replaceable", "SerialNumber", "Socket", "SparePartNumber", "SpeedLimitMHz",
               "SpeedLocked", "Status", "SystemInterface", "TDPWatts", "ThrottleCauses", "Throttled",
               "TotalCores", "TotalEnabledCores", "TotalThreads", "TurboState", "UUID", "Version",
               "ConnectedProcessorsCount", "EndpointsCount", "FabricAdaptersCount", "MemoryCount",
               "NetworkDeviceFunctionsCount", "PCIeFunctionsCount"},
   counts |-> {"ConnectedProcessorsCount", "EndpointsCount", "FabricAdaptersCount", "MemoryCount",
               "NetworkDeviceFunctionsCount", "PCIeFunctionsCount"}]

ProcessorDecode ==
  [one |-> [appliedOperatingConfig |-> "AppliedOperatingConfig", assembly |-> "Assembly",
            cacheMemory |-> "CacheMemory", environmentMetrics |-> "EnvironmentMetrics", metrics |-> "Metrics",
            ports |-> "Ports", chassis |-> "Links.Chassis", graphicsController |-> "Links.GraphicsController",
            pcieDevice |-> "Links.PCIeDevice"],
   many |-> [connectedProcessors |-> "Links.ConnectedProcessors", endpoints |-> "Links.Endpoints",
             fabricAdapters |-> "Links.FabricAdapters", memory |-> "Links.Memory",
             networkDeviceFunctions |-> "Links.NetworkDeviceFunctions", pcieFunctions |-> "Links.PCIeFunctions"],
   inline |-> [accelerationFunctions |-> "AccelerationFunctions", certificates |-> "Certificates",
               operatingConfigs |-> "OperatingConfigs", subProcessors |-> "SubProcessors"],
   target |-> [resetTarget |-> "#Reset", resetToDefaultsTarget |-> "#ResetToDefaults"],
   count |-> [ConnectedProcessorsCount |-> "Links.ConnectedProcessors", EndpointsCount |-> "Links.Endpoints",
              FabricAdaptersCount |-> "Links.FabricAdapters", MemoryCount |-> "Links.Memory",
              NetworkDeviceFunctionsCount |-> "Links.NetworkDeviceFunctions",
              PCIeFunctionsCount |-> "Links.PCIeFunctions"],
   keeps |-> TRUE]

ProcessorFromUpdate ==
  [Update |-> Patch({"AppliedOperatingConfig", "Enabled", "LocationIndicatorActive", "OperatingSpeedRangeMHz",
                     "SpeedLimitMHz", "SpeedLocked"}),
   Reset |-> Post("resetTarget"), ResetToDefaults |-> Post("resetToDefaultsTarget"),
   AcclerationFunctions |-> Objects("accelerationFunctions", "AccelerationFunction"),
   AppliedOperatingConfig |-> GetIf("appliedOperatingConfig", "OperatingConfig"),
   Assembly |-> GetIf("assembly", "Assembly"), CacheMemory |-> Members("cacheMemory", "Memory"),
   Certificates |-> Objects("certificates", "Certificate"),
   EnvironmentMetrics |-> GetIf("environmentMetrics", "EnvironmentMetrics"),
   Metrics |-> GetIf("metrics", "ProcessorMetrics"),
   OperatingConfigs |-> Objects("operatingConfigs", "OperatingConfig"), Ports |-> Members("ports", "Port")]

ProcessorFromSubProcessors ==
  [SubProcessors |-> Objects("subProcessors", "Processor"), Chassis |-> GetIf("chassis", "Chassis"),
   ConnectedProcessors |-> Objects("connectedProcessors", "Processor"),
   Endpoints |-> Objects("endpoints", "Endpoint"), FabricAdapters |-> Objects("fabricAdapters", "FabricAdapter"),
   GraphicsController |-> GetIf("graphicsController", "GraphicsController"),
   Memory |-> Objects("memory", "Memory"),
   NetworkDeviceFunctions |-> Objects("networkDeviceFunctions", "NetworkDeviceFunction"),
   PCIeDevice |-> GetIf("pcieDevice", "PCIeDevice"), PCIeFunctions |-> Objects("pcieFunctions", "PCIeFunction")]

\* Memory (redfish/memory.go)
MemoryFields ==
  [fields |-> {"AllocationAlignmentMiB", "AllocationIncrementMiB", "AllowedSpeedsMHz", "BaseModuleType",
               "BusWidthBits", "CXL", "CacheSizeMiB", "CapacityMiB", "ConfigurationLocked", "DataWidthBits",
               "Description", "DeviceLocator", "Enabled", "ErrorCorrection", "FirmwareApiVersion",
               "FirmwareRevision", "HealthData", "IsRankSpareEnabled", "IsSpareDeviceEnabled", "Location",
               "LocationIndicatorActive", "LogicalSizeMiB", "Manufacturer", "MaxTDPMilliWatts",
               "MemoryDeviceType", "MemoryLocation", "MemoryMedia", "MemorySubsystemControllerManufacturerID",
               "MemorySubsystemControllerProductID", "MemoryType", "Model", "ModuleManufacturerID",
               "ModuleProductID", "NonVolatileSizeLimitMiB", "NonVolatileSizeMiB", "OperatingMemoryModes",
               "OperatingSpeedMhz", "PartNumber", "PersistentRegionNumberLimit", "PersistentRegionSizeLimitMiB",
               "PersistentRegionSizeMaxMiB", "PoisonListMaxMediaErrorRecords", "PowerManagementPolicy",
               "RankCount", "Regions", "SecurityCapabilities", "SecurityState", "SecurityStates", "SerialNumber",
               "SpareDeviceCount", "SparePartNumber", "Status", "VolatileRegionNumberLimit",
               "VolatileRegionSizeLimitMiB", "VolatileRegionSizeMaxMiB", "VolatileSizeLimitMiB",
               "VolatileSizeMiB", "BatteriesCount", "EndpointsCount", "MemoryMediaSourcesCount",
               "MemoryRegionMediaSourcesCount", "ProcessorsCount"},
   counts |-> {"BatteriesCount", "EndpointsCount", "MemoryMediaSourcesCount", "MemoryRegionMediaSourcesCount",
               "ProcessorsCount"}]

MemoryDecode ==
  [one |-> [assembly |-> "Assembly", environmentMetrics |-> "EnvironmentMetrics", log |-> "Log",
            chassis |-> "Links.Chassis", metrics |-> "Metrics"],
   many |-> [batteries |-> "Links.Batteries", endpoints |-> "Links.Endpoints",
             memoryMediaSources |-> "Links.MemoryMediaSources",
             memoryRegionMediaSources |-> "Links.MemoryRegionMediaSources", processors |-> "Links.Processors"],
   inline |-> [certificates |-> "Certificates"],
   target |-> [disableMasterPassphraseTarget |-> "#DisableMasterPassphrase",
               disablePassphraseTarget |-> "#DisablePassphrase",
               freezeSecurityStateTarget |-> "#FreezeSecurityState",
               injectPersistentPoisonTarget |-> "#InjectPersistentPoison",
               overwriteUnitTarget |-> "#OverwriteUnit", resetTarget |-> "#Reset",
               resetToDefaultsTarget |-> "#ResetToDefaults", scanMediaTarget |-> "#ScanMedia",
               secureEraseUnitTarget |-> "#SecureEraseUnit",
               setMasterPassphraseTarget |-> "#SetMasterPassphrase", setPassphraseTarget |-> "#SetPassphrase",
               unlockUnitTarget |-> "#UnlockUnit"],
   count |-> [BatteriesCount |-> "Links.Batteries", EndpointsCount |-> "Links.Endpoints",
              MemoryMediaSourcesCount |-> "Links.MemoryMediaSources",
              MemoryRegionMediaSourcesCount |-> "Links.MemoryRegionMediaSources",
              ProcessorsCount |-> "Links.Processors"],
   keeps |-> TRUE]

MemoryFromUpdate ==
  [Update |-> Patch({"Enabled", "LocationIndicatorActive", "NonVolatileSizeLimitMiB", "OperatingSpeedRangeMHz",
                     "PoisonListMaxMediaErrorRecords", "SecurityState", "VolatileSizeLimitMiB"}),
   Assembly |-> GetIf("assembly", "Assembly"), Certificates |-> Objects("certificates", "Certificate"),
   EnvironmentMetrics |-> GetIf("environmentMetrics", "EnvironmentMetrics"), Log |-> GetIf("log", "LogService"),
   Metrics |-> GetIf("metrics", "MemoryMetrics"), Batteries |-> Objects("batteries", "Battery"),
   Chassis |-> GetIf("chassis", "Chassis"), Endpoints |-> Objects("endpoints", "Endpoint")]

MemoryFromMemoryMediaSources ==
  [MemoryMediaSources |-> Objects("memoryMediaSources", "MemoryChunks"),
   MemoryRegionMediaSources |-> Objects("memoryRegionMediaSources", "MemoryRegion"),
   Processors |-> Objects("processors", "Processor"),
   DisableMasterPassphrase |-> Post("disableMasterPassphraseTarget"),
   DisablePassphrase |-> Post("disablePassphraseTarget"),
   FreezeSecurityState |-> Post("freezeSecurityStateTarget"),
   InjectPersistentPoison |-> Post("injectPersistentPoisonTarget"),
   OverwriteUnit |-> Post("overwriteUnitTarget"), Reset |-> Post("resetTarget"),
   ResetToDefaults |-> Post("resetToDefaultsTarget")]

MemoryFromScanMedia ==
  [ScanMedia |-> Post("scanMediaTarget"), SecureEraseUnit |-> Post("secureEraseUnitTarget"),
   SetMasterPassphrase |-> Post("setMasterPassphraseTarget"), SetPassphrase |-> Post("setPassphraseTarget"),
   UnlockUnit |-> Post("unlockUnitTarget")]

\* MemoryDomain (redfish/memorydomain.go)
MemoryDomain ==
  Resource(
    [fields |-> {"AllowsBlockProvisioning", "AllowsMemoryChunkCreation", "AllowsMirroring", "AllowsSparing",
                 "Description", "InterleavableMemorySets", "MemoryChunkIncrementMiB", "MemorySizeMiB",
                 "MinMemoryChunkSizeMiB", "Status", "CXLLogicalDevicesCount", "FabricAdaptersCount",
                 "MediaControllersCount", "PCIeFunctionsCount"},
     counts |-> {"CXLLogicalDevicesCount", "FabricAdaptersCount", "MediaControllersCount", "PCIeFunctionsCount"},
     one |-> [memoryChunks |-> "MemoryChunks"],
     many |-> [cxlLogicalDevices |-> "Links.CXLLogicalDevices", fabricAdapters |-> "Links.FabricAdapters",
               mediaControllers |-> "Links.MediaControllers", pcieFunctions |-> "Links.PCIeFunctions"],
     count |-> [CXLLogicalDevicesCount |-> "Links.CXLLogicalDevices",
                FabricAdaptersCount |-> "Links.FabricAdapters", MediaControllersCount |-> "Links.MediaControllers",
                PCIeFunctionsCount |-> "Links.PCIeFunctions"]],
    [CXLLogicalDevices |-> Objects("cxlLogicalDevices", "CXLLogicalDevice"),
     FabricAdapters |-> Objects("fabricAdapters", "FabricAdapter"),
     MediaControllers |-> Objects("mediaControllers", "MediaController"),
     PCIeFunctions |-> Objects("pcieFunctions", "PCIeFunction")])

\* VirtualMedia (redfish/virtualmedia.go)
VirtualMediaDocument ==
  [fields |-> {"ConnectedVia", "Description", "EjectPolicy", "EjectTimeout", "Image", "ImageName", "Inserted",
               "MediaType", "MediaTypes", "Password", "TransferMethod", "TransferProtocolType", "UserName",
               "VerifyCertificate", "WriteProtected", "Status", "Oem", "SupportsMediaEject",
               "SupportsMediaInsert"},
   inline |-> [certificates |-> "Certificates", clientCertificates |-> "ClientCertificates"],
   target |-> [ejectMedia |-> "#EjectMedia", insertMedia |-> "#InsertMedia"],
   info |-> [insertInfo |-> "#InsertMedia@ActionInfo", ejectInfo |-> "#EjectMedia@ActionInfo"], keeps |-> TRUE]

VirtualMediaFromCertificates ==
  [Certificates |-> Objects("certificates", "Certificate"),
   ClientCertificates |-> Objects("clientCertificates", "Certificate"),
   Update |-> Patch({"EjectPolicy", "EjectTimeout", "Image", "Inserted", "MediaType", "Password",
                     "TransferMethod", "TransferProtocolType", "UserName", "VerifyCertificate",
                     "WriteProtected"}),
   EjectMediaActionInfo |-> Get("insertInfo", "ActionInfo"), EjectMedia |-> Post("ejectMedia")]

VirtualMediaFromInsertMediaActionInfo ==
  [InsertMediaActionInfo |-> Get("insertInfo", "ActionInfo")]

VirtualMediaFromInsertMediaConfig ==
  [InsertMediaConfig |-> Post("insertMedia")]

\* EthernetInterface (redfish/ethernetinterface.go)
EthernetInterfaceFields ==
  [fields |-> {"AutoNeg", "DHCPv4", "DHCPv6", "Description", "EthernetInterfaceType", "FQDN", "FullDuplex",
               "HostName", "IPv4Addresses", "IPv4StaticAddresses", "IPv6AddressPolicyTable", "IPv6Addresses",
               "IPv6DefaultGateway", "IPv6Enabled", "IPv6StaticAddresses", "IPv6StaticDefaultGateways",
               "InterfaceEnabled", "LinkStatus", "MACAddress", "MTUSize", "MaxIPv6StaticAddresses",
               "NameServers", "Oem", "PermanentMACAddress", "RoutingScope", "SpeedMbps",
               "StatelessAddressAutoConfig", "StaticNameServers", "Status", "TeamMode", "UefiDevicePath", "VLAN",
               "AffiliatedInterfacesCount", "EndpointsCount", "NetworkDeviceFunctionsCount", "PortsCount",
               "RelatedInterfacesCount"},
   counts |-> {"AffiliatedInterfacesCount", "EndpointsCount", "NetworkDeviceFunctionsCount", "PortsCount",
               "RelatedInterfacesCount"}]

EthernetInterfaceDecode ==
  [one |-> [chassis |-> "Links.Chassis", hostInterface |-> "Links.HostInterface", vlans |-> "VLANs"],
   many |-> [affiliatedInterfaces |-> "Links.AffiliatedInterfaces", endpoints |-> "Links.Endpoints",
             networkDeviceFunctions |-> "Links.NetworkDeviceFunctions", ports |-> "Links.Ports",
             relatedInterfaces |-> "Links.RelatedInterfaces"],
   count |-> [AffiliatedInterfacesCount |-> "Links.AffiliatedInterfaces", EndpointsCount |-> "Links.Endpoints",
              NetworkDeviceFunctionsCount |-> "Links.NetworkDeviceFunctions", PortsCount |-> "Links.Ports",
              RelatedInterfacesCount |-> "Links.RelatedInterfaces"],
   keeps |-> TRUE]

EthernetInterfaceFromUpdate ==
  [Update |-> Patch({"AutoNeg", "DHCPv4", "DHCPv6", "FQDN", "FullDuplex", "HostName", "IPv4StaticAddresses",
                     "IPv6AddressPolicyTable", "IPv6Enabled", "IPv6StaticAddresses", "IPv6StaticDefaultGateways",
                     "InterfaceEnabled", "MACAddress", "MTUSize", "SpeedMbps", "StatelessAddressAutoConfig",
                     "StaticNameServers", "TeamMode", "VLAN"})]

EthernetInterfaceFromVLANs ==
  [VLANs |-> Members("vlans", "VLanNetworkInterface"),
   AffiliatedInterfaces |-> Objects("affiliatedInterfaces", "EthernetInterface"),
   Chassis |-> GetIf("chassis", "Chassis"), Endpoints |-> Objects("endpoints", "Endpoint"),
   HostInterface |-> GetIf("hostInterface", "HostInterface"),
   NetworkDeviceFunctions |-> Objects("networkDeviceFunctions", "NetworkDeviceFunction"),
   Ports |-> Objects("ports", "Port")]

\* HostInterface (redfish/hostinterface.go)
HostInterfaceDocument ==
  [fields |-> {"AuthNoneRoleId", "AuthenticationModes", "CredentialBootstrapping", "Description",
               "ExternallyAccessible", "FirmwareAuthEnabled", "FirmwareAuthRoleId", "HostInterfaceType",
               "InterfaceEnabled", "KernelAuthEnabled", "KernelAuthRoleId", "Status", "ComputerSystemsCount"},
   counts |-> {"ComputerSystemsCount"},
   one |-> [authNoneRole |-> "Links.AuthNoneRole",
            credentialBootstrappingRole |-> "Links.CredentialBootstrappingRole",
            firmwareAuthRole |-> "Links.FirmwareAuthRole", kernelAuthRole |-> "Links.KernelAuthRole",
            hostEthernetInterfaces |-> "HostEthernetInterfaces",
            managerEthernetInterface |-> "ManagerEthernetInterface", networkProtocol |-> "NetworkProtocol"],
   many |-> [computerSystems |-> "Links.ComputerSystems"],
   count |-> [ComputerSystemsCount |-> "Links.ComputerSystems"], keeps |-> TRUE]

HostInterfaceFromUpdate ==
  [Update |-> Patch({"AuthNoneRoleId", "AuthenticationModes", "InterfaceEnabled"}),
   ComputerSystems |-> Objects("computerSystems", "ComputerSystem"),
   HostEthernetInterfaces |-> Members("hostEthernetInterfaces", "EthernetInterface"),
   ManagerNetworkInterfaces |-> Members("managerEthernetInterface", "EthernetInterface"),
   AuthNoneRole |-> GetIf("authNoneRole", "Role"),
   CredentialBootstrappingRole |-> GetIf("credentialBootstrappingRole", "Role")]

\* Manager (redfish/manager.go)
ManagerFields ==
  [fields |-> {"Actions", "Links", "AutoDSTEnabled", "CommandShell", "DateTime", "DateTimeLocalOffset",
               "DateTimeSource", "DaylightSavingTime", "DedicatedNetworkPorts", "Description",
               "EthernetInterfaces", "FirmwareVersion", "GraphicalConsole", "HostInterfaces", "LastResetTime",
               "Location", "LocationIndicatorActive", "LogServices", "ManagerDiagnosticData", "ManagerType",
               "Manufacturer", "Model", "NetworkProtocol", "Oem", "PartNumber", "PowerState", "Redundancy",
               "RedundancyCount", "RemoteAccountService", "RemoteRedfishServiceUri", "SerialConsole",
               "SerialInterfaces", "SerialNumber", "ServiceEntryPointUUID", "ServiceIdentification",
               "SharedNetworkPorts", "SparePartNumber", "Status", "TimeZoneName", "USBPorts", "UUID", "Version",
               "VirtualMedia"},
   counts |-> {"RedundancyCount"},
   open |-> {"DedicatedNetworkPortsLink", "EthernetInterfacesLink", "HostInterfacesLink", "LogServicesLink",
             "ManagerDiagnosticDataLink", "NetworkProtocolLink", "RemoteAccountServiceLink",
             "SerialInterfacesLink", "SharedNetworkPortsLink", "USBPortsLink", "VirtualMediaLink",
             "ForceFailover", "ModifyRedundancySet", "ResetToDefaults", "ActiveSoftwareImage", "ManagedBy",
             "ManagerForChassis", "ManagerForManagers", "ManagerForServers", "ManagerForSwitches",
             "SelectedNetworkPort", "SoftwareImages", "Reset"}]

ManagerDecode ==
  [one |-> [DedicatedNetworkPortsLink |-> "DedicatedNetworkPorts",
            EthernetInterfacesLink |-> "EthernetInterfaces", HostInterfacesLink |-> "HostInterfaces",
            LogServicesLink |-> "LogServices", ManagerDiagnosticDataLink |-> "ManagerDiagnosticData",
            NetworkProtocolLink |-> "NetworkProtocol", RemoteAccountServiceLink |-> "RemoteAccountService",
            SerialInterfacesLink |-> "SerialInterfaces", SharedNetworkPortsLink |-> "SharedNetworkPorts",
            USBPortsLink |-> "USBPorts", VirtualMediaLink |-> "VirtualMedia",
            ActiveSoftwareImage |-> "Links.ActiveSoftwareImage",
            SelectedNetworkPort |-> "Links.SelectedNetworkPort"],
   many |-> [ManagedBy |-> "Links.ManagedBy", ManagerForChassis |-> "Links.ManagerForChassis",
             ManagerForManagers |-> "Links.ManagerForManagers", ManagerForServers |-> "Links.ManagerForServers",
             ManagerForSwitches |-> "Links.ManagerForSwitches", SoftwareImages |-> "Links.SoftwareImages"],
   target |-> [ForceFailover |-> "#ForceFailover", ModifyRedundancySet |-> "#ModifyRedundancySet",
               ResetToDefaults |-> "#ResetToDefaults", Reset |-> "#Reset"],
   info |-> [resetInfo |-> "#Reset@ActionInfo", defaultsInfo |-> "#ResetToDefaults@ActionInfo"],
   allowed |-> [AllowedResets |-> "#Reset@AllowableValues",
                AllowedDefaults |-> "#ResetToDefaults@AllowableValues"],
   count |-> [RedundancyCount |-> "Redundancy"], keeps |-> TRUE]

ManagerFromUpdate ==
  [Update |-> Patch({"AutoDSTEnabled", "DateTime", "DateTimeLocalOffset", "DateTimeSource",
                     "LocationIndicatorActive", "ServiceIdentification", "TimeZoneName"}),
   ForceFailover |-> Post("ForceFailover"), ModifyRedundancySet |-> Post("ModifyRedundancySet"),
   GetSupportedResetTypes |-> Learn("AllowedResets", "resetInfo", "Actions"),
   ResetActionInfo |-> Get("resetInfo", "ActionInfo")]

ManagerFromReset ==
  [Reset |-> Reset("Reset", "AllowedResets"),
   GetSupportedResetToDefaultsTypes |-> Learn("AllowedDefaults", "defaultsInfo", "Actions"),
   ResetToDefaultsActionInfo |-> Get("defaultsInfo", "ActionInfo"), ResetToDefaults |-> Post("ResetToDefaults"),
   DedicatedNetworkPorts |-> Members("DedicatedNetworkPortsLink", "Port"),
   EthernetInterfaces |-> Members("EthernetInterfacesLink", "EthernetInterface"),
   HostInterfaces |-> Members("HostInterfacesLink", "HostInterface")]

ManagerFromLogServices ==
  [LogServices |-> Members("LogServicesLink", "LogService"),
   ManagerDiagnosticData |-> GetIf("ManagerDiagnosticDataLink", "ManagerDiagnosticData"),
   NetworkProtocol |-> GetIf("NetworkProtocolLink", "NetworkProtocolSettings")]

ManagerFromRemoteAccountService ==
  [RemoteAccountService |-> GetIf("RemoteAccountServiceLink", "AccountService"),
   SharedNetworkPorts |-> Members("SharedNetworkPortsLink", "Port"),
   SerialInterfaces |-> Members("SerialInterfacesLink", "SerialInterface"),
   USBPorts |-> Members("USBPortsLink", "Port"), VirtualMedia |-> Members("VirtualMediaLink", "VirtualMedia"),
   ActiveSoftwareImage |-> GetIf("ActiveSoftwareImage", "SoftwareInventory"),
   ManagedBy |-> Objects("ManagedBy", "Manager"), ManagedForChassis |-> Objects("ManagerForChassis", "Chassis"),
   ManagerForManagers |-> Objects("ManagerForManagers", "Manager"),
   ManagerForServers |-> Objects("ManagerForServers", "ComputerSystem"),
   ManagerForSwitches |-> Objects("ManagerForSwitches", "Switch"),
   SelectedNetworkPort |-> GetIf("SelectedNetworkPort", "Port")]

ManagerFromSoftwareImages ==
  [SoftwareImages |-> Objects("SoftwareImages", "SoftwareInventory")]

\* GraphicsController (redfish/graphicscontroller.go)
GraphicsController ==
  Resource(
    [fields |-> {"AssetTag", "BiosVersion", "Description", "DriverVersion", "Location", "Manufacturer", "Model",
                 "Oem", "PartNumber", "SKU", "SerialNumber", "SparePartNumber", "Status", "ProcessorsCount"},
     counts |-> {"ProcessorsCount"}, one |-> [ports |-> "Ports", pcieDevice |-> "Links.PCIeDevice"],
     many |-> [processors |-> "Links.Processors"], count |-> [ProcessorsCount |-> "Links.Processors"],
     keeps |-> TRUE],
    [Ports |-> Members("ports", "Port"), PCIeDevice |-> GetIf("pcieDevice", "PCIeDevice"),
     Processors |-> Objects("processors", "Processor"), Update |-> Patch({"AssetTag"})])

\* OperatingSystem (redfish/operatingsystem.go)
OperatingSystem ==
  Resource(
    [fields |-> {"ContainerEngines", "Description", "Kernel", "Oem", "Status", "Type", "UptimeSeconds",
                 "VirtualMachineEngines"},
     one |-> [softwareImage |-> "Links.SoftwareImage", applications |-> "Applications",
              containerImages |-> "ContainerImages", containers |-> "Containers"]],
    [SoftwareImage |-> GetIf("softwareImage", "SoftwareInventory"),
     Applications |-> Members("applications", "Application"),
     ContainerImages |-> Members("containerImages", "ContainerImage"),
     Containers |-> Members("containers", "Container")])

\* Container (redfish/container.go)
Container ==
  Resource(
    [fields |-> {"Description", "Limits", "MountPoints", "ProgrammaticID", "StartTime", "Status"},
     one |-> [ethernetInterfaces |-> "EthernetInterfaces", containerImage |-> "Links.ContainerImage"],
     target |-> [resetTarget |-> "#Reset"]],
    [Reset |-> Post("resetTarget"), EthernetInterfaces |-> Members("ethernetInterfaces", "EthernetInterface"),
     ContainerImage |-> GetIf("containerImage", "ContainerImage")])

\* Application (redfish/application.go)
Application ==
  Resource(
    [fields |-> {"Description", "DestinationURIs", "MetricsURIs", "StartTime", "Status", "Vendor", "Version"},
     text |-> [softwareImage |-> "Links.SoftwareImage"], target |-> [resetTarget |-> "#Reset"]],
    [SoftwareImage |-> Get("softwareImage", "SoftwareInventory"), Reset |-> Post("resetTarget")])

\* The types of this module by name.
SystemTypes ==
  [ComputerSystem |-> Resource(ComputerSystemFields @@ ComputerSystemDecode,
                               ComputerSystemFromUpdate @@ ComputerSystemFromOperatingSystem @@
                               ComputerSystemFromReset @@ ComputerSystemFromSetDefaultBootOrder),
   Bios |-> Resource(BiosDocument, BiosFromChangePassword @@ BiosFromGetActiveSoftwareImage),
   Processor |-> Resource(ProcessorFields @@ ProcessorDecode, ProcessorFromUpdate @@ ProcessorFromSubProcessors),
   Memory |-> Resource(MemoryFields @@ MemoryDecode,
                       MemoryFromUpdate @@ MemoryFromMemoryMediaSources @@ MemoryFromScanMedia),
   MemoryDomain |-> MemoryDomain,
   VirtualMedia |-> Resource(VirtualMediaDocument,
                             VirtualMediaFromCertificates @@ VirtualMediaFromInsertMediaActionInfo @@
                             VirtualMediaFromInsertMediaConfig),
   EthernetInterface |-> Resource(EthernetInterfaceFields @@ EthernetInterfaceDecode,
                                  EthernetInterfaceFromUpdate @@ EthernetInterfaceFromVLANs),
   HostInterface |-> Resource(HostInterfaceDocument, HostInterfaceFromUpdate),
   Manager |-> Resource(ManagerFields @@ ManagerDecode,
                        ManagerFromUpdate @@ ManagerFromReset @@ ManagerFromLogServices @@
                        ManagerFromRemoteAccountService @@ ManagerFromSoftwareImages),
   GraphicsController |-> GraphicsController,
   OperatingSystem |-> OperatingSystem,
   Container |-> Container,
   Application |-> Application]
===================================================================================
