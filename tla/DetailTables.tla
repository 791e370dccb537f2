------------------------------- MODULE DetailTables -------------------------------
(* The types of the smaller services, policies, metrics and parts, as ResourceTables writes them. *)
EXTENDS ResourceTables

\* TrustedComponent (redfish/trustedcomponent.go)
TrustedComponent ==
  Resource(
    [fields |-> {"Description", "FirmwareVersion", "Manufacturer", "Model", "Oem", "PartNumber", "SKU",
                 "SerialNumber", "Status", "TPM", "TrustedComponentType", "UUID", "Actions", "Certificates",
                 "Links"},
     open |-> {"CertificatesLink", "ActiveSoftwareImage", "ComponentIntegrity", "SoftwareImages", "TPMGetEventLog"},
     one |-> [CertificatesLink |-> "Certificates", ActiveSoftwareImage |-> "Links.ActiveSoftwareImage"],
     many |-> [ComponentIntegrity |-> "Links.ComponentIntegrity", SoftwareImages |-> "Links.SoftwareImages"],
     target |-> [TPMGetEventLog |-> "#TPMGetEventLog"]],
    [ActiveSoftwareImage |-> GetIf("ActiveSoftwareImage", "SoftwareInventory"),
     ComponentIntegrity |-> Objects("ComponentIntegrity", "ComponentIntegrity"),
     SoftwareImages |-> Objects("SoftwareImages", "SoftwareInventory"),
     Certificates |-> Members("CertificatesLink", "Certificate"), TPMGetEventLog |-> Post("TPMGetEventLog")])

\* MemoryChunks (redfish/memorychunks.go)
MemoryChunks ==
  Resource(
    [fields |-> {"AddressRangeOffsetMiB", "AddressRangeType", "Description", "DisplayName", "InterleaveSets",
                 "IsMirrorEnabled", "IsSpare", "MediaLocation", "MemoryChunkSizeMiB", "RequestedOperationalState",
                 "Status", "CXLLogicalDevicesCount", "EndpointsCount", "MemoryRegionsCount"},
     counts |-> {"CXLLogicalDevicesCount", "EndpointsCount", "MemoryRegionsCount"},
     many |-> [cxlLogicalDevices |-> "Links.CXLLogicalDevices", endpoints |-> "Links.Endpoints",
               memoryRegions |-> "Links.MemoryRegions"],
     count |-> [CXLLogicalDevicesCount |-> "Links.CXLLogicalDevices", EndpointsCount |-> "Links.Endpoints",
                MemoryRegionsCount |-> "Links.MemoryRegions"],
     keeps |-> TRUE],
    [Update |-> Patch({"DisplayName", "MediaLocation", "RequestedOperationalState"})])

\* MemoryRegion (redfish/memoryregion.go)
MemoryRegion ==
  Resource(
    [fields |-> {"BlockSizeMiB", "Description", "ExtentsCount", "HardwareManagedCoherencyRegion", "MemoryChunks",
                 "MemoryExtents", "NonVolatileRegion", "RegionBaseOffsetMiB", "RegionNumber", "RegionSizeMiB",
                 "RegionType", "SanitizeOnRelease", "ShareableRegion", "Status"},
     keeps |-> TRUE],
    [Update |-> Patch({"BlockSizeMiB", "SanitizeOnRelease"})])

\* MemorySet (redfish/memorydomain.go)
MemorySet ==
  Resource(
    [fields |-> {"MemorySetCount"}, counts |-> {"MemorySetCount"}, many |-> [memorySet |-> "MemorySet"],
     count |-> [MemorySetCount |-> "MemorySet"]],
    [MemorySet |-> Objects("memorySet", "Memory")])

\* MemoryMetrics (redfish/memorymetrics.go)
MemoryMetrics ==
  Resource(
    [fields |-> {"BandwidthPercent", "BlockSizeBytes", "CXL", "CapacityUtilizationPercent",
                 "CorrectedPersistentErrorCount", "CorrectedVolatileErrorCount", "CurrentPeriod", "Description",
                 "DirtyShutdownCount", "HealthData", "LifeTime", "Oem", "OperatingSpeedMHz"},
     target |-> [clearCurrentPeriodTarget |-> "#ClearCurrentPeriod"]],
    [ClearCurrentPeriod |-> Post("clearCurrentPeriodTarget")])

\* AggregationSource (redfish/aggregationsource.go)
AggregationSource ==
  Resource(
    [fields |-> {"AggregationType", "Description", "HostName", "Password", "SNMP", "SSHSettings", "Status",
                 "UserName", "ResourcesAccessedCount"},
     counts |-> {"ResourcesAccessedCount"}, one |-> [connectionMethod |-> "Links.ConnectionMethod"],
     many |-> [resourcesAccessed |-> "Links.ResourcesAccessed"],
     target |-> [generateSSHIdentityKeyPairTarget |-> "#GenerateSSHIdentityKeyPair",
                 removeSSHIdentityKeyPairTarget |-> "#RemoveSSHIdentityKeyPair"],
     count |-> [ResourcesAccessedCount |-> "Links.ResourcesAccessed"], keeps |-> TRUE],
    [Update |-> Patch({"AggregationType", "HostName", "Password", "UserName"})])

\* ConnectionMethod (redfish/connectionmethod.go)
ConnectionMethod ==
  Resource(
    [fields |-> {"ConnectionMethodType", "ConnectionMethodVariant", "Description", "TunnelingProtocol",
                 "AggregationSourcesCount"},
     counts |-> {"AggregationSourcesCount"}, many |-> [aggregationSources |-> "Links.AggregationSources"],
     count |-> [AggregationSourcesCount |-> "Links.AggregationSources"]],
    [AggregationSources |-> Objects("aggregationSources", "AggregationSource")])

\* CompositionReservation (redfish/compositionreservation.go)
CompositionReservation ==
  Resource(
    [fields |-> {"Client", "Description", "Manifest", "ReservationTime", "ReservedResourceBlocksCount"},
     counts |-> {"ReservedResourceBlocksCount"}, many |-> [reservedResourceBlocks |-> "ReservedResourceBlocks"],
     count |-> [ReservedResourceBlocksCount |-> "ReservedResourceBlocks"]],
    [ReservedResourceBlocks |-> Objects("reservedResourceBlocks", "ResourceBlock")])

\* PowerEquipment (redfish/powerequipment.go)
PowerEquipment ==
  Resource(
    [fields |-> {"Description", "Oem", "Status", "ElectricalBuses", "FloorPDUs", "PowerShelves", "RackPDUs",
                 "Switchgear", "TransferSwitches", "Links", "Actions"},
     open |-> {"ElectricalBusesLink", "FloorPDUsLink", "PowerShelvesLink", "RackPDUsLink", "SwitchgearLink",
               "TransferSwitchesLink", "ManagedBy"},
     one |-> [ElectricalBusesLink |-> "ElectricalBuses", FloorPDUsLink |-> "FloorPDUs",
              PowerShelvesLink |-> "PowerShelves", RackPDUsLink |-> "RackPDUs", SwitchgearLink |-> "Switchgear",
              TransferSwitchesLink |-> "TransferSwitches"],
     many |-> [ManagedBy |-> "Links.ManagedBy"]],
    [ManagedBy |-> Objects("ManagedBy", "Manager"),
     ElectricalBuses |-> Members("ElectricalBusesLink", "PowerDistribution"),
     FloorPDUs |-> Members("FloorPDUsLink", "PowerDistribution"),
     PowerShelves |-> Members("PowerShelvesLink", "PowerDistribution"),
     RackPDUs |-> Members("RackPDUsLink", "PowerDistribution"),
     Switchgear |-> Members("SwitchgearLink", "PowerDistribution"),
     TransferSwitches |-> Members("TransferSwitchesLink", "PowerDistribution")])

\* ThermalEquipment (redfish/thermalequipment.go)
ThermalEquipment ==
  Resource(
    [fields |-> {"CoolingLoopRedundancy", "Description", "Oem", "Status"},
     one |-> [cdus |-> "CDUs", coolingLoops |-> "CoolingLoops", heatExchangers |-> "HeatExchangers",
              immersionUnits |-> "ImmersionUnits"]],
    [CDUs |-> Members("cdus", "CoolingUnit"), CoolingLoops |-> Members("coolingLoops", "CoolingLoop"),
     HeatExchangers |-> Members("heatExchangers", "CoolingUnit"),
     ImmersionUnits |-> Members("immersionUnits", "CoolingUnit")])

\* Thermal (redfish/thermal.go)
Thermal ==
  Resource(
    [fields |-> {"Description", "Fans", "Oem", "Temperatures", "FansCount", "TemperaturesCount", "RedundancyCount"},
     counts |-> {"FansCount", "TemperaturesCount", "RedundancyCount"}, many |-> [redundancy |-> "Redundancy"],
     count |-> [FansCount |-> "Fans", TemperaturesCount |-> "Temperatures", RedundancyCount |-> "Redundancy"],
     keeps |-> TRUE],
    [Update |-> Patch({"Fans", "Temperatures"})])

\* ThermalFan (redfish/thermal.go)
ThermalFan ==
  Resource(
    [fields |-> {"HotPluggable", "IndicatorLED", "Location", "LowerThresholdCritical", "LowerThresholdFatal",
                 "LowerThresholdNonCritical", "Manufacturer", "MaxReadingRange", "MemberId", "MinReadingRange",
                 "Model", "Oem", "PartNumber", "PhysicalContext", "Reading", "ReadingUnits", "SensorNumber",
                 "SerialNumber", "SparePartNumber", "Status", "UpperThresholdCritical", "UpperThresholdFatal",
                 "UpperThresholdNonCritical", "RelatedItems", "RedundancyCount", "RelatedItemCount"},
     counts |-> {"RedundancyCount", "RelatedItemCount"}, open |-> {"RelatedItems"},
     one |-> [assembly |-> "Assembly"], many |-> [redundancy |-> "Redundancy", RelatedItems |-> "RelatedItem"],
     count |-> [RedundancyCount |-> "Redundancy", RelatedItemCount |-> "RelatedItem"], keeps |-> TRUE],
    [Update |-> Patch({"IndicatorLED"})])

\* Temperature (redfish/thermal.go)
Temperature ==
  Resource(
    [fields |-> {"AdjustedMaxAllowableOperatingValue", "AdjustedMinAllowableOperatingValue",
                 "DeltaPhysicalContext", "DeltaReadingCelsius", "LowerThresholdCritical", "LowerThresholdFatal",
                 "LowerThresholdNonCritical", "LowerThresholdUser", "MaxAllowableOperatingValue",
                 "MaxReadingRangeTemp", "MemberId", "MinAllowableOperatingValue", "MinReadingRangeTemp", "Oem",
                 "PhysicalContext", "ReadingCelsius", "SensorNumber", "Status", "UpperThresholdCritical",
                 "UpperThresholdFatal", "UpperThresholdNonCritical", "UpperThresholdUser", "RelatedItems",
                 "RelatedItemCount"},
     counts |-> {"RelatedItemCount"}, open |-> {"RelatedItems"}, many |-> [RelatedItems |-> "RelatedItem"],
     count |-> [RelatedItemCount |-> "RelatedItem"], keeps |-> TRUE],
    [Update |-> Patch({"LowerThresholdUser", "UpperThresholdUser"})])

\* ThermalMetrics (redfish/thermalmetrics.go)
ThermalMetrics ==
  Resource(
    [fields |-> {"AirFlowCubicMetersPerMinute", "DeltaPressurekPa", "Description", "EnergykWh", "HeaterSummary",
                 "Oem", "PowerWatts", "TemperatureReadingsCelsius", "TemperatureReadingsCelsiusCount",
                 "TemperatureSummaryCelsius"},
     counts |-> {"TemperatureReadingsCelsiusCount"}, target |-> [resetMetricsTarget |-> "#ResetMetrics"],
     count |-> [TemperatureReadingsCelsiusCount |-> "TemperatureReadingsCelsius"]],
    [ResetMetrics |-> Post("resetMetricsTarget")])

\* HeaterMetrics (redfish/heatermetrics.go)
HeaterMetrics ==
  Resource(
    [fields |-> {"Description", "Oem", "PowerWatts", "PrePowerOnHeatingTimeSeconds", "RuntimeHeatingTimeSeconds",
                 "TemperatureReadingsCelsius", "TemperatureReadingsCelsiusCount"},
     counts |-> {"TemperatureReadingsCelsiusCount"}, target |-> [resetMetricsTarget |-> "#ResetMetrics"],
     count |-> [TemperatureReadingsCelsiusCount |-> "TemperatureReadingsCelsius"]],
    [ResetMetrics |-> Post("resetMetricsTarget")])

\* BatteryMetrics (redfish/batterymetrics.go)
BatteryMetrics ==
  Resource(
    [fields |-> {"CellVoltages", "CellVoltagesCount", "ChargePercent", "Description", "DischargeCycles",
                 "InputCurrentAmps", "InputVoltage", "OutputCurrentAmps", "OutputCurrentAmpsCount",
                 "OutputVoltages", "OutputVoltagesCount", "Status", "StoredChargeAmpHours",
                 "StoredEnergyWattHours", "TemperatureCelsius"},
     counts |-> {"CellVoltagesCount", "OutputCurrentAmpsCount", "OutputVoltagesCount"},
     count |-> [CellVoltagesCount |-> "CellVoltages", OutputCurrentAmpsCount |-> "OutputCurrentAmps",
                OutputVoltagesCount |-> "OutputVoltages"]],
    <<>>)

\* PowerDistributionMetrics (redfish/powerdistributionmetrics.go)
PowerDistributionMetrics ==
  Resource(
    [fields |-> {"Description", "AbsoluteHumidity", "EnergykWh", "HumidityPercent", "PowerLoadPercent",
                 "PowerWatts", "TemperatureCelsius", "Oem", "OemActions"},
     target |-> [resetMetricsTarget |-> "#ResetMetrics"], keeps |-> TRUE],
    [ResetMetrics |-> Post("resetMetricsTarget")])

\* Redundancy (redfish/redundancy.go)
Redundancy ==
  Resource(
    [fields |-> {"MaxNumSupported", "MemberId", "MinNumNeeded", "Mode", "RedundancyEnabled", "RedundancySetCount",
                 "Status"},
     counts |-> {"RedundancySetCount"}, many |-> [redundancySet |-> "RedundancySet"],
     count |-> [RedundancySetCount |-> "RedundancySet"], keeps |-> TRUE],
    [Update |-> Patch({"Mode", "RedundancyEnabled"})])

\* AccelerationFunction (redfish/accelerationfunction.go)
AccelerationFunction ==
  Resource(
    [fields |-> {"AccelerationFunctionType", "Description", "FpgaReconfigurationSlots", "Manufacturer",
                 "PowerWatts", "Status", "UUID", "Version", "EndpointsCount", "PCIeFunctionsCount"},
     counts |-> {"EndpointsCount", "PCIeFunctionsCount"},
     many |-> [endpoints |-> "Links.Endpoints", pcieFunctions |-> "Links.PCIeFunctions"],
     count |-> [EndpointsCount |-> "Links.Endpoints", PCIeFunctionsCount |-> "Links.PCIeFunctions"]],
    [Endpoints |-> Objects("endpoints", "Endpoint"), PCIeFunctions |-> Objects("pcieFunctions", "PCIeFunction")])

\* ProcessorMetrics (redfish/processormetrics.go)
ProcessorMetrics ==
  Resource(
    [fields |-> {"BandwidthPercent", "Cache", "CacheMetricsTotal", "CoreMetrics", "CoreVoltage",
                 "CorrectableCoreErrorCount", "CorrectableOtherErrorCount", "Description", "FrequencyRatio",
                 "KernelPercent", "LocalMemoryBandwidthBytes", "Oem", "OperatingSpeedMHz", "PCIeErrors",
                 "PowerLimitThrottleDuration", "RemoteMemoryBandwidthBytes", "ThermalLimitThrottleDuration",
                 "ThrottlingCelsius", "UncorrectableCoreErrorCount", "UncorrectableOtherErrorCount", "UserPercent"},
     target |-> [clearCurrentPeriodTarget |-> "#ClearCurrentPeriod"]],
    [ClearCurrentPeriod |-> Post("clearCurrentPeriodTarget")])

\* PCIeSlot (redfish/pcieslots.go)
PCIeSlot ==
  Resource(
    [fields |-> {"HotPluggable", "Lanes", "Location", "LocationIndicatorActive", "PCIeType", "SlotType", "Status",
                 "PCIeDeviceCount", "ProcessorsCount", "OemLinks", "Oem"},
     counts |-> {"PCIeDeviceCount", "ProcessorsCount"},
     many |-> [pcieDevice |-> "Links.PCIeDevice", processors |-> "Links.Processors"],
     count |-> [PCIeDeviceCount |-> "Links.PCIeDevice", ProcessorsCount |-> "Links.Processors"]],
    [PCIeDevice |-> Objects("pcieDevice", "PCIeDevice"), Processors |-> Objects("processors", "Processor")])

\* SecureBoot (redfish/secureboot.go)
SecureBoot ==
  Resource(
    [fields |-> {"Description", "SecureBootCurrentBoot", "SecureBootEnable", "SecureBootMode", "Actions",
                 "Settings"},
     open |-> {"ResetKeys"}, target |-> [ResetKeys |-> "#ResetKeys"], keeps |-> TRUE],
    [Update |-> Patch({"SecureBootEnable"}), ResetKeys |-> Post("ResetKeys")])

\* SecureBootDatabase (redfish/securebootdatabase.go)
SecureBootDatabaseFields ==
  [fields |-> {"Certificates", "DatabaseID", "Description", "Oem", "Signatures", "Actions"},
   open |-> {"CertificatesLink", "SignaturesLink", "ResetKeys"},
   one |-> [CertificatesLink |-> "Certificates", SignaturesLink |-> "Signatures"],
   target |-> [ResetKeys |-> "#ResetKeys"]]

SecureBootDatabaseFromCertificates ==
  [Certificates |-> Members("CertificatesLink", "Certificate"),
   Signatures |-> Members("SignaturesLink", "Signature"), ResetKeys |-> Post("ResetKeys")]

\* USBController (redfish/usbcontroller.go)
USBController ==
  Resource(
    [fields |-> {"Description", "Manufacturer", "Model", "Oem", "PartNumber", "SKU", "SerialNumber",
                 "SparePartNumber", "Status", "ProcessorsCount"},
     counts |-> {"ProcessorsCount"}, one |-> [pcieDevice |-> "Links.PCIeDevice", ports |-> "Ports"],
     many |-> [processors |-> "Links.Processors"]],
    [PCIeDevice |-> GetIf("pcieDevice", "PCIeDevice"), Processors |-> Objects("processors", "Processor"),
     Ports |-> Members("ports", "Port")])

\* SerialInterface (redfish/serialinterface.go)
SerialInterface ==
  Resource(
    [fields |-> {"Description", "BitRate", "ConnectorType", "DataBits", "FlowControl", "InterfaceEnabled",
                 "Parity", "PinOut", "SignalType", "StopBits", "Oem", "OemActions"},
     keeps |-> TRUE],
    [Update |-> Patch({"BitRate", "DataBits", "FlowControl", "InterfaceEnabled", "Parity", "StopBits"})])

\* SimpleStorage (redfish/simplestorage.go)
SimpleStorage ==
  Resource(
    [fields |-> {"Description", "Devices", "Status", "UefiDevicePath"},
     one |-> [chassis |-> "Links.Chassis", storage |-> "Links.Storage"]],
    [Chassis |-> GetIf("chassis", "Chassis"), Storage |-> GetIf("storage", "Storage")])

\* Assembly (redfish/assembly.go)
Assembly ==
  Resource(
    [fields |-> {"Assemblies", "AssembliesCount", "Description"}, counts |-> {"AssembliesCount"},
     count |-> [AssembliesCount |-> "Assemblies"], keeps |-> TRUE],
    [Update |-> Patch({"Assemblies"})])

\* ContainerImage (redfish/containerimage.go)
ContainerImage ==
  Resource(
    [fields |-> {"CreateTime", "Description", "ProgrammaticID", "SizeBytes", "Status", "Type", "Version",
                 "ContainersCount"},
     counts |-> {"ContainersCount"}, one |-> [softwareImage |-> "Links.SoftwareImage"],
     many |-> [containers |-> "Links.Containers"], count |-> [ContainersCount |-> "Links.Containers"]],
    [Containers |-> Objects("containers", "Container")])

\* SoftwareInventory (redfish/softwareinventory.go)
SoftwareInventory ==
  Resource(
    [fields |-> {"AdditionalVersions", "AssociatedPhysicalContext", "Description", "LowestSupportedVersion",
                 "Manufacturer", "OEM", "RelatedItem", "RelatedItemCount", "ReleaseDate", "SoftwareID", "Status",
                 "UefiDevicePaths", "Updateable", "Version", "VersionScheme", "WriteProtected"},
     counts |-> {"RelatedItemCount"}, open |-> {"RelatedItem"}, many |-> [RelatedItem |-> "RelatedItem"],
     count |-> [RelatedItemCount |-> "RelatedItem"], keeps |-> TRUE],
    [Update |-> Patch({"WriteProtected"})])

\* ExternalAccountProvider (redfish/externalaccountprovider.go)
ExternalAccountProvider ==
  Resource(
    [fields |-> {"AccountProviderType", "Authentication", "Description", "LDAPService", "OAuth2Service", "Oem",
                 "Priority", "RemoteRoleMapping", "Retries", "ServiceAddresses", "ServiceEnabled",
                 "TACACSplusService", "TimeoutSeconds"},
     one |-> [certificates |-> "Certificates"], keeps |-> TRUE],
    [Certificates |-> Members("certificates", "Certificate"),
     Update |-> Patch({"Priority", "Retries", "ServiceAddresses", "ServiceEnabled", "TimeoutSeconds"})])

\* Role (redfish/role.go)
Role ==
  Resource(
    [fields |-> {"AssignedPrivileges", "Description", "IsPredefined", "OemPrivileges", "Restricted", "RoleId"},
     keeps |-> TRUE],
    [Update |-> Patch({"AssignedPrivileges", "OemPrivileges"})])

\* SessionService (redfish/sessionservice.go)
SessionService ==
  Resource(
    [fields |-> {"Description", "Oem", "ServiceEnabled", "SessionTimeout", "Status"},
     one |-> [sessions |-> "Sessions"], keeps |-> TRUE],
    [Sessions |-> Members("sessions", "Session"), Update |-> Patch({"ServiceEnabled", "SessionTimeout"})])

\* Session (redfish/session.go)
Session ==
  Resource(
    [fields |-> {"ClientOriginIPAddress", "Context", "CreatedTime", "Description", "OemSessionType", "Password",
                 "Roles", "SessionType", "Token", "UserName"},
     one |-> [outboundConnection |-> "Links.OutboundConnection"]],
    [OutboundConnection |-> GetIf("outboundConnection", "OutboundConnection")])

\* TaskService (redfish/taskservice.go)
TaskService ==
  Resource(
    [fields |-> {"Description", "Oem", "CompletedTaskOverWritePolicy", "DateTime",
                 "LifeCycleEventOnTaskStateChange", "ServiceEnabled", "Status", "TaskAutoDeleteTimeoutMinutes",
                 "Tasks"},
     open |-> {"TasksLink"}, one |-> [TasksLink |-> "Tasks"], keeps |-> TRUE],
    [Tasks |-> Members("TasksLink", "Task"), Update |-> Patch({"ServiceEnabled", "TaskAutoDeleteTimeoutMinutes"})])

\* Task (redfish/task.go)
Task ==
  Resource(
    [fields |-> {"Description", "EndTime", "HidePayload", "Links", "Messages", "Payload", "PercentComplete",
                 "StartTime", "TaskMonitor", "TaskState", "TaskStatus", "Oem"},
     inline |-> [subTasks |-> "SubTasks"]],
    [SubTasks |-> Objects("subTasks", "Task")])

\* JobService (redfish/jobservice.go)
JobService ==
  Resource(
    [fields |-> {"DateTime", "Description", "ServiceCapabilities", "ServiceEnabled", "Status"},
     one |-> [jobs |-> "Jobs", log |-> "Log"]],
    [Jobs |-> Members("jobs", "Job"), Log |-> Get("log", "LogService")])

\* Job (redfish/job.go)
Job ==
  Resource(
    [fields |-> {"CreatedBy", "Description", "EndTime", "EstimatedDuration", "HidePayload", "JobState",
                 "JobStatus", "MaxExecutionTime", "Messages", "Payload", "PercentComplete", "Schedule",
                 "StartTime", "StepOrder"},
     one |-> [steps |-> "Steps"]],
    [Steps |-> Members("steps", "Job")])

\* Schedule (redfish/schedule.go)
Schedule ==
  Resource(
    [fields |-> {"EnabledDaysOfMonth", "EnabledDaysOfWeek", "EnabledIntervals", "EnabledMonthsOfYear",
                 "InitialStartTime", "Lifetime", "MaxOccurrences", "RecurrenceInterval"},
     keeps |-> TRUE],
    [Update |-> Patch({"EnabledDaysOfMonth", "EnabledDaysOfWeek", "EnabledIntervals", "EnabledMonthsOfYear",
                       "InitialStartTime", "Lifetime", "MaxOccurrences", "RecurrenceInterval"})])

\* License (redfish/license.go)
License ==
  Resource(
    [fields |-> {"AuthorizationScope", "Contact", "Description", "DownloadURI", "EntitlementID", "ExpirationDate",
                 "GracePeriodDays", "InstallDate", "LicenseInfoURI", "LicenseOrigin", "LicenseString",
                 "LicenseType", "Manufacturer", "MaxAuthorizedDevices", "Oem", "PartNumber", "RemainingDuration",
                 "RemainingUseCount", "Removable", "SKU", "SerialNumber", "Status", "AuthorizedDevices",
                 "AuthorizedDevicesCount", "TargetServicesCount"},
     counts |-> {"AuthorizedDevicesCount", "TargetServicesCount"}, open |-> {"AuthorizedDevices"},
     many |-> [AuthorizedDevices |-> "Links.AuthorizedDevices", targetServices |-> "Links.TargetServices"],
     count |-> [AuthorizedDevicesCount |-> "Links.AuthorizedDevices",
                TargetServicesCount |-> "Links.TargetServices"]],
    [TargetServices |-> Objects("targetServices", "Manager")])

\* RegisteredClient (redfish/registeredclient.go)
RegisteredClient ==
  Resource(
    [fields |-> {"ClientType", "ClientURI", "Context", "CreatedDate", "Description", "ExpirationDate",
                 "ManagedResources", "Oem", "SubContext"},
     keeps |-> TRUE],
    [Update |-> Patch({"ClientType", "ClientURI", "Context", "ExpirationDate", "SubContext"})])

\* CertificateLocations (redfish/certificatelocations.go)
CertificateLocations ==
  Resource(
    [fields |-> {"Description", "CertificatesCount"}, counts |-> {"CertificatesCount"},
     many |-> [certificates |-> "Links.Certificates"], count |-> [CertificatesCount |-> "Links.Certificates"]],
    [Certificates |-> Objects("certificates", "Certificate")])

\* KeyService (redfish/keyservice.go)
KeyService ==
  Resource(
    [fields |-> {"Description", "Oem"},
     one |-> [nvmeoFKeyPolicies |-> "NVMeoFKeyPolicies", nvmeoFSecrets |-> "NVMeoFSecrets"]],
    [NVMeoFKeyPolicies |-> Members("nvmeoFKeyPolicies", "KeyPolicy"),
     NVMeoFSecrets |-> Members("nvmeoFSecrets", "Key")])

\* KeyPolicy (redfish/keypolicy.go)
KeyPolicy ==
  Resource(
    [fields |-> {"Description", "IsDefault", "KeyPolicyType", "NVMeoF", "Oem"}, keeps |-> TRUE],
    [Update |-> Patch({"IsDefault"})])

\* SecurityPolicy (redfish/securitypolicy.go)
SecurityPolicy ==
  Resource(
    [fields |-> {"Description", "Oem", "OverrideParentManager", "SPDM", "Status", "TLS"}, keeps |-> TRUE],
    [Update |-> Patch({"OverrideParentManager"})])

\* SPDMPolicy (redfish/securitypolicy.go)
SPDMPolicy ==
  Resource(
    [fields |-> {"AllowExtendedAlgorithms", "Allowed", "Denied", "Enabled", "SecureSessionEnabled",
                 "VerifyCertificate"},
     one |-> [revokedCertificates |-> "RevokedCertificates", trustedCertificates |-> "TrustedCertificates"]],
    [RevokedCertificates |-> Members("revokedCertificates", "Certificate"),
     TrustedCertificates |-> Members("trustedCertificates", "Certificate")])

\* TLSPolicy (redfish/securitypolicy.go)
TLSPolicy ==
  Resource(
    [fields |-> {"Allowed", "Denied", "VerifyCertificate"},
     one |-> [revokedCertificates |-> "RevokedCertificates", trustedCertificates |-> "TrustedCertificates"]],
    [RevokedCertificates |-> Members("revokedCertificates", "Certificate"),
     TrustedCertificates |-> Members("trustedCertificates", "Certificate")])

\* AllowDeny (redfish/allowdeny.go)
AllowDeny ==
  Resource(
    [fields |-> {"AllowType", "Description", "DestinationPortLower", "DestinationPortUpper", "Direction",
                 "IANAProtocolNumber", "IPAddressLower", "IPAddressType", "IPAddressUpper", "SourcePortLower",
                 "SourcePortUpper", "StatefulSession"},
     keeps |-> TRUE],
    [Update |-> Patch({"AllowType", "DestinationPortLower", "DestinationPortUpper", "Direction",
                       "IANAProtocolNumber", "IPAddressLower", "IPAddressType", "IPAddressUpper",
                       "SourcePortLower", "SourcePortUpper", "StatefulSession"})])

\* NetworkProtocolSettings (redfish/networkprotocol.go)
NetworkProtocolSettings ==
  Resource(
    [fields |-> {"Description", "Status", "DHCP", "DHCPv6", "FQDN", "HTTP", "HTTPS", "HostName", "IPMI", "IPMISOL",
                 "KVMIP", "NTP", "Proxy", "RDP", "RFB", "SNMP", "SOL", "SSDP", "SSH", "Telnet", "VirtualMedia",
                 "Oem"},
     keeps |-> TRUE],
    [Update |-> Patch({"DHCP", "DHCPv6", "HTTP", "HTTPS", "IPMI", "KVMIP", "NTP", "Proxy", "RDP", "RFB", "SNMP",
                       "SSDP", "SSH", "Telnet", "VirtualMedia"})])

\* VLanNetworkInterface (redfish/vlannetworkinterface.go)
VLanNetworkInterface ==
  Resource(
    [fields |-> {"Description", "VLANEnable", "VLANId", "VLANPriority"}, keeps |-> TRUE],
    [Update |-> Patch({"VLANEnable", "VLANId", "VLANPriority"})])

\* RouteEntry (redfish/routeentry.go)
RouteEntry ==
  Resource(
    [fields |-> {"Description", "MinimumHopCount", "Oem", "RawEntryHex"}, one |-> [routeSet |-> "RouteSet"],
     keeps |-> TRUE],
    [RouteSet |-> Members("routeSet", "RouteSetEntry"), Update |-> Patch({"MinimumHopCount", "RawEntryHex"})])

\* RouteSetEntry (redfish/routesetentry.go)
RouteSetEntry ==
  Resource(
    [fields |-> {"Description", "EgressIdentifier", "HopCount", "Oem", "VCAction", "Valid"}, keeps |-> TRUE],
    [Update |-> Patch({"EgressIdentifier", "HopCount", "VCAction", "Valid"})])

\* VCATEntry (redfish/vcatentry.go)
VCATEntry ==
  Resource(
    [fields |-> {"Description", "Oem", "RawEntryHex", "VCEntries"}, keeps |-> TRUE],
    [Update |-> Patch({"RawEntryHex"})])

\* MetricDefinition (redfish/metricdefinition.go)
MetricDefinition ==
  Resource(
    [fields |-> {"Accuracy", "Calculable", "CalculationAlgorithm", "CalculationParameters",
                 "CalculationTimeInterval", "Calibration", "Description", "DiscreteValues", "Implementation",
                 "IsLinear", "LogicalContexts", "MaxReadingRange", "MetricDataType", "MetricProperties",
                 "MetricType", "MinReadingRange", "OEMCalculationAlgorithm", "Oem", "PhysicalContext", "Precision",
                 "SensingInterval", "TimestampAccuracy", "Units", "Wildcards"},
     keeps |-> TRUE],
    [Update |-> Patch({"Calculable", "CalculationTimeInterval", "DiscreteValues", "IsLinear", "MetricDataType",
                       "MetricProperties", "MetricType", "SensingInterval", "Units"})])

\* DataStorageLoSCapabilities (swordfish/datastorageloscapabilities.go)
DataStorageLoSCapabilities ==
  Resource(
    [fields |-> {"Description", "Identifier", "MaximumRecoverableCapacitySourceCount",
                 "SupportedAccessCapabilities", "SupportedLinesOfService", "SupportedLinesOfServiceCount",
                 "SupportedProvisioningPolicies", "SupportedRecoveryTimeObjectives", "SupportsSpaceEfficiency"},
     counts |-> {"SupportedLinesOfServiceCount"},
     count |-> [SupportedLinesOfServiceCount |-> "SupportedLinesOfService"], keeps |-> TRUE],
    [Update |-> Patch({"MaximumRecoverableCapacitySourceCount", "SupportedAccessCapabilities",
                       "SupportedLinesOfService", "SupportedProvisioningPolicies",
                       "SupportedRecoveryTimeObjectives", "SupportsSpaceEfficiency"})])

\* DataSecurityLoSCapabilities (swordfish/datasecurityloscapabilities.go)
DataSecurityLoSCapabilities ==
  Resource(
    [fields |-> {"Description", "Identifier", "SupportedAntivirusEngineProviders",
                 "SupportedAntivirusScanPolicies", "SupportedChannelEncryptionStrengths",
                 "SupportedDataSanitizationPolicies", "SupportedHostAuthenticationTypes",
                 "SupportedLinesOfService", "SupportedLinesOfServiceCount", "SupportedMediaEncryptionStrengths",
                 "SupportedSecureChannelProtocols", "SupportedUserAuthenticationTypes"},
     counts |-> {"SupportedLinesOfServiceCount"},
     count |-> [SupportedLinesOfServiceCount |-> "SupportedLinesOfService"]],
    <<>>)

\* IOConnectivityLineOfService (swordfish/ioconnectivitylineofservice.go)
IOConnectivityLineOfService ==
  Resource(
    [fields |-> {"AccessProtocols", "Description", "MaxBytesPerSecond", "MaxIOPS", "Oem"}, keeps |-> TRUE],
    [Update |-> Patch({"AccessProtocols", "MaxBytesPerSecond", "MaxIOPS"})])

\* IOConnectivityLoSCapabilities (swordfish/ioconnectivityloscapabilities.go)
IOConnectivityLoSCapabilities ==
  Resource(
    [fields |-> {"Description", "Identifier", "MaxSupportedBytesPerSecond", "MaxSupportedIOPS", "Oem",
                 "SupportedAccessProtocols", "SupportedLinesOfService", "SupportedLinesOfServiceCount"},
     counts |-> {"SupportedLinesOfServiceCount"},
     count |-> [SupportedLinesOfServiceCount |-> "SupportedLinesOfService"], keeps |-> TRUE],
    [Update |-> Patch({"MaxSupportedBytesPerSecond", "MaxSupportedIOPS", "SupportedAccessProtocols",
                       "SupportedLinesOfService"})])

\* IOPerformanceLineOfService (swordfish/ioperformancelineofservice.go)
IOPerformanceLineOfService ==
  Resource(
    [fields |-> {"AverageIOOperationLatencyMicroseconds", "Description", "IOOperationsPerSecondIsLimited",
                 "IOWorkload", "MaxIOOperationsPerSecondPerTerabyte", "Oem", "SamplePeriod"},
     keeps |-> TRUE],
    [Update |-> Patch({"AverageIOOperationLatencyMicroseconds", "IOOperationsPerSecondIsLimited",
                       "MaxIOOperationsPerSecondPerTerabyte", "SamplePeriod"})])

\* IOPerformanceLoSCapabilities (swordfish/ioperformanceloscapabilities.go)
IOPerformanceLoSCapabilities ==
  Resource(
    [fields |-> {"Description", "IOLimitingIsSupported", "Identifier", "MaxSamplePeriod", "MinSamplePeriod",
                 "MinSupportedIoOperationLatencyMicroseconds", "Oem", "SupportedIOWorkloads",
                 "SupportedLinesOfService", "SupportedLinesOfServiceCount"},
     counts |-> {"SupportedLinesOfServiceCount"},
     count |-> [SupportedLinesOfServiceCount |-> "SupportedLinesOfService"], keeps |-> TRUE],
    [Update |-> Patch({"IOLimitingIsSupported", "MaxSamplePeriod", "MinSamplePeriod",
                       "MinSupportedIoOperationLatencyMicroseconds", "SupportedLinesOfService"})])

\* The types of this module by name.
DetailTypes ==
  [TrustedComponent |-> TrustedComponent,
   MemoryChunks |-> MemoryChunks,
   MemoryRegion |-> MemoryRegion,
   MemorySet |-> MemorySet,
   MemoryMetrics |-> MemoryMetrics,
   AggregationSource |-> AggregationSource,
   ConnectionMethod |-> ConnectionMethod,
   CompositionReservation |-> CompositionReservation,
   PowerEquipment |-> PowerEquipment,
   ThermalEquipment |-> ThermalEquipment,
   Thermal |-> Thermal,
   ThermalFan |-> ThermalFan,
   Temperature |-> Temperature,
   ThermalMetrics |-> ThermalMetrics,
   HeaterMetrics |-> HeaterMetrics,
   BatteryMetrics |-> BatteryMetrics,
   PowerDistributionMetrics |-> PowerDistributionMetrics,
   Redundancy |-> Redundancy,
   AccelerationFunction |-> AccelerationFunction,
   ProcessorMetrics |-> ProcessorMetrics,
   PCIeSlot |-> PCIeSlot,
   SecureBoot |-> SecureBoot,
   SecureBootDatabase |-> Resource(SecureBootDatabaseFields, SecureBootDatabaseFromCertificates),
   USBController |-> USBController,
   SerialInterface |-> SerialInterface,
   SimpleStorage |-> SimpleStorage,
   Assembly |-> Assembly,
   ContainerImage |-> ContainerImage,
   SoftwareInventory |-> SoftwareInventory,
   ExternalAccountProvider |-> ExternalAccountProvider,
   Role |-> Role,
   SessionService |-> SessionService,
   Session |-> Session,
   TaskService |-> TaskService,
   Task |-> Task,
   JobService |-> JobService,
   Job |-> Job,
   Schedule |-> Schedule,
   License |-> License,
   RegisteredClient |-> RegisteredClient,
   CertificateLocations |-> CertificateLocations,
   KeyService |-> KeyService,
   KeyPolicy |-> KeyPolicy,
   SecurityPolicy |-> SecurityPolicy,
   SPDMPolicy |-> SPDMPolicy,
   TLSPolicy |-> TLSPolicy,
   AllowDeny |-> AllowDeny,
   NetworkProtocolSettings |-> NetworkProtocolSettings,
   VLanNetworkInterface |-> VLanNetworkInterface,
   RouteEntry |-> RouteEntry,
   RouteSetEntry |-> RouteSetEntry,
   VCATEntry |-> VCATEntry,
   MetricDefinition |-> MetricDefinition,
   DataStorageLoSCapabilities |-> DataStorageLoSCapabilities,
   DataSecurityLoSCapabilities |-> DataSecurityLoSCapabilities,
   IOConnectivityLineOfService |-> IOConnectivityLineOfService,
   IOConnectivityLoSCapabilities |-> IOConnectivityLoSCapabilities,
   IOPerformanceLineOfService |-> IOPerformanceLineOfService,
   IOPerformanceLoSCapabilities |-> IOPerformanceLoSCapabilities]
===================================================================================
