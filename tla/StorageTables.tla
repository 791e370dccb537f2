------------------------------ MODULE StorageTables ------------------------------
(* The types of storage, Redfish and Swordfish, as ResourceTables writes them. *)
EXTENDS ResourceTables

\* Storage (redfish/storage.go)
StorageFields ==
  [fields |-> {"AutoVolumeCreate", "Description", "DrivesCount", "EncryptionMode", "HotspareActivationPolicy",
               "Identifiers", "LocalEncryptionKeyIdentifier", "Oem", "Redundancy", "RedundancyCount", "Status",
               "StorageControllers", "StorageControllersCount", "EnclosuresCount", "HostingStorageSystemsCount",
               "NVMeoFDiscoverySubsystemsCount", "StorageServicesCount"},
   counts |-> {"DrivesCount", "RedundancyCount", "StorageControllersCount", "EnclosuresCount",
               "HostingStorageSystemsCount", "NVMeoFDiscoverySubsystemsCount", "StorageServicesCount"}]

StorageDecode ==
  [one |-> [connections |-> "Connections", consistencyGroups |-> "ConsistencyGroups",
            controllers |-> "Controllers", endpointGroups |-> "EndpointGroups", fileSystems |-> "FileSystems",
            storagePools |-> "StoragePools", volumes |-> "Volumes", simpleStorage |-> "Links.SimpleStorage"],
   many |-> [drives |-> "Drives", enclosures |-> "Links.Enclosures",
             hostingStorageSystems |-> "Links.HostingStorageSystems",
             nvmeoFDiscoverySubsystems |-> "Links.NVMeoFDiscoverySubsystems",
             storageServices |-> "Links.StorageServices"],
   target |-> [resetToDefaultsTarget |-> "#/definitions/ResetToDefaults",
               setEncryptionKeyTarget |-> "#SetEncryptionKey"],
   count |-> [EnclosuresCount |-> "Links.Enclosures",
              HostingStorageSystemsCount |-> "Links.HostingStorageSystems",
              NVMeoFDiscoverySubsystemsCount |-> "Links.NVMeoFDiscoverySubsystems",
              StorageServicesCount |-> "Links.StorageServices", DrivesCount |-> "Drives",
              RedundancyCount |-> "Redundancy", StorageControllersCount |-> "StorageControllers"],
   keeps |-> TRUE]

StorageFromConnections ==
  [Connections |-> Members("connections", "Connection"),
   Controllers |-> Members("controllers", "StorageController"), Drives |-> Objects("drives", "Drive"),
   EndpointGroups |-> Members("endpointGroups", "EndpointGroup"), Volumes |-> Members("volumes", "Volume"),
   Enclosures |-> Objects("enclosures", "Chassis"),
   HostingStorageSystems |-> Objects("hostingStorageSystems", "ComputerSystem"),
   NVMeoFDiscoverySubsystems |-> Objects("nvmeoFDiscoverySubsystems", "Storage"),
   SimpleStorage |-> GetIf("simpleStorage", "SimpleStorage"), ResetToDefaults |-> Post("resetToDefaultsTarget")]

StorageFromSetEncryptionKey ==
  [SetEncryptionKey |-> Post("setEncryptionKeyTarget"),
   Update |-> Patch({"AutoVolumeCreate", "EncryptionMode", "HotspareActivationPolicy"}),
   GetOperationApplyTimeValues |-> Get("volumes", "CollectionCapabilities")]

\* StorageController (redfish/storagecontroller.go)
StorageControllerFields ==
  [fields |-> {"AssetTag", "CacheSummary", "ControllerRates", "FirmwareVersion", "Identifiers", "Location",
               "Manufacturer", "Model", "NVMeControllerProperties", "PCIeInterface", "PartNumber", "SKU",
               "SerialNumber", "SpeedGbps", "Status", "SupportedControllerProtocols", "SupportedDeviceProtocols",
               "SupportedRAIDTypes", "AttachedVolumesCount", "BatteriesCount", "EndpointsCount",
               "NVMeDiscoveredSubsystemsCount", "NetworkDeviceFunctionsCount", "PCIeFunctionsCount",
               "StorageServicesCount"},
   counts |-> {"AttachedVolumesCount", "BatteriesCount", "EndpointsCount", "NVMeDiscoveredSubsystemsCount",
               "NetworkDeviceFunctionsCount", "PCIeFunctionsCount", "StorageServicesCount"}]

StorageControllerDecode ==
  [one |-> [assembly |-> "Assembly", certificates |-> "Certificates",
            environmentMetrics |-> "EnvironmentMetrics", metrics |-> "Metrics", ports |-> "Ports"],
   many |-> [attachedVolumes |-> "Links.AttachedVolumes", batteries |-> "Links.Batteries",
             endpoints |-> "Links.Endpoints", nvmeDiscoveredSubsystems |-> "Links.NVMeDiscoveredSubsystems",
             networkDeviceFunctions |-> "Links.NetworkDeviceFunctions", pcieFunctions |-> "Links.PCIeFunctions",
             storageServices |-> "Links.StorageServices"],
   count |-> [AttachedVolumesCount |-> "Links.AttachedVolumes", BatteriesCount |-> "Links.Batteries",
              EndpointsCount |-> "Links.Endpoints",
              NVMeDiscoveredSubsystemsCount |-> "Links.NVMeDiscoveredSubsystems",
              NetworkDeviceFunctionsCount |-> "Links.NetworkDeviceFunctions",
              PCIeFunctionsCount |-> "Links.PCIeFunctions", StorageServicesCount |-> "Links.StorageServices"],
   keeps |-> TRUE]

StorageControllerFromAssembly ==
  [Assembly |-> GetIf("assembly", "Assembly"), Certificates |-> Members("certificates", "Certificate"),
   EnvironmentMetrics |-> GetIf("environmentMetrics", "EnvironmentMetrics"),
   Metrics |-> GetIf("metrics", "StorageControllerMetrics"), Ports |-> Members("ports", "Port"),
   Batteries |-> Objects("batteries", "Battery"), Endpoints |-> Objects("endpoints", "Endpoint"),
   NVMeDiscoveredSubsystems |-> Objects("nvmeDiscoveredSubsystems", "Storage"),
   NetworkDeviceFunctions |-> Objects("networkDeviceFunctions", "NetworkDeviceFunction"),
   PCIeFunctions |-> Objects("pcieFunctions", "PCIeFunction"), Update |-> Patch({"AssetTag"})]

\* Drive (redfish/drive.go)
DriveFields ==
  [fields |-> {"AssetTag", "BlockSizeBytes", "CapableSpeedGbs", "CapacityBytes", "Description",
               "DriveFormFactor", "EncryptionAbility", "EncryptionStatus", "FailurePredicted", "FirmwareVersion",
               "HotspareReplacementMode", "HotspareType", "Identifiers", "IndicatorLED", "Location",
               "LocationIndicatorActive", "Manufacturer", "MediaType", "Metrics", "Model", "Multipath",
               "NegotiatedSpeedGbs", "Operations", "PartNumber", "PhysicalLocation",
               "PredictedMediaLifeLeftPercent", "Protocol", "ReadyToRemove", "Revision", "RotationSpeedRPM",
               "SKU", "SerialNumber", "SlotCapableProtocols", "SlotFormFactor", "Status", "StatusIndicator",
               "WriteCacheEnabled", "Oem", "EndpointsCount", "NetworkDeviceFunctionsCount", "VolumesCount",
               "PCIeFunctionCount", "SoftwareImagesCount", "StoragePoolsCount"},
   counts |-> {"EndpointsCount", "NetworkDeviceFunctionsCount", "VolumesCount", "PCIeFunctionCount",
               "SoftwareImagesCount", "StoragePoolsCount"}]

DriveDecode ==
  [one |-> [assembly |-> "Assembly", environmentMetrics |-> "EnvironmentMetrics",
            activeSoftwareImage |-> "Links.ActiveSoftwareImage", chassis |-> "Links.Chassis",
            storage |-> "Links.Storage"],
   many |-> [endpoints |-> "Links.Endpoints", networkDeviceFunctions |-> "Links.NetworkDeviceFunctions",
             pcieFunctions |-> "Links.PCIeFunctions", softwareImages |-> "Links.SoftwareImages",
             storagePools |-> "Links.StoragePools", volumes |-> "Links.Volumes"],
   target |-> [secureEraseTarget |-> "#SecureErase"],
   count |-> [EndpointsCount |-> "Endpoints", NetworkDeviceFunctionsCount |-> "Links.NetworkDeviceFunctions",
              PCIeFunctionCount |-> "Links.PCIeFunctions", SoftwareImagesCount |-> "Links.SoftwareImages",
              StoragePoolsCount |-> "Links.StoragePools", VolumesCount |-> "Links.Volumes"],
   keeps |-> TRUE]

DriveFromUpdate ==
  [Update |-> Patch({"AssetTag", "HotspareReplacementMode", "HotspareType", "LocationIndicatorActive",
                     "ReadyToRemove", "StatusIndicator", "WriteCacheEnabled", "IndicatorLED"}),
   Assembly |-> GetIf("assembly", "Assembly"), Chassis |-> GetIf("chassis", "Chassis"),
   Endpoints |-> Objects("endpoints", "Endpoint"),
   EnvironmentMetrics |-> GetIf("environmentMetrics", "EnvironmentMetrics"),
   Volumes |-> Objects("volumes", "Volume"), PCIeFunctions |-> Objects("pcieFunctions", "PCIeFunction"),
   SecureErase |-> Post("secureEraseTarget")]

\* Volume of Swordfish (swordfish/volume.go)
SwordfishVolumeFields ==
  [fields |-> {"ALUA", "AccessCapabilities", "BlockSizeBytes", "Capacity", "CapacityBytes",
               "CapacitySourcesCount", "Compressed", "ConnectionsCount", "Deduplicated", "Description",
               "DisplayName", "Encrypted", "EncryptionTypes", "IOPerfModeEnabled", "Identifiers",
               "InitializeMethod", "IsBootCapable", "LogicalUnitNumber", "LowSpaceWarningThresholdPercents",
               "Manufacturer", "MaxBlockSizeBytes", "MediaSpanCount", "Model", "NVMeNamespaceProperties", "Oem",
               "Operations", "OptimumIOSizeBytes", "ProvisioningPolicy", "RAIDType", "ReadCachePolicy",
               "RecoverableCapacitySourceCount", "RemainingCapacityPercent", "RemoteReplicaTargets",
               "ReplicaInfo", "ReplicaTargetsCount", "ReplicationEnabled", "Status", "StripSizeBytes",
               "VolumeUsage", "WriteCachePolicy", "WriteCacheState", "WriteHoleProtectionPolicy",
               "CacheDataVolumesCount", "ClientEndpointsCount", "ConsistencyGroupsCount", "ControllersCount",
               "DedicatedSpareDrivesCount", "DrivesCount", "ServerEndpointsCount", "SpareResourceSetsCount",
               "StorageGroupsCount"},
   counts |-> {"CapacitySourcesCount", "ConnectionsCount", "ReplicaTargetsCount", "CacheDataVolumesCount",
               "ClientEndpointsCount", "ConsistencyGroupsCount", "ControllersCount", "DedicatedSpareDrivesCount",
               "DrivesCount", "ServerEndpointsCount", "SpareResourceSetsCount", "StorageGroupsCount"}]

SwordfishVolumeDecode ==
  [one |-> [metrics |-> "Metrics", cacheVolumeSource |-> "Links.CacheVolumeSource",
            classOfService |-> "Links.ClassOfService", journalingMedia |-> "Links.JournalingMedia",
            owningStorageResource |-> "Links.OwningStorageResource",
            owningStorageService |-> "Links.OwningStorageService",
            providingStoragePool |-> "Links.ProvidingStoragePool"],
   many |-> [allocatedPools |-> "AllocatedPools", capacitySources |-> "CapacitySources",
             connections |-> "Connections", replicaTargets |-> "ReplicaTargets",
             storageGroups |-> "Links.StorageGroups", cacheDataVolumes |-> "Links.CacheDataVolumes",
             clientEndpoints |-> "Links.ClientEndpoints", consistencyGroups |-> "Links.ConsistencyGroups",
             controllers |-> "Links.Controllers", dedicatedSpareDrives |-> "Links.DedicatedSpareDrives",
             drives |-> "Links.Drives", serverEndpoints |-> "Links.ServerEndpoints",
             spareResourceSets |-> "Links.SpareResourceSets"],
   target |-> [assignReplicaTargetTarget |-> "#AssignReplicaTarget",
               checkConsistencyTarget |-> "#CheckConsistency",
               createReplicaTargetTarget |-> "#CreateReplicaTarget", initializeTarget |-> "#Initialize",
               removeReplicaRelationshipTarget |-> "#RemoveReplicaRelationship",
               resumeReplicationTarget |-> "#ResumeReplication",
               reverseReplicationRelationshipTarget |-> "#ReverseReplicationRelationship",
               splitReplicationTarget |-> "#SplitReplication",
               suspendReplicationTarget |-> "#SuspendReplication"],
   count |-> [CacheDataVolumesCount |-> "Links.CacheDataVolumes",
              ClientEndpointsCount |-> "Links.ClientEndpoints",
              ConsistencyGroupsCount |-> "Links.ConsistencyGroups", ControllersCount |-> "Links.Controllers",
              DedicatedSpareDrivesCount |-> "Links.DedicatedSpareDrives", DrivesCount |-> "Links.Drives",
              ServerEndpointsCount |-> "Links.ServerEndpoints",
              SpareResourceSetsCount |-> "Links.SpareResourceSets", StorageGroupsCount |-> "Links.StorageGroups",
              CapacitySourcesCount |-> "CapacitySources", ConnectionsCount |-> "Connections",
              ReplicaTargetsCount |-> "ReplicaTargets"],
   keeps |-> TRUE]

SwordfishVolumeFromUpdate ==
  [Update |-> Patch({"AccessCapabilities", "CapacityBytes", "CapacitySources", "Compressed", "Deduplicated",
                     "DisplayName", "Encrypted", "EncryptionTypes", "IOPerfModeEnabled", "IsBootCapable",
                     "LowSpaceWarningThresholdPercents", "ProvisioningPolicy", "ReadCachePolicy",
                     "RecoverableCapacitySourceCount", "ReplicationEnabled", "StripSizeBytes",
                     "WriteCachePolicy", "WriteHoleProtectionPolicy"}),
   CacheDataVolumes |-> Objects("cacheDataVolumes", "SwordfishVolume"),
   CacheVolumeSource |-> GetIf("cacheVolumeSource", "SwordfishVolume"),
   ClassOfService |-> GetIf("classOfService", "ClassOfService"),
   ClientEndpoints |-> Objects("clientEndpoints", "Endpoint"),
   ConsistencyGroups |-> Objects("consistencyGroups", "ConsistencyGroup"),
   Controllers |-> Objects("controllers", "StorageController")]

SwordfishVolumeFromDedicatedSpareDrives ==
  [DedicatedSpareDrives |-> Objects("dedicatedSpareDrives", "Drive"), Drives |-> Objects("drives", "Drive"),
   OwningStorageResource |-> GetIf("owningStorageResource", "Storage"),
   OwningStorageService |-> GetIf("owningStorageService", "StorageService"),
   ProvidingStoragePool |-> GetIf("providingStoragePool", "StoragePool"),
   ServerEndpoints |-> Objects("serverEndpoints", "Endpoint"),
   SpareResourceSets |-> Objects("spareResourceSets", "SpareResourceSet"),
   StorageGroups |-> Objects("storageGroups", "StorageGroup"),
   AllocatedPools |-> Objects("allocatedPools", "StoragePool"),
   CapacitySources |-> Objects("capacitySources", "CapacitySource"),
   Connections |-> Objects("connections", "Connection"), Metrics |-> GetIf("metrics", "VolumeMetrics")]

SwordfishVolumeFromAssignReplicaTarget ==
  [AssignReplicaTarget |-> Post("assignReplicaTargetTarget"),
   CheckConsistency |-> Post("checkConsistencyTarget"), Initialize |-> Post("initializeTarget"),
   RemoveReplicaRelationship |-> Post("removeReplicaRelationshipTarget"),
   ResumeReplication |-> Post("resumeReplicationTarget"),
   ReverseReplicationRelationship |-> Post("reverseReplicationRelationshipTarget")]

SwordfishVolumeFromSplitReplication ==
  [SplitReplication |-> Post("splitReplicationTarget"), SuspendReplication |-> Post("suspendReplicationTarget")]

\* Volume (redfish/volume.go)
VolumeFields ==
  [fields |-> {"AccessCapabilities", "AllocatedPools", "BlockSizeBytes", "Capacity", "CapacityBytes",
               "CapacitySources", "CapacitySourcesCount", "Compressed", "Connections", "ConnectionsCount",
               "Deduplicated", "Description", "DisplayName", "Encrypted", "EncryptionTypes", "IOPerfModeEnabled",
               "IOStatistics", "Identifiers", "InitializeMethod", "IsBootCapable", "LogicalUnitNumber",
               "LowSpaceWarningThresholdPercents", "Manufacturer", "MaxBlockSizeBytes", "MediaSpanCount",
               "Metrics", "Model", "NVMeNamespaceProperties", "Oem", "Operations", "OptimumIOSizeBytes",
               "ProvisioningPolicy", "RAIDType", "ReadCachePolicy", "RecoverableCapacitySourceCount",
               "RemainingCapacityPercent", "RemoteReplicaTargets", "ReplicaInfo", "ReplicaTargets",
               "ReplicaTargetsCount", "ReplicationEnabled", "Status", "StripSizeBytes", "VolumeUsage",
               "WriteCachePolicy", "WriteCacheState", "WriteHoleProtectionPolicy", "VolumeType",
               "CacheDataVolumesCount", "ClientEndpointsCount", "ConsistencyGroupsCount", "ControllersCount",
               "DedicatedSpareDrivesCount", "DrivesCount", "JournalingMedia", "ServerEndpointsCount",
               "SpareResourceSetsCount", "StorageGroupsCount"},
   counts |-> {"CapacitySourcesCount", "ConnectionsCount", "ReplicaTargetsCount", "CacheDataVolumesCount",
               "ClientEndpointsCount", "ConsistencyGroupsCount", "ControllersCount", "DedicatedSpareDrivesCount",
               "DrivesCount", "ServerEndpointsCount", "SpareResourceSetsCount", "StorageGroupsCount"}]

VolumeDecode ==
  [one |-> [cacheVolumeSource |-> "Links.CacheVolumeSource", classOfService |-> "Links.ClassOfService",
            JournalingMedia |-> "Links.JournalingMedia", owningStorageResource |-> "Links.OwningStorageResource",
            owningStorageService |-> "Links.OwningStorageService"],
   many |-> [cacheDataVolumes |-> "Links.CacheDataVolumes", clientEndpoints |-> "Links.ClientEndpoints",
             consistencyGroups |-> "Links.ConsistencyGroups", controllers |-> "Links.Controllers",
             dedicatedSpareDrives |-> "Links.DedicatedSpareDrives", drives |-> "Links.Drives",
             serverEndpoints |-> "Links.ServerEndpoints", spareResourceSets |-> "Links.SpareResourceSets",
             storageGroups |-> "Links.StorageGroups"],
   target |-> [assignReplicaTargetTarget |-> "#AssignReplicaTarget",
               changeRAIDLayoutTarget |-> "#ChangeRAIDLayout", checkConsistencyTarget |-> "#CheckConsistency",
               createReplicaTargetTarget |-> "#CreateReplicaTarget", forceEnableTarget |-> "#ForceEnable",
               initializeTarget |-> "#Initialize",
               removeReplicaRelationshipTarget |-> "#RemoveReplicaRelationship",
               resumeReplicationTarget |-> "#ResumeReplication",
               reverseReplicationRelationshipTarget |-> "#ReverseReplicationRelationship",
               splitReplicationTarget |-> "#SplitReplication",
               suspendReplicationTarget |-> "#SuspendReplication"],
   count |-> [CacheDataVolumesCount |-> "Links.CacheDataVolumes",
              ClientEndpointsCount |-> "Links.ClientEndpoints",
              ConsistencyGroupsCount |-> "Links.ConsistencyGroups", ControllersCount |-> "Links.Controllers",
              DedicatedSpareDrivesCount |-> "Links.DedicatedSpareDrives", DrivesCount |-> "Links.Drives",
              ServerEndpointsCount |-> "Links.ServerEndpoints",
              SpareResourceSetsCount |-> "Links.SpareResourceSets", StorageGroupsCount |-> "Links.StorageGroups",
              CapacitySourcesCount |-> "CapacitySources", ConnectionsCount |-> "Connections",
              ReplicaTargetsCount |-> "ReplicaTargets"],
   keeps |-> TRUE]

VolumeFromAssignReplicaTarget ==
  [AssignReplicaTarget |-> Post("assignReplicaTargetTarget"),
   ChangeRAIDLayout |-> Post("changeRAIDLayoutTarget"), CheckConsistency |-> Post("checkConsistencyTarget"),
   CreateReplicaTarget |-> Post("createReplicaTargetTarget")]

VolumeFromForceEnable ==
  [ForceEnable |-> Post("forceEnableTarget"), Initialize |-> Post("initializeTarget"),
   RemoveReplicaRelationship |-> Post("removeReplicaRelationshipTarget"),
   ResumeReplication |-> Post("resumeReplicationTarget"),
   ReverseReplicationRelationship |-> Post("reverseReplicationRelationshipTarget")]

VolumeFromSplitReplication ==
  [SplitReplication |-> Post("splitReplicationTarget"), SuspendReplication |-> Post("suspendReplicationTarget"),
   CacheDataVolumes |-> Objects("cacheDataVolumes", "Volume"),
   CacheVolumeSource |-> GetIf("cacheVolumeSource", "Volume"),
   ClientEndpoints |-> Objects("clientEndpoints", "Endpoint"),
   Controllers |-> Objects("controllers", "StorageController"),
   DedicatedSpareDrives |-> Objects("dedicatedSpareDrives", "Drive"), Drives |-> Objects("drives", "Drive"),
   OwningStorageResource |-> GetIf("owningStorageResource", "Storage")]

VolumeFromServerEndpoints ==
  [ServerEndpoints |-> Objects("serverEndpoints", "Endpoint"),
   Update |-> Patch({"AccessCapabilities", "CapacityBytes", "CapacitySources", "Compressed", "Deduplicated",
                     "DisplayName", "Encrypted", "EncryptionTypes", "IOPerfModeEnabled", "IsBootCapable",
                     "LowSpaceWarningThresholdPercents", "ProvisioningPolicy", "ReadCachePolicy",
                     "RecoverableCapacitySourceCount", "ReplicationEnabled", "StripSizeBytes",
                     "WriteCachePolicy", "WriteHoleProtectionPolicy"})]

\* StoragePool (swordfish/storagepool.go)
StoragePoolFields ==
  [fields |-> {"Capacity", "CapacitySourcesCount", "Compressed", "CompressionEnabled", "Deduplicated",
               "DeduplicationEnabled", "DefaultCompressionBehavior", "DefaultDeduplicationBehavior",
               "DefaultEncryptionBehavior", "Description", "EncryptionEnabled", "Encrypted", "IOStatistics",
               "Identifier", "LowSpaceWarningThresholdPercents", "MaxBlockSizeBytes",
               "NVMeEnduranceGroupProperties", "NVMeProperties", "NVMeSetProperties", "Oem",
               "RecoverableCapacitySourceCount", "RemainingCapacityPercent", "ReplicationEnabled", "Status",
               "SupportedPoolTypes", "SupportedProvisioningPolicies", "SupportedRAIDTypes",
               "DedicatedSpareDrivesCount", "SpareResourceSetsCount"},
   counts |-> {"CapacitySourcesCount", "DedicatedSpareDrivesCount", "SpareResourceSetsCount"}]

StoragePoolDecode ==
  [one |-> [owningStorageResource |-> "Links.OwningStorageResource", allocatedPools |-> "AllocatedPools",
            allocatedVolumes |-> "AllocatedVolumes", classesOfService |-> "ClassesOfService",
            defaultClassOfService |-> "DefaultClassOfService", metrics |-> "Metrics"],
   many |-> [dedicatedSpareDrives |-> "Links.DedicatedSpareDrives",
             spareResourceSets |-> "Links.SpareResourceSets", capacitySources |-> "CapacitySource"],
   target |-> [addDrivesTarget |-> "#AddDrives", removeDrivesTarget |-> "#RemoveDrives",
               setCompressionStateTarget |-> "#SetCompressionState",
               setDeduplicationStateTarget |-> "#SetDeduplicationState",
               setEncryptionStateTarget |-> "#SetEncryptionState"],
   count |-> [DedicatedSpareDrivesCount |-> "Links.DedicatedSpareDrives",
              SpareResourceSetsCount |-> "Links.SpareResourceSets", CapacitySourcesCount |-> "CapacitySources"],
   keeps |-> TRUE]

StoragePoolFromUpdate ==
  [Update |-> Patch({"CapacitySources", "ClassesOfService", "Compressed", "Deduplicated",
                     "DefaultClassOfService", "Encrypted", "LowSpaceWarningThresholdPercents",
                     "RecoverableCapacitySourceCount", "SupportedProvisioningPolicies"}),
   DedicatedSpareDrives |-> Objects("dedicatedSpareDrives", "Drive"),
   SpareResourceSets |-> Objects("spareResourceSets", "SpareResourceSet"),
   AllocatedPools |-> Members("allocatedPools", "StoragePool"),
   AllocatedVolumes |-> Members("allocatedVolumes", "SwordfishVolume"),
   CapacitySources |-> Objects("capacitySources", "CapacitySource"),
   ClassesOfService |-> Members("classesOfService", "ClassOfService"),
   DefaultClassOfService |-> GetIf("defaultClassOfService", "ClassOfService"),
   OwningStorageResource |-> GetIf("owningStorageResource", "Storage")]

StoragePoolFromMetrics ==
  [Metrics |-> GetIf("metrics", "StoragePoolMetrics"), AddDrives |-> Post("addDrivesTarget"),
   RemoveDrives |-> Post("removeDrivesTarget"), SetCompressionState |-> Post("setCompressionStateTarget"),
   SetDeduplicationState |-> Post("setCompressionStateTarget"),
   SetEncryptionState |-> Post("setEncryptionStateTarget")]

\* StorageService (swordfish/storageservice.go)
StorageServiceFields ==
  [fields |-> {"Description", "Identifier", "RedundancyCount", "SpareResourceSetsCount", "Status",
               "IOStatistics", "LinesOfServiceCount", "Oem"},
   counts |-> {"RedundancyCount", "SpareResourceSetsCount", "LinesOfServiceCount"}]

StorageServiceDecode ==
  [one |-> [classesOfService |-> "ClassesOfService",
            dataProtectionLoSCapabilities |-> "DataProtectionLoSCapabilities",
            dataSecurityLoSCapabilities |-> "DataSecurityLoSCapabilities",
            dataStorageLoSCapabilities |-> "DataStorageLoSCapabilities",
            defaultClassOfService |-> "DefaultClassOfService", drives |-> "Drives",
            endpointGroups |-> "EndpointGroups", endpoints |-> "Endpoints", fileSystems |-> "FileSystems",
            ioConnectivityLoSCapabilities |-> "IOConnectivityLoSCapabilities",
            ioPerformanceLoSCapabilities |-> "IOPerformanceLoSCapabilities", metrics |-> "Metrics",
            storageGroups |-> "StorageGroups", storagePools |-> "StoragePools",
            storageSubsystems |-> "StorageSubsystems", volumes |-> "Volumes",
            hostingSystem |-> "Links.HostingSystem"],
   many |-> [redundancy |-> "Redundancy", linesOfService |-> "LinesOfService",
             spareResourceSets |-> "SpareResourceSets"],
   target |-> [setEncryptionKeyTarget |-> "#SetEncryptionKey"],
   count |-> [RedundancyCount |-> "Redundancy", SpareResourceSetsCount |-> "SpareResourceSets",
              LinesOfServiceCount |-> "LinesOfService"],
   keeps |-> TRUE]

StorageServiceFromUpdate ==
  [Update |-> Patch({"ClassesOfService", "ConsistencyGroups", "DataProtectionLoSCapabilities",
                     "DataSecurityLoSCapabilities", "DataStorageLoSCapabilities", "DefaultClassOfService",
                     "EndpointGroups", "FileSystems", "IOConnectivityLoSCapabilities",
                     "IOPerformanceLoSCapabilities", "LinesOfService", "SpareResourceSets", "Volumes"}),
   ClassesOfService |-> Members("classesOfService", "ClassOfService"),
   DataProtectionLoSCapabilities |-> GetIf("dataProtectionLoSCapabilities", "DataProtectionLoSCapabilities"),
   DataSecurityLoSCapabilities |-> GetIf("dataSecurityLoSCapabilities", "DataSecurityLoSCapabilities"),
   DataStorageLoSCapabilities |-> GetIf("dataStorageLoSCapabilities", "DataStorageLoSCapabilities"),
   DefaultClassOfService |-> GetIf("defaultClassOfService", "ClassOfService"),
   Drives |-> Members("drives", "Drive"), EndpointGroups |-> Members("endpointGroups", "SwordfishEndpointGroup")]

StorageServiceFromEndpoints ==
  [Endpoints |-> Members("endpoints", "Endpoint"), FileSystems |-> Members("fileSystems", "FileSystem"),
   IOConnectivityLoSCapabilities |-> GetIf("ioConnectivityLoSCapabilities", "IOConnectivityLoSCapabilities"),
   IOPerformanceLoSCapabilities |-> GetWhen("ioConnectivityLoSCapabilities", "ioPerformanceLoSCapabilities",
       "IOPerformanceLoSCapabilities"),
   Redundancy |-> Objects("redundancy", "Redundancy"),
   LinesOfService |-> Objects("linesOfService", "LineOfService"),
   SpareResourceSets |-> Objects("spareResourceSets", "SpareResourceSet"),
   StorageGroups |-> Members("storageGroups", "StorageGroup"), Volumes |-> Members("volumes", "SwordfishVolume"),
   SetEncryptionKey |-> Post("setEncryptionKeyTarget"), Metrics |-> GetIf("metrics", "StorageServiceMetrics")]

\* ConsistencyGroup (swordfish/consistencygroup.go)
ConsistencyGroupDocument ==
  [fields |-> {"ConsistencyMethod", "ConsistencyType", "Description", "IsConsistent", "Oem",
               "RemoteReplicaTargets", "ReplicaInfo", "ReplicaTargets", "ReplicaTargetsCount", "Status",
               "VolumesCount"},
   counts |-> {"ReplicaTargetsCount", "VolumesCount"}, many |-> [volumes |-> "Volumes"],
   target |-> [assignReplicaTargetTarget |-> "#AssignReplicaTarget",
               createReplicaTargetTarget |-> "#CreateReplicaTarget",
               removeReplicaRelationshipTarget |-> "#RemoveReplicaRelationship",
               resumeReplicationTarget |-> "#ResumeReplication",
               reverseReplicationRelationshipTarget |-> "#ReverseReplicationRelationship",
               splitReplicationTarget |-> "#SplitReplication",
               suspendReplicationTarget |-> "#SuspendReplication"],
   count |-> [ReplicaTargetsCount |-> "ReplicaTargets", VolumesCount |-> "Volumes"], keeps |-> TRUE]

ConsistencyGroupFromAssignReplicaTarget ==
  [AssignReplicaTarget |-> Post("assignReplicaTargetTarget"),
   CreateReplicaTarget |-> Post("createReplicaTargetTarget"),
   RemoveReplicaRelationship |-> Post("removeReplicaRelationshipTarget"),
   ResumeReplication |-> Post("resumeReplicationTarget")]

ConsistencyGroupFromReverseReplicationRelationship ==
  [ReverseReplicationRelationship |-> Post("reverseReplicationRelationshipTarget"),
   SplitReplication |-> Post("splitReplicationTarget"), SuspendReplication |-> Post("suspendReplicationTarget"),
   Volumes |-> Objects("volumes", "SwordfishVolume"),
   Update |-> Patch({"ConsistencyMethod", "ConsistencyType", "Volumes"})]

\* StorageGroup (swordfish/storagegroup.go)
StorageGroupDocument ==
  [fields |-> {"AccessState", "AuthenticationMethod", "ChapInfo", "ClientEndpointGroups",
               "ClientEndpointGroupsCount", "Description", "Identifier", "MappedVolumes", "MembersAreConsistent",
               "ReplicaInfo", "ReplicaTargetsCount", "ServerEndpointGroupsCount", "Status", "VolumesCount",
               "VolumesAreExposed", "ChildStorageGroupsCount", "ParentStorageGroupsCount"},
   counts |-> {"ClientEndpointGroupsCount", "ReplicaTargetsCount", "ServerEndpointGroupsCount", "VolumesCount",
               "ChildStorageGroupsCount", "ParentStorageGroupsCount"},
   one |-> [classOfService |-> "Links.ClassOfService"],
   many |-> [childStorageGroups |-> "Links.ChildStorageGroups",
             parentStorageGroups |-> "Links.ParentStorageGroups"],
   target |-> [exposeVolumesTarget |-> "#ExposeVolumes", hideVolumesTarget |-> "#HideVolumes"],
   count |-> [ChildStorageGroupsCount |-> "Links.ChildStorageGroups",
              ParentStorageGroupsCount |-> "Links.ParentStorageGroups",
              ClientEndpointGroupsCount |-> "ClientEndpointGroups", ReplicaTargetsCount |-> "ReplicaTargets",
              ServerEndpointGroupsCount |-> "ServerEndpointGroups", VolumesCount |-> "Volumes"],
   keeps |-> TRUE]

StorageGroupFromUpdate ==
  [Update |-> Patch({"AccessState", "AuthenticationMethod", "ClientEndpointGroups", "ServerEndpointGroups",
                     "VolumesAreExposed"}),
   ChildStorageGroups |-> Objects("childStorageGroups", "StorageGroup"),
   ParentStorageGroups |-> Objects("parentStorageGroups", "StorageGroup"),
   ClassOfService |-> GetIf("classOfService", "ClassOfService")]

StorageGroupFromExposeVolumes ==
  [ExposeVolumes |-> PostAndSet("exposeVolumesTarget", "VolumesAreExposed"),
   HideVolumes |-> PostAndSet("hideVolumesTarget", "VolumesAreExposed")]

\* FileSystem (swordfish/filesystem.go)
FileSystemDocument ==
  [fields |-> {"AccessCapabilities", "BlockSizeBytes", "Capacity", "CapacitySources", "CapacitySourcesCount",
               "CasePreserved", "CaseSensitive", "CharacterCodeSet", "ClusterSizeBytes", "Description",
               "Identifiers", "IOStatistics", "LowSpaceWarningThresholdPercents", "MaxFileNameLengthBytes",
               "RecoverableCapacitySourceCount", "RemainingCapacityPercent", "ReplicaInfo",
               "ReplicaTargetsCount", "ReplicaCollectionCount", "SpareResourceSetsCount"},
   counts |-> {"CapacitySourcesCount", "ReplicaTargetsCount", "ReplicaCollectionCount", "SpareResourceSetsCount"},
   one |-> [exportedShares |-> "ExportedShares", classOfService |-> "Links.ClassOfService"],
   many |-> [replicaTargets |-> "ReplicaTargets", spareResourceSets |-> "Links.SpareResourceSets"],
   count |-> [ReplicaCollectionCount |-> "Links.ReplicaCollection",
              SpareResourceSetsCount |-> "Links.SpareResourceSets", CapacitySourcesCount |-> "CapacitySources",
              ReplicaTargetsCount |-> "ReplicaTargets"],
   keeps |-> TRUE]

FileSystemFromMetrics ==
  [Metrics |-> GetIf("metrics", "FileSystemMetrics"),
   Update |-> Patch({"AccessCapabilities", "CapacitySources", "CasePreserved", "CaseSensitive",
                     "CharacterCodeSet", "ClusterSizeBytes", "ExportedShares",
                     "LowSpaceWarningThresholdPercents", "MaxFileNameLengthBytes",
                     "RecoverableCapacitySourceCount", "ReplicationEnabled"}),
   ExportedShares |-> Members("exportedShares", "FileShare"),
   ClassOfService |-> GetIf("classOfService", "ClassOfService"),
   SpareResourceSets |-> Objects("spareResourceSets", "SpareResourceSet")]

\* FileShare (swordfish/fileshare.go)
FileShareDocument ==
  [fields |-> {"CASupported", "DefaultAccessCapabilities", "Description", "ExecuteSupport", "FileSharePath",
               "FileShareQuotaType", "FileShareRemainingQuotaBytes", "FileShareTotalQuotaBytes",
               "FileSharingProtocols", "LowSpaceWarningThresholdPercents", "RemainingCapacityPercent",
               "ReplicationEnabled", "RootAccess", "Status", "WritePolicy"},
   one |-> [classOfService |-> "Links.ClassOfService", fileSystem |-> "Links.FileSystem",
            ethernetInterfaces |-> "EthernetInterfaces"],
   keeps |-> TRUE]

FileShareFromUpdate ==
  [Update |-> Patch({"CASupported", "FileShareQuotaType", "FileShareTotalQuotaBytes",
                     "LowSpaceWarningThresholdPercents", "ReplicationEnabled"}),
   ClassOfService |-> GetIf("classOfService", "ClassOfService"),
   FileSystem |-> GetIf("fileSystem", "FileSystem"),
   EthernetInterfaces |-> Members("ethernetInterfaces", "EthernetInterface")]

\* SpareResourceSet (swordfish/spareresourceset.go)
SpareResourceSet ==
  Resource(
    [fields |-> {"Description", "OnHandLocation", "OnLine", "ResourceType", "TimeToProvision", "TimeToReplenish",
                 "OnHandSparesCount", "ReplacementSpareSetsCount"},
     counts |-> {"OnHandSparesCount", "ReplacementSpareSetsCount"},
     one |-> [replacementSpareSets |-> "Links.ReplacementSpareSets"],
     many |-> [onHandSpares |-> "Links.OnHandSpares"],
     count |-> [OnHandSparesCount |-> "OnHandSpares", ReplacementSpareSetsCount |-> "ReplacementSpareSets"],
     keeps |-> TRUE],
    [Update |-> Patch({"OnLine", "ResourceType", "TimeToProvision", "TimeToReplenish"}),
     ReplacementSpareSets |-> Members("replacementSpareSets", "SpareResourceSet")])

\* ClassOfService (swordfish/classofservice.go)
ClassOfServiceDocument ==
  [fields |-> {"ClassOfServiceVersion", "DataProtectionLinesOfServiceCount", "DataSecurityLinesOfServiceCount",
               "DataStorageLinesOfServiceCount", "Description", "IOConnectivityLinesOfServiceCount",
               "IOPerformanceLinesOfServiceCount", "Identifier"},
   counts |-> {"DataProtectionLinesOfServiceCount", "DataSecurityLinesOfServiceCount",
               "DataStorageLinesOfServiceCount", "IOConnectivityLinesOfServiceCount",
               "IOPerformanceLinesOfServiceCount"},
   many |-> [dataProtectionLinesOfService |-> "DataProtectionLinesOfService",
             dataSecurityLinesOfService |-> "DataSecurityLinesOfService",
             dataStorageLinesOfService |-> "DataStorageLinesOfService",
             ioConnectivityLinesOfService |-> "IOConnectivityLinesOfService",
             ioPerformanceLinesOfService |-> "IOPerformanceLinesOfService"],
   count |-> [DataProtectionLinesOfServiceCount |-> "DataProtectionLinesOfService",
              DataSecurityLinesOfServiceCount |-> "DataSecurityLinesOfService",
              DataStorageLinesOfServiceCount |-> "DataStorageLinesOfService",
              IOConnectivityLinesOfServiceCount |-> "IOConnectivityLinesOfService",
              IOPerformanceLinesOfServiceCount |-> "IOPerformanceLinesOfService"]]

ClassOfServiceFromDataProtectionLinesOfServices ==
  [DataProtectionLinesOfServices |-> Objects("dataProtectionLinesOfService", "DataProtectionLineOfService"),
   DataSecurityLinesOfServices |-> Objects("dataSecurityLinesOfService", "DataSecurityLineOfService"),
   DataStorageLinesOfServices |-> Objects("dataStorageLinesOfService", "DataStorageLineOfService"),
   IOConnectivityLinesOfServices |-> Objects("ioConnectivityLinesOfService", "IOConnectivityLineOfService"),
   IOPerformanceLinesOfServices |-> Objects("ioPerformanceLinesOfService", "IOPerformanceLineOfService")]

\* DataProtectionLoSCapabilities (swordfish/dataprotectionloscapabilities.go)
DataProtectionLoSCapabilitiesDocument ==
  [fields |-> {"Description", "Identifier", "SupportedLinesOfServiceCount", "SupportedMinLifetimes",
               "SupportedRecoveryGeographicObjectives", "SupportedRecoveryPointObjectiveTimes",
               "SupportedRecoveryTimeObjectives", "SupportedReplicaTypes", "SupportsIsolated",
               "SupportedReplicaOptionsCount"},
   counts |-> {"SupportedLinesOfServiceCount", "SupportedReplicaOptionsCount"},
   many |-> [supportedReplicaOptions |-> "Links.SupportedReplicaOptions",
             supportedLinesOfService |-> "SupportedLinesOfService"],
   count |-> [SupportedReplicaOptionsCount |-> "Links.SupportedReplicaOptions",
              SupportedLinesOfServiceCount |-> "SupportedLinesOfService"],
   keeps |-> TRUE]

DataProtectionLoSCapabilitiesFromUpdate ==
  [Update |-> Patch({"SupportedLinesOfService", "SupportedMinLifetimes", "SupportedRecoveryGeographicObjectives",
                     "SupportedRecoveryPointObjectiveTimes", "SupportedRecoveryTimeObjectives",
                     "SupportedReplicaTypes", "SupportsIsolated"}),
   SupportedReplicaOptions |-> Objects("supportedReplicaOptions", "ClassOfService"),
   SupportedLinesOfService |-> Objects("supportedLinesOfService", "DataProtectionLineOfService")]

\* CapacitySource (swordfish/capacity.go)
CapacitySource ==
  Resource(
    [fields |-> {"Description", "ProvidedCapacity"},
     one |-> [providedClassOfService |-> "ProvidedClassOfService", providingDrives |-> "ProvidingDrives",
              providingMemory |-> "ProvidingMemory", providingMemoryChunks |-> "ProvidingMemoryChunks",
              providingPools |-> "ProvidingPools", providingVolumes |-> "ProvidingVolumes"]],
    [ProvidedClassOfService |-> GetIf("providedClassOfService", "ClassOfService"),
     ProvidingDrives |-> Members("providingDrives", "Drive"),
     ProvidingMemory |-> Members("providingMemory", "Memory"),
     ProvidingPools |-> Members("providingPools", "StoragePool"),
     ProvidingVolumes |-> Members("providingVolumes", "SwordfishVolume")])

\* NVMeDomain (swordfish/nvmedomain.go)
NVMeDomain ==
  Resource(
    [fields |-> {"ANAGroupID", "AvailableFirmwareImages", "AvailableFirmwareImagesCount", "Description",
                 "DomainContents", "DomainMembersCount", "FirmwareImagesCount",
                 "MaxNamespacesSupportedPerController", "MaximumCapacityPerEnduranceGroupBytes", "Oem", "Status",
                 "TotalDomainCapacityBytes", "UnallocatedDomainCapacityBytes", "AssociatedDomainsCount"},
     counts |-> {"AvailableFirmwareImagesCount", "DomainMembersCount", "FirmwareImagesCount",
                 "AssociatedDomainsCount"},
     many |-> [domainMembers |-> "DomainMembers", firmwareImages |-> "FirmwareImages",
               associatedDomains |-> "Links.AssociatedDomains"],
     count |-> [AssociatedDomainsCount |-> "Links.AssociatedDomains",
                AvailableFirmwareImagesCount |-> "AvailableFirmwareImages", DomainMembersCount |-> "DomainMembers",
                FirmwareImagesCount |-> "FirmwareImages"],
     keeps |-> TRUE],
    [AssociatedDomains |-> Objects("associatedDomains", "NVMeDomain"), Update |-> Patch({"DomainMembers"})])

\* DataStorageLineOfService (swordfish/datastoragelineofservice.go)
DataStorageLineOfService ==
  Resource(
    [fields |-> {"AccessCapabilities", "Description", "IsSpaceEfficient", "Oem", "ProvisioningPolicy",
                 "RecoverableCapacitySourceCount", "RecoveryTimeObjectives"}],
    [Update |-> Patch({"AccessCapabilities", "IsSpaceEfficient", "ProvisioningPolicy",
                       "RecoverableCapacitySourceCount", "RecoveryTimeObjectives"})])

\* The types of this module by name.
StorageTypes ==
  [Storage |-> Resource(StorageFields @@ StorageDecode, StorageFromConnections @@ StorageFromSetEncryptionKey),
   StorageController |-> Resource(StorageControllerFields @@ StorageControllerDecode,
                                  StorageControllerFromAssembly),
   Drive |-> Resource(DriveFields @@ DriveDecode, DriveFromUpdate),
   SwordfishVolume |-> Resource(SwordfishVolumeFields @@ SwordfishVolumeDecode,
                                SwordfishVolumeFromUpdate @@ SwordfishVolumeFromDedicatedSpareDrives @@
                                SwordfishVolumeFromAssignReplicaTarget @@ SwordfishVolumeFromSplitReplication),
   Volume |-> Resource(VolumeFields @@ VolumeDecode,
                       VolumeFromAssignReplicaTarget @@ VolumeFromForceEnable @@ VolumeFromSplitReplication @@
                       VolumeFromServerEndpoints),
   StoragePool |-> Resource(StoragePoolFields @@ StoragePoolDecode,
                            StoragePoolFromUpdate @@ StoragePoolFromMetrics),
   StorageService |-> Resource(StorageServiceFields @@ StorageServiceDecode,
                               StorageServiceFromUpdate @@ StorageServiceFromEndpoints),
   ConsistencyGroup |-> Resource(ConsistencyGroupDocument,
                                 ConsistencyGroupFromAssignReplicaTarget @@
                                 ConsistencyGroupFromReverseReplicationRelationship),
   StorageGroup |-> Resource(StorageGroupDocument, StorageGroupFromUpdate @@ StorageGroupFromExposeVolumes),
   FileSystem |-> Resource(FileSystemDocument, FileSystemFromMetrics),
   FileShare |-> Resource(FileShareDocument, FileShareFromUpdate),
   SpareResourceSet |-> SpareResourceSet,
   ClassOfService |-> Resource(ClassOfServiceDocument, ClassOfServiceFromDataProtectionLinesOfServices),
   DataProtectionLoSCapabilities |-> Resource(DataProtectionLoSCapabilitiesDocument,
                                              DataProtectionLoSCapabilitiesFromUpdate),
   CapacitySource |-> CapacitySource,
   NVMeDomain |-> NVMeDomain,
   DataStorageLineOfService |-> DataStorageLineOfService]
==================================================================================
