------------------------------ MODULE ServiceTables ------------------------------
(* The types of the service root and the services it names, as ResourceTables writes them. *)
EXTENDS ResourceTables

\* Service (serviceroot.go)
ServiceFields ==
  [fields |-> {"AccountService", "AggregationService", "Cables", "CertificateService", "Chassis",
               "ComponentIntegrity", "CompositionService", "Description", "EventService", "Fabrics",
               "Facilities", "JobService", "JSONSchemas", "KeyService", "LicenseService", "Managers",
               "NVMeDomains", "Oem", "PowerEquipment", "Product", "ProtocolFeaturesSupported", "RedfishVersion",
               "RegisteredClients", "Registries", "ResourceBlocks", "ServiceConditions", "ServiceIdentification",
               "SessionService", "Storage", "StorageServices", "StorageSystems", "Systems", "Tasks",
               "TelemetryService", "ThermalEquipment", "UUID", "UpdateService", "Vendor", "Links"},
   open |-> {"AccountServiceLink", "AggregationServiceLink", "CablesLink", "CertificateServiceLink",
             "ChassisLink", "ComponentIntegrityLink", "CompositionServiceLink", "EventServiceLink",
             "FabricsLink", "FacilitiesLink", "JobServiceLink", "JSONSchemasLink", "KeyServiceLink",
             "LicenseServiceLink", "ManagersLink", "NvmeDomainsLink", "PowerEquipmentLink",
             "RegisteredClientsLink", "RegistriesLink", "ResourceBlocksLink", "ServiceConditionsLink",
             "SessionServiceLink", "StorageLink", "StorageServicesLink", "StorageSystemsLink", "SystemsLink",
             "TasksLink", "TelemetryServiceLink", "ThermalEquipmentLink", "UpdateServiceLink",
             "ManagerProvidingService", "Sessions"},
   one |-> [AccountServiceLink |-> "AccountService", AggregationServiceLink |-> "AggregationService",
            CablesLink |-> "Cables", CertificateServiceLink |-> "CertificateService", ChassisLink |-> "Chassis",
            ComponentIntegrityLink |-> "ComponentIntegrity", CompositionServiceLink |-> "CompositionService",
            EventServiceLink |-> "EventService", FabricsLink |-> "Fabrics", FacilitiesLink |-> "Facilities",
            JobServiceLink |-> "JobService", JSONSchemasLink |-> "JSONSchemas", KeyServiceLink |-> "KeyService",
            LicenseServiceLink |-> "LicenseService", ManagersLink |-> "Managers",
            NvmeDomainsLink |-> "NVMeDomains", PowerEquipmentLink |-> "PowerEquipment",
            RegisteredClientsLink |-> "RegisteredClients", RegistriesLink |-> "Registries",
            ResourceBlocksLink |-> "ResourceBlocks", ServiceConditionsLink |-> "ServiceConditions",
            SessionServiceLink |-> "SessionService", StorageLink |-> "Storage",
            StorageServicesLink |-> "StorageServices", StorageSystemsLink |-> "StorageSystems",
            SystemsLink |-> "Systems", TasksLink |-> "Tasks", TelemetryServiceLink |-> "TelemetryService",
            ThermalEquipmentLink |-> "ThermalEquipment", UpdateServiceLink |-> "UpdateService",
            ManagerProvidingService |-> "Links.ManagerProvidingService", Sessions |-> "Links.Sessions"]]

ServiceFromAccountService ==
  [AccountService |-> GetIf("AccountServiceLink", "AccountService"),
   AggregationService |-> GetIf("AggregationServiceLink", "AggregationService"),
   Cables |-> Members("CablesLink", "Cable"),
   CertificateService |-> GetIf("CertificateServiceLink", "CertificateService"),
   Chassis |-> Members("ChassisLink", "Chassis"),
   ComponentIntegrity |-> Members("ComponentIntegrityLink", "ComponentIntegrity"),
   CompositionService |-> GetIf("CompositionServiceLink", "CompositionService"),
   EventService |-> GetIf("EventServiceLink", "EventService"), Fabrics |-> Members("FabricsLink", "Fabric"),
   Facilities |-> Members("FacilitiesLink", "Facility"), JobService |-> GetIf("JobServiceLink", "JobService")]

ServiceFromKeyService ==
  [KeyService |-> GetIf("KeyServiceLink", "KeyService"),
   LicenseService |-> GetIf("LicenseServiceLink", "LicenseService"),
   Managers |-> Members("ManagersLink", "Manager"),
   RegisteredClients |-> Members("RegisteredClientsLink", "RegisteredClient"),
   Registries |-> Members("RegistriesLink", "MessageRegistryFile"),
   ResourceBlocks |-> Members("ResourceBlocksLink", "ResourceBlock"),
   ServiceConditions |-> GetIf("ServiceConditionsLink", "ServiceConditions"),
   SessionService |-> GetIf("SessionServiceLink", "SessionService"),
   Storage |-> Members("StorageLink", "Storage"),
   StorageServices |-> Members("StorageServicesLink", "StorageService")]

ServiceFromStorageSystems ==
  [StorageSystems |-> Members("StorageSystemsLink", "StorageSystem"),
   Tasks |-> GetIf("TasksLink", "TaskService"), TaskService |-> GetIf("TasksLink", "TaskService")]

ServiceFromManagerProvidingService ==
  [ManagerProvidingService |-> GetIf("ManagerProvidingService", "Manager"),
   PowerEquipment |-> GetIf("PowerEquipmentLink", "PowerEquipment"), Sessions |-> Members("Sessions", "Session")]

ServiceFromMessageRegistries ==
  [MessageRegistries |-> Members("RegistriesLink", "MessageRegistryFile")]

ServiceFromMessageRegistriesByLanguage ==
  [MessageRegistriesByLanguage |-> Members("RegistriesLink", "MessageRegistryFile"),
   MessageRegistryByLanguage |-> Members("RegistriesLink", "MessageRegistryFile"),
   MessageByLanguage |-> Members("RegistriesLink", "MessageRegistryFile"),
   Systems |-> Members("SystemsLink", "ComputerSystem"),
   TelemetryService |-> GetIf("TelemetryServiceLink", "TelemetryService"),
   ThermalEquipment |-> GetIf("ThermalEquipmentLink", "ThermalEquipment"),
   UpdateService |-> GetIf("UpdateServiceLink", "UpdateService")]

\* AccountService (redfish/accountservice.go)
AccountServiceFields ==
  [fields |-> {"AccountLockoutCounterResetAfter", "AccountLockoutCounterResetEnabled", "AccountLockoutDuration",
               "AccountLockoutThreshold", "ActiveDirectory", "AuthFailureLoggingThreshold", "Description",
               "HTTPBasicAuth", "LDAP", "LocalAccountAuth", "MaxPasswordLength", "MinPasswordLength",
               "MultiFactorAuth", "OAuth2", "PasswordExpirationDays", "RequireChangePasswordAction",
               "RestrictedOemPrivileges", "RestrictedPrivileges", "ServiceEnabled", "Status",
               "SupportedAccountTypes", "SupportedOEMAccountTypes", "TACACSplus"}]

AccountServiceDecode ==
  [one |-> [accounts |-> "Links.Accounts", roles |-> "Links.Roles",
            additionalExternalAccountProviders |-> "AdditionalExternalAccountProviders",
            outboundConnections |-> "OutboundConnections", privilegeMap |-> "PrivilegeMap"],
   keeps |-> TRUE]

AccountServiceFromAdditionalExternalAccountProviders ==
  [AdditionalExternalAccountProviders |-> Members("additionalExternalAccountProviders", "ExternalAccountProvider"),
   PrivilegeMap |-> GetIf("privilegeMap", "PrivilegeRegistry"),
   Update |-> Patch({"AccountLockoutCounterResetAfter", "AccountLockoutCounterResetEnabled",
                     "AccountLockoutDuration", "AccountLockoutThreshold", "AuthFailureLoggingThreshold",
                     "HTTPBasicAuth", "LocalAccountAuth", "RequireChangePasswordAction", "ServiceEnabled"}),
   Accounts |-> Members("accounts", "ManagerAccount"), Roles |-> Members("roles", "Role")]

\* ManagerAccount (redfish/manageraccount.go)
ManagerAccountDocument ==
  [fields |-> {"AccountExpiration", "AccountTypes", "Description", "EmailAddress", "Enabled",
               "HostBootstrapAccount", "Locked", "MFABypass", "OEMAccountTypes", "OEM",
               "OneTimePasscodeDeliveryAddress", "Password", "PasswordChangeRequired", "PasswordExpiration",
               "PhoneNumber", "RoleId", "SNMP", "StrictAccountTypes", "UserName"},
   one |-> [role |-> "Links.Role"], inline |-> [certificates |-> "Certificates", keys |-> "Keys"],
   target |-> [changePasswordTarget |-> "#ChangePassword"], keeps |-> TRUE]

ManagerAccountFromRole ==
  [Role |-> GetIf("role", "Role"), Certificates |-> Objects("certificates", "Certificate"),
   Keys |-> Objects("keys", "Key"), ChangePassword |-> Post("changePasswordTarget"),
   Update |-> Patch({"AccountExpiration", "AccountTypes", "EmailAddress", "Enabled", "Locked", "OEMAccountTypes",
                     "OneTimePasscodeDeliveryAddress", "Password", "PasswordChangeRequired",
                     "PasswordExpiration", "PhoneNumber", "RoleId", "StrictAccountTypes", "UserName"})]

\* EventService (redfish/eventservice.go)
EventServiceDocument ==
  [fields |-> {"DeliveryRetryAttempts", "DeliveryRetryIntervalSeconds", "Description", "EventFormatTypes",
               "EventTypesForSubscription", "ExcludeMessageID", "ExcludeRegistryPrefix",
               "IncludeOriginOfConditionSupported", "RegistryPrefixes", "ResourceTypes", "SMTP",
               "SSEFilterPropertiesSupported", "ServerSentEventUri", "ServiceEnabled", "Severities", "Status",
               "SubordinateResourcesSupported", "Subscriptions", "SubmitTestEventTarget"},
   one |-> [Subscriptions |-> "Subscriptions"],
   target |-> [SubmitTestEventTarget |-> "#SubmitTestEvent",
               testEventSubscriptionTarget |-> "#TestEventSubscription"],
   keeps |-> TRUE]

EventServiceFromUpdate ==
  [Update |-> Patch({"DeliveryRetryAttempts", "DeliveryRetryIntervalSeconds", "ServiceEnabled"}),
   GetEventSubscriptions |-> MembersOrFail("Subscriptions", "EventDestination")]

EventServiceFromSubmitTestEvent ==
  [SubmitTestEvent |-> Post("SubmitTestEventTarget"),
   TestEventSubscription |-> Post("testEventSubscriptionTarget")]

\* EventDestination (redfish/eventdestination.go)
EventDestinationFields ==
  [fields |-> {"Context", "DeliveryRetryPolicy", "Description", "Destination", "EventFormatType", "EventTypes",
               "ExcludeMessageIDs", "ExcludeRegistryPrefixes", "HeartbeatIntervalMinutes", "HttpHeaders",
               "IncludeOriginOfCondition", "MessageIds", "MetricReportDefinitions",
               "MetricReportDefinitionsCount", "OEMProtocol", "OEMSubscriptionType", "Oem", "OriginResources",
               "OriginResourcesCount", "Protocol", "RegistryPrefixes", "ResourceTypes", "SNMP", "Status",
               "SubordinateResources", "SubscriptionType", "SyslogFilters", "VerifyCertificate"},
   counts |-> {"MetricReportDefinitionsCount", "OriginResourcesCount"}]

EventDestinationDecode ==
  [one |-> [certificates |-> "Certificates", clientCertificates |-> "ClientCertificates"],
   count |-> [MetricReportDefinitionsCount |-> "MetricReportDefinitions",
              OriginResourcesCount |-> "OriginResources"],
   keeps |-> TRUE]

EventDestinationFromUpdate ==
  [Update |-> Patch({"Context", "DeliveryRetryPolicy", "VerifyCertificate"})]

EventDestinationFromCertificates ==
  [Certificates |-> Members("certificates", "Certificate"),
   ClientCertificates |-> Members("clientCertificates", "Certificate")]

\* UpdateService (redfish/updateservice.go)
UpdateServiceDocument ==
  [fields |-> {"Description", "Oem", "Actions", "ClientCertificates", "FirmwareInventory", "HttpPushUri",
               "HTTPPushURIOptions", "HTTPPushURIOptionsBusy", "HTTPPushURITargets", "HTTPPushURITargetsBusy",
               "MaxImageSizeBytes", "MultiPartHttpPushUri", "PublicIdentitySSHKey", "RemoteServerCertificates",
               "RemoteServerSSHKeys", "ServiceEnabled", "SoftwareInventory", "Status",
               "SupportedUpdateImageFormats", "VerifyRemoteServerCertificate", "VerifyRemoteServerSSHKey"},
   open |-> {"FirmwareInventory", "PublicIdentitySSHKeyLink", "RemoteServerCertificatesLink",
             "RemoteServerSSHKeysLink", "SoftwareInventory", "GenerateSSHIdentityKeyPair",
             "RemoveSSHIdentityKeyPair", "SimpleUpdate", "StartUpdate"},
   one |-> [FirmwareInventory |-> "FirmwareInventory", PublicIdentitySSHKeyLink |-> "PublicIdentitySSHKey",
            RemoteServerCertificatesLink |-> "RemoteServerCertificates",
            RemoteServerSSHKeysLink |-> "RemoteServerSSHKeys", SoftwareInventory |-> "SoftwareInventory"],
   target |-> [GenerateSSHIdentityKeyPair |-> "#GenerateSSHIdentityKeyPair",
               RemoveSSHIdentityKeyPair |-> "#RemoveSSHIdentityKeyPair", SimpleUpdate |-> "#SimpleUpdate",
               StartUpdate |-> "#StartUpdate"],
   keeps |-> TRUE]

UpdateServiceFromGenerateSSHIdentityKeyPair ==
  [GenerateSSHIdentityKeyPair |-> Post("GenerateSSHIdentityKeyPair"),
   RemoveSSHIdentityKeyPair |-> Post("RemoveSSHIdentityKeyPair")]

UpdateServiceFromSimpleUpdate ==
  [SimpleUpdate |-> Post("SimpleUpdate"), StartUpdate |-> Post("StartUpdate"),
   FirmwareInventories |-> Members("FirmwareInventory", "SoftwareInventory"),
   PublicIdentitySSHKey |-> GetIf("PublicIdentitySSHKeyLink", "Key"),
   RemoteServerCertificates |-> Members("RemoteServerCertificatesLink", "Certificate"),
   RemoteServerSSHKeys |-> Members("RemoteServerSSHKeysLink", "Key"),
   SoftwareInventories |-> Members("SoftwareInventory", "SoftwareInventory")]

\* CertificateService (redfish/certificateservice.go)
CertificateServiceDocument ==
  [fields |-> {"Description"}, one |-> [certificateLocations |-> "CertificateLocations"],
   target |-> [generateCSRTarget |-> "#GenerateCSR", replaceCertificateTarget |-> "#ReplaceCertificate"]]

CertificateServiceFromCertificateLocations ==
  [CertificateLocations |-> GetIf("certificateLocations", "CertificateLocations")]

CertificateServiceFromGenerateCSR ==
  [GenerateCSR |-> Post("generateCSRTarget"), ReplaceCertificate |-> Post("replaceCertificateTarget")]

\* Certificate (redfish/certificate.go)
Certificate ==
  Resource(
    [fields |-> {"Description", "CertificateString", "CertificateType", "CertificateUsageTypes", "Fingerprint",
                 "FingerprintHashAlgorithm", "Issuer", "KeyUsage", "SerialNumber", "SignatureAlgorithm", "SPDM",
                 "Subject", "UefiSignatureOwner", "ValidNotAfter", "ValidNotBefore", "Oem", "SubjectsCount",
                 "OemLinks", "OemActions"},
     counts |-> {"SubjectsCount"}, one |-> [issuer |-> "Links.Issuer"], many |-> [subjects |-> "Links.Subjects"],
     target |-> [rekeyTarget |-> "#Rekey", renewTarget |-> "#Renew"],
     count |-> [SubjectsCount |-> "Links.Subjects"]],
    [RekeyCertificate |-> Post("rekeyTarget"), RenewCertificate |-> Post("renewTarget")])

\* ComponentIntegrity (redfish/componentintegrity.go)
ComponentIntegrityDocument ==
  [fields |-> {"ComponentIntegrityEnabled", "ComponentIntegrityType", "ComponentIntegrityTypeVersion",
               "Description", "LastUpdated", "SPDM", "Status", "TPM", "TargetComponentURI",
               "SPDMGetSignedMeasurementsTarget", "TPMGetSignedMeasurementsTarget", "ComponentsProtected",
               "ComponentsProtectedCount"},
   counts |-> {"ComponentsProtectedCount"}, many |-> [ComponentsProtected |-> "Links.ComponentsProtected"],
   target |-> [SPDMGetSignedMeasurementsTarget |-> "#SPDMGetSignedMeasurements",
               TPMGetSignedMeasurementsTarget |-> "#TPMGetSignedMeasurements"],
   count |-> [ComponentsProtectedCount |-> "Links.ComponentsProtected"], keeps |-> TRUE]

ComponentIntegrityFromUpdate ==
  [Update |-> Patch({"ComponentIntegrityEnabled"})]

ComponentIntegrityFromSPDMGetSignedMeasurements ==
  [SPDMGetSignedMeasurements |-> Post("SPDMGetSignedMeasurementsTarget"),
   TPMGetSignedMeasurements |-> Post("TPMGetSignedMeasurementsTarget")]

\* TelemetryService (redfish/telemetryservice.go)
TelemetryServiceDocument ==
  [fields |-> {"Description", "MaxReports", "MinCollectionInterval", "Oem", "ServiceEnabled", "Status",
               "SupportedCollectionFunctions"},
   one |-> [logService |-> "LogService", metricDefinitions |-> "MetricDefinitions",
            metricReportDefinitions |-> "MetricReportDefinitions", metricReports |-> "MetricReports",
            triggers |-> "Triggers"],
   target |-> [clearMetricReportTarget |-> "#ClearMetricReports",
               resetMetricReportDefinitionsToDefaultsTarget |-> "#ResetMetricReportDefinitionsToDefaults",
               resetTriggersToDefaultsTarget |-> "#ResetTriggersToDefaults",
               submitTestMetricReportTarget |-> "#SubmitTestMetricReport"],
   keeps |-> TRUE]

TelemetryServiceFromLogService ==
  [LogService |-> GetIf("logService", "LogService"),
   MetricDefinitions |-> Members("metricDefinitions", "MetricDefinition"),
   MetricReportDefinitions |-> Members("metricReportDefinitions", "MetricReportDefinition"),
   MetricReports |-> Members("metricReports", "MetricReport"), Triggers |-> Members("triggers", "Triggers"),
   ClearMetricReports |-> Post("clearMetricReportTarget"),
   ResetMetricReportDefinitionsToDefaults |-> Post("resetMetricReportDefinitionsToDefaultsTarget"),
   ResetTriggersToDefaults |-> Post("resetTriggersToDefaultsTarget"),
   SubmitTestMetricReport |-> Post("submitTestMetricReportTarget"), Update |-> Patch({"ServiceEnabled"})]

\* MetricReportDefinition (redfish/metricreportdefinition.go)
MetricReportDefinition ==
  Resource(
    [fields |-> {"AppendLimit", "Description", "MetricProperties", "MetricReport", "MetricReportDefinitionEnabled",
                 "MetricReportDefinitionType", "MetricReportHeartbeatInterval", "Metrics", "Oem", "ReportActions",
                 "ReportTimespan", "ReportUpdates", "Schedule", "Status", "SuppressRepeatedMetricValue",
                 "Wildcards", "TriggersCount"},
     counts |-> {"TriggersCount"}, many |-> [triggers |-> "Links.Triggers"],
     count |-> [TriggersCount |-> "Links.Triggers"], keeps |-> TRUE],
    [Triggers |-> Objects("triggers", "Triggers"),
     Update |-> Patch({"MetricProperties", "MetricReportDefinitionEnabled", "MetricReportDefinitionType",
                       "MetricReportHeartbeatInterval", "ReportActions", "ReportTimespan", "ReportUpdates",
                       "SuppressRepeatedMetricValue"})])

\* Triggers (redfish/triggers.go)
Triggers ==
  Resource(
    [fields |-> {"Description", "DiscreteTriggerCondition", "DiscreteTriggers", "EventTriggers",
                 "HysteresisDuration", "HysteresisReading", "MetricIDs", "MetricProperties", "MetricType",
                 "NumericThresholds", "Oem", "Status", "TriggerActions", "Wildcards",
                 "MetricReportDefinitionsCount"},
     counts |-> {"MetricReportDefinitionsCount"},
     many |-> [metricReportDefinitions |-> "Links.MetricReportDefinitions"],
     count |-> [MetricReportDefinitionsCount |-> "Links.MetricReportDefinitions"], keeps |-> TRUE],
    [MetricReportDefinitions |-> Objects("metricReportDefinitions", "MetricReportDefinition"),
     Update |-> Patch({"EventTriggers", "HysteresisDuration", "HysteresisReading", "MetricIds",
                       "MetricProperties"})])

\* CompositionService (redfish/compositionservice.go)
CompositionServiceDocument ==
  [fields |-> {"AllowOverprovisioning", "AllowZoneAffinity", "Description", "ReservationDuration",
               "ServiceEnabled", "Status"},
   one |-> [activePool |-> "ActivePool", compositionReservations |-> "CompositionReservations",
            freePool |-> "FreePool", resourceBlocks |-> "ResourceBlocks", resourceZones |-> "ResourceZones"],
   target |-> [composeTarget |-> "#Compose"], keeps |-> TRUE]

CompositionServiceFromUpdate ==
  [Update |-> Patch({"AllowOverprovisioning", "ServiceEnabled"}), Compose |-> Post("composeTarget"),
   ActivePool |-> Members("activePool", "ResourceBlock"),
   CompositionReservations |-> Members("compositionReservations", "ResourceBlock"),
   FreePool |-> Members("freePool", "ResourceBlock")]

\* ResourceBlock (redfish/resourceblock.go)
ResourceBlock ==
  Resource(
    [fields |-> {"Client", "CompositionStatus", "ComputerSystemsCount", "Description", "DrivesCount",
                 "EthernetInterfacesCount", "MemoryCount", "NetworkInterfacesCount", "Pool", "ProcessorsCount",
                 "ResourceBlockType", "SimpleStorageCount", "Status", "StorageCount", "ChassisCount",
                 "ConsumingResourceBlocksCount", "SupplyingResourceBlocksCount", "ZonesCount"},
     counts |-> {"ComputerSystemsCount", "DrivesCount", "EthernetInterfacesCount", "MemoryCount",
                 "NetworkInterfacesCount", "ProcessorsCount", "SimpleStorageCount", "StorageCount", "ChassisCount",
                 "ConsumingResourceBlocksCount", "SupplyingResourceBlocksCount", "ZonesCount"},
     many |-> [computerSystems |-> "Links.ComputerSystems", drives |-> "Drives",
               ethernetInterfaces |-> "EthernetInterfaces", memory |-> "Memory",
               networkInterfaces |-> "NetworkInterfaces", processors |-> "Processors",
               simpleStorage |-> "SimpleStorage", storage |-> "Storage", chassis |-> "Links.Chassis",
               consumingResourceBlocks |-> "Links.ConsumingResourceBlocks",
               supplyingResourceBlocks |-> "Links.SupplyingResourceBlocks", zones |-> "Links.Zones"],
     count |-> [ChassisCount |-> "Links.Chassis", ConsumingResourceBlocksCount |-> "Links.ConsumingResourceBlocks",
                SupplyingResourceBlocksCount |-> "Links.SupplyingResourceBlocks", ZonesCount |-> "Links.Zones",
                ComputerSystemsCount |-> "ComputerSystems", DrivesCount |-> "Drives",
                EthernetInterfacesCount |-> "EthernetInterfaces", MemoryCount |-> "Memory",
                NetworkInterfacesCount |-> "NetworkInterfaces", ProcessorsCount |-> "Processors",
                SimpleStorageCount |-> "SimpleStorage", StorageCount |-> "Storage"],
     keeps |-> TRUE],
    [Update |-> Patch({"Client", "Pool"})])

\* AggregationService (redfish/aggregationservice.go)
AggregationServiceDocument ==
  [fields |-> {"Description", "Oem", "ServiceEnabled", "Status"},
   one |-> [aggregates |-> "Aggregates", aggregationSources |-> "AggregationSources",
            connectionMethods |-> "ConnectionMethods"],
   target |-> [resetTarget |-> "#Reset", setDefaultBootOrderTarget |-> "#SetDefaultBootOrder"], keeps |-> TRUE]

AggregationServiceFromReset ==
  [Reset |-> Post("resetTarget"), SetDefaultBootOrder |-> Post("setDefaultBootOrderTarget"),
   Aggregates |-> Members("aggregates", "Aggregate"),
   AggregationSources |-> Members("aggregationSources", "AggregationSource"),
   ConnectionMethods |-> Members("connectionMethods", "ConnectionMethod"), Update |-> Patch({"ServiceEnabled"})]

\* Aggregate (redfish/aggregate.go)
Aggregate ==
  Resource(
    [fields |-> {"Description", "ElementsCount", "Oem"}, many |-> [elements |-> "Elements"],
     target |-> [addElementsTarget |-> "#AddElements", removeElementsTarget |-> "#RemoveElements",
                 resetTarget |-> "#Reset", setDefaultBootOrderTarget |-> "#SetDefaultBootOrder"]],
    [Elements |-> Objects("elements", "Resource"), AddElements |-> Post("addElementsTarget"),
     RemoveElements |-> Post("removeElementsTarget"), Reset |-> Post("resetTarget"),
     SetDefaultBootOrder |-> Post("setDefaultBootOrderTarget")])

\* LicenseService (redfish/licenseservice.go)
LicenseServiceDocument ==
  [fields |-> {"Description", "LicenseExpirationWarningDays", "Oem", "ServiceEnabled"},
   one |-> [licenses |-> "Licenses"], target |-> [installTarget |-> "#Install"], keeps |-> TRUE]

LicenseServiceFromInstall ==
  [Install |-> Post("installTarget"), Licenses |-> Members("licenses", "License"),
   Update |-> Patch({"LicenseExpirationWarningDays", "ServiceEnabled"})]

\* LogService (redfish/logservice.go)
LogServiceFields ==
  [fields |-> {"AutoDSTEnabled", "DateTime", "DateTimeLocalOffset", "Description", "DiagnosticDataDetails",
               "Entries", "LogEntryType", "MaxNumberOfRecords", "OEMLogPurpose", "Oem", "OverWritePolicy",
               "Overflow", "Persistency", "ServiceEnabled", "Status", "SyslogFilters", "Actions"},
   open |-> {"EntriesLink", "ClearLog", "CollectDiagnosticData", "DownloadRawLog"}]

LogServiceDecode ==
  [one |-> [EntriesLink |-> "Entries"],
   target |-> [ClearLog |-> "#ClearLog", CollectDiagnosticData |-> "#CollectDiagnosticData",
               DownloadRawLog |-> "#DownloadRawLog"],
   info |-> [collectInfo |-> "#CollectDiagnosticData@ActionInfo"], keeps |-> TRUE]

LogServiceFromUpdate ==
  [Update |-> Patch({"AutoDSTEnabled", "DateTime", "DateTimeLocalOffset", "ServiceEnabled"}),
   Entries |-> Members("EntriesLink", "LogEntry"), FilteredEntries |-> Members("EntriesLink", "LogEntry")]

LogServiceFromClearLog ==
  [ClearLog |-> Post("ClearLog")]

LogServiceFromCollectDiagnosticData ==
  [CollectDiagnosticData |-> Post("CollectDiagnosticData"),
   CollectDiagnosticDataActionInfo |-> Get("collectInfo", "ActionInfo")]

LogServiceFromDownloadRawLog ==
  [DownloadRawLog |-> Post("DownloadRawLog")]

\* LogEntry (redfish/logentry.go)
LogEntryFields ==
  [fields |-> {"AdditionalDataSizeBytes", "AdditionalDataURI", "CPER", "CXLEntryType", "Created", "Description",
               "DiagnosticData", "DiagnosticDataType", "EntryCode", "EntryType", "EventGroupId", "EventId",
               "EventTimestamp", "FirstOverflowTimestamp", "GeneratorId", "LastOverflowTimestamp", "Message",
               "MessageArgs", "MessageId", "Modified", "OEMDiagnosticDataType", "Oem", "OemLogEntryCode",
               "OemRecordFormat", "OemSensorType", "Originator", "OriginatorType", "OverflowErrorCount",
               "Persistency", "Resolution", "ResolutionSteps", "Resolved", "SensorNumber", "SensorType",
               "ServiceProviderNotified", "Severity", "SpecificEventExistsInGroup", "OriginOfCondition",
               "RelatedItem", "RelatedItemCount", "RelatedLogEntriesCount"},
   counts |-> {"RelatedItemCount", "RelatedLogEntriesCount"}]

LogEntryDecode ==
  [one |-> [OriginOfCondition |-> "Links.OriginOfCondition"],
   many |-> [relatedLogEntries |-> "Links.RelatedLogEntries"],
   count |-> [RelatedItemCount |-> "Links.RelatedLogEntries"], keeps |-> TRUE]

LogEntryFromRelatedLogEntries ==
  [RelatedLogEntries |-> Objects("relatedLogEntries", "LogEntry"), Update |-> Patch({"Resolved"})]

\* OutboundConnection (redfish/outboundconnection.go)
OutboundConnection ==
  Resource(
    [fields |-> {"Authentication", "ConnectionEnabled", "Description", "EndpointURI", "Oem",
                 "PreUpgradeHTTPHeaders", "RetryPolicy", "Roles", "Status", "WebSocketPingIntervalMinutes"},
     one |-> [session |-> "Links.Session", certificates |-> "Certificates",
              clientCertificates |-> "ClientCertificates"],
     keeps |-> TRUE],
    [Session |-> GetIf("session", "Session"), Certificates |-> Members("certificates", "Certificate"),
     ClientCertificates |-> Members("clientCertificates", "Certificate"),
     Update |-> Patch({"ConnectionEnabled", "WebSocketPingIntervalMinutes"})])

\* The types of this module by name.
ServiceTypes ==
  [Service |-> Resource(ServiceFields,
                        ServiceFromAccountService @@ ServiceFromKeyService @@ ServiceFromStorageSystems @@
                        ServiceFromManagerProvidingService @@ ServiceFromMessageRegistries @@
                        ServiceFromMessageRegistriesByLanguage),
   AccountService |-> Resource(AccountServiceFields @@ AccountServiceDecode,
                               AccountServiceFromAdditionalExternalAccountProviders),
   ManagerAccount |-> Resource(ManagerAccountDocument, ManagerAccountFromRole),
   EventService |-> Resource(EventServiceDocument, EventServiceFromUpdate @@ EventServiceFromSubmitTestEvent),
   EventDestination |-> Resource(EventDestinationFields @@ EventDestinationDecode,
                                 EventDestinationFromUpdate @@ EventDestinationFromCertificates),
   UpdateService |-> Resource(UpdateServiceDocument,
                              UpdateServiceFromGenerateSSHIdentityKeyPair @@ UpdateServiceFromSimpleUpdate),
   CertificateService |-> Resource(CertificateServiceDocument,
                                   CertificateServiceFromCertificateLocations @@
                                   CertificateServiceFromGenerateCSR),
   Certificate |-> Certificate,
   ComponentIntegrity |-> Resource(ComponentIntegrityDocument,
                                   ComponentIntegrityFromUpdate @@
                                   ComponentIntegrityFromSPDMGetSignedMeasurements),
   TelemetryService |-> Resource(TelemetryServiceDocument, TelemetryServiceFromLogService),
   MetricReportDefinition |-> MetricReportDefinition,
   Triggers |-> Triggers,
   CompositionService |-> Resource(CompositionServiceDocument, CompositionServiceFromUpdate),
   ResourceBlock |-> ResourceBlock,
   AggregationService |-> Resource(AggregationServiceDocument, AggregationServiceFromReset),
   Aggregate |-> Aggregate,
   LicenseService |-> Resource(LicenseServiceDocument, LicenseServiceFromInstall),
   LogService |-> Resource(LogServiceFields @@ LogServiceDecode,
                           LogServiceFromUpdate @@ LogServiceFromClearLog @@ LogServiceFromCollectDiagnosticData
                           @@ LogServiceFromDownloadRawLog),
   LogEntry |-> Resource(LogEntryFields @@ LogEntryDecode, LogEntryFromRelatedLogEntries),
   OutboundConnection |-> OutboundConnection]
==================================================================================
