------------------------------- MODULE VendorTables -------------------------------
(* The types of the vendor packages, as ResourceTables writes them.  A type *)
(* that a From function makes of a standard resource has that one inside:   *)
(* what it adds is here, and the rest is in the other tables.               *)
EXTENDS ResourceTables

\* IPAccessControl (oem/smc/ipaccesscontrol.go)
IPAccessControl ==
  Resource(
    [fields |-> {"ServiceEnabled"}, one |-> [filterRules |-> "FilterRules"], keeps |-> TRUE],
    [Update |-> Patch({"Enabled", "ServiceEnabled"}), FilterRules |-> Members("filterRules", "FilterRule")])

\* NTP (oem/smc/ntp.go)
NTP ==
  Resource(
    [fields |-> {"NTPEnable", "PrimaryNTPServer", "SecondaryNTPServer", "DaylightSavingTime"}, keeps |-> TRUE],
    [Update |-> Patch({"Enabled", "NTPEnable", "PrimaryServer", "PrimaryNTPServer", "SecondaryServer",
                       "SecondaryNTPServer", "DaylightSavingTime"})])

\* RADIUS (oem/smc/radius.go)
RADIUS ==
  Resource(
    [fields |-> {"RadiusEnabled", "RadiusServer", "RadiusPortNumber", "RadiusSecret"}, keeps |-> TRUE],
    [Update |-> Patch({"Enabled", "RadiusEnabled", "ServerIP", "RadiusServerIP", "PortNumber", "RadiusPortNumber",
                       "Secret", "RadiusSecret"})])

\* Syslog (oem/smc/syslog.go)
Syslog ==
  Resource(
    [fields |-> {"EnableSyslog", "SyslogServer", "SyslogPortNumber"}, keeps |-> TRUE],
    [Update |-> Patch({"Enabled", "EnableSyslog", "Port", "SyslogPortNumber", "Server", "SyslogServer"})])

\* SysLockdown (oem/smc/syslockdown.go)
SysLockdown ==
  Resource(
    [fields |-> {"SysLockdownEnabled"}, keeps |-> TRUE],
    [Update |-> Patch({"Enabled", "SysLockdownEnabled"})])

\* SMCRAKP (oem/smc/smcrakp.go)
SMCRAKP ==
  Resource(
    [fields |-> {"Mode"}, keeps |-> TRUE],
    [Update |-> Patch({"Mode"})])

\* MouseMode (oem/smc/mousemode.go)
MouseMode ==
  Resource(
    [fields |-> {"Mode"}, keeps |-> TRUE],
    [Update |-> Patch({"Mode"})])

\* MemoryPFA (oem/smc/memorypfa.go)
MemoryPFA ==
  Resource(
    [fields |-> {"MemoryPfaInit", "MemoryPfaNext", "AlertId"}, keeps |-> TRUE],
    [Update |-> Patch({"Next", "MemoryPfaNext", "AlertID"})])

\* MemoryHealthComp (oem/smc/memoryhealthcomp.go)
MemoryHealthComp ==
  Resource(
    [fields |-> {"MemoryHealthCompInit", "MemoryHealthCompNext"}, keeps |-> TRUE],
    [Update |-> Patch({"Next", "MemoryHealthCompNext"})])

\* LLDP (oem/smc/lldp.go)
LLDP ==
  Resource(
    [fields |-> {"LLDPEnabled", "LLDPReceive", "LLDPTransmit"}, keeps |-> TRUE],
    [Update |-> Patch({"Enabled", "LLDPEnabled"})])

\* KCSInterface (oem/smc/kcsinterface.go)
KCSInterface ==
  Resource(
    [fields |-> {"Privilege"}, keeps |-> TRUE],
    [Update |-> Patch({"Privilege"})])

\* IKVM (oem/smc/ikvm.go)
IKVM ==
  Resource(
    [fields |-> {"Current Interface", "URI"}, keeps |-> TRUE],
    [Update |-> Patch({"CurrentInterface", "Current Interface"})])

\* FanMode (oem/smc/fanmode.go)
FanMode ==
  Resource(
    [fields |-> {"Mode", "AllowableModes"}, keeps |-> TRUE],
    [Update |-> Patch({"Mode"})])

\* LicenseManager (oem/smc/licensemanager.go)
LicenseManager ==
  Resource(
    [one |-> [queryLicense |-> "QueryLicense"],
     target |-> [activateLicenseTarget |-> "#ActivateLicense", clearLicenseTarget |-> "#ClearLicense"]],
    [ActivateLicense |-> Post("activateLicenseTarget"), ClearLicense |-> Post("clearLicenseTarget"),
     QueryLicense |-> Get("queryLicense", "QueryLicense")])

\* NodeManager (oem/smc/nodemanager.go)
NodeManager ==
  Resource(
    [fields |-> {"Capabilities", "Statistics", "IntelPsysEnabled", "IntelPsysSupported", "Version", "SelfTest",
                 "Policy"},
     target |-> [clearAllPoliciesTarget |-> "#ClearAllPolicies"]],
    [ClearAllPolicies |-> Post("clearAllPoliciesTarget")])

\* DumpService (oem/smc/dumpservice.go)
DumpServiceDocument ==
  [one |-> [dumps |-> "Dumps"],
   target |-> [createDumpTarget |-> "#CreateDump", deleteAllTarget |-> "#DeleteAll",
               collectTarget |-> "#Collect"]]

DumpServiceFromCreateDump ==
  [CreateDump |-> Post("createDumpTarget"), DeleteAll |-> Post("deleteAllTarget"),
   Collect |-> Post("collectTarget"), Dumps |-> Members("dumps", "Dump")]

\* IPMIConfig (oem/smc/updateservice.go)
IPMIConfig ==
  Resource(
    [target |-> [uploadTarget |-> "#Upload", downloadTarget |-> "#Download"]],
    [Upload |-> Post("uploadTarget"), Download |-> Post("downloadTarget")])

\* SSLCert (oem/smc/updateservice.go)
SSLCert ==
  Resource(
    [fields |-> {"GoodTHRU", "VaildFrom"}, target |-> [uploadTarget |-> "#Upload"]],
    [Upload |-> Post("uploadTarget")])

\* Manager of Supermicro: what FromManager adds to the standard one.
\* (oem/smc/manager.go)
SMCManagerDocument ==
  [one |-> [radius |-> "Oem.Supermicro.RADIUS", mouseMode |-> "Oem.Supermicro.MouseMode",
            ntp |-> "Oem.Supermicro.NTP", ipAccessControl |-> "Oem.Supermicro.IPAccessControl",
            smcRAKP |-> "Oem.Supermicro.SMCRAKP", syslog |-> "Oem.Supermicro.Syslog",
            sysLockdown |-> "Oem.Supermicro.SysLockdown", memoryPFA |-> "Oem.Supermicro.MemoryPFA",
            memoryHealthComp |-> "Oem.Supermicro.MemoryHealthComp", snooping |-> "Oem.Supermicro.Snooping",
            fanMode |-> "Oem.Supermicro.FanMode", iKVM |-> "Oem.Supermicro.IKVM",
            kcsInterface |-> "Oem.Supermicro.KCSInterface", lldp |-> "Oem.Supermicro.LLDP",
            licenseManager |-> "Oem.Supermicro.LicenseManager"],
   target |-> [managerConfigResetTarget |-> "#Reset"]]

SMCManagerFromRADIUS ==
  [RADIUS |-> Get("radius", "RADIUS"), MouseMode |-> Get("mouseMode", "MouseMode"), NTP |-> Get("ntp", "NTP"),
   SMCRAKP |-> Get("smcRAKP", "SMCRAKP"), Syslog |-> Get("syslog", "Syslog"),
   SysLockdown |-> Get("sysLockdown", "SysLockdown"), MemoryPFA |-> Get("memoryPFA", "MemoryPFA"),
   MemoryHealthComp |-> Get("memoryHealthComp", "MemoryHealthComp"), Snooping |-> Get("snooping", "Snooping"),
   FanMode |-> Get("fanMode", "FanMode"), IKVM |-> Get("iKVM", "IKVM"),
   KCSInterface |-> Get("kcsInterface", "KCSInterface"), LLDP |-> Get("lldp", "LLDP"),
   LicenseManager |-> Get("licenseManager", "LicenseManager")]

SMCManagerFromManagerConfigReset ==
  [ManagerConfigReset |-> Post("managerConfigResetTarget")]

\* ComputerSystem of Supermicro, of a system with an Oem object: without one its conversion fails.
\* (oem/smc/computersystem.go)
SMCComputerSystem ==
  Resource(
    [one |-> [nodeManager |-> "Oem.Supermicro.NodeManager", fixedBootOrder |-> "Oem.Supermicro.FixedBootOrder"]],
    [NodeManager |-> Get("nodeManager", "NodeManager"),
     FixedBootOrder |-> Get("fixedBootOrder", "FixedBootOrder")])

\* UpdateService of Supermicro: what FromUpdateService adds.
\* (oem/smc/updateservice.go)
SMCUpdateServiceDocument ==
  [one |-> [sslCert |-> "Oem.Supermicro.SSLCert", ipmiConfig |-> "Oem.Supermicro.IPMIConfig"],
   target |-> [installTarget |-> "#Install"]]

SMCUpdateServiceFromInstall ==
  [Install |-> Post("installTarget"), SSLCert |-> Get("sslCert", "SSLCert"),
   IPMIConfig |-> Get("ipmiConfig", "IPMIConfig")]

\* EventService of AMI: what FromEventService adds.
\* (oem/ami/eventservice.go)
AMIEventService ==
  Resource(
    [fields |-> {"SecondarySMTP"}, one |-> [certificates |-> "Oem.Ami.Certificates"]],
    [Certificates |-> Members("certificates", "Certificate")])

\* AccountService of AMI: what FromAccountService adds.
\* (oem/ami/accountservice.go)
AMIAccountService ==
  Resource(
    [one |-> [configuration |-> "Oem.AMI.Configuration"]],
    [Configuration |-> Get("configuration", "AccountServiceConfigurations")])

\* UpdateService of AMI: what FromUpdateService adds.
\* (oem/ami/updateservice.go)
AMIUpdateServiceDocument ==
  [fields |-> {"AMIUpdateService", "BIOS", "BMC"}, target |-> [uploadCABundleTarget |-> "#UploadCABundle"]]

AMIUpdateServiceFromUploadCABundle ==
  [UploadCABundle |-> Post("uploadCABundleTarget")]

\* ComputerSystem of Dell: what FromComputerSystem adds.
\* (oem/dell/computerSystem.go)
DellComputerSystem ==
  Resource(
    [fields |-> {"OEMSystem"},
     one |-> [targetSoftwareInstallationService |-> "Links.Oem.Dell.DellSoftwareInstallationService"]],
    [SoftwareInstallationService |->
        Get("targetSoftwareInstallationService", "SoftwareInstallationService")])

\* SoftwareInstallationService of Dell; the job or the list that the answer names is read besides.
\* (oem/dell/softwareInstallationService.go)
SoftwareInstallationServiceDocument ==
  [open |-> {"InstallFromRepository", "GetRepoBasedUpdateList"},
   target |-> [InstallFromRepository |-> "#InstallFromRepository",
               GetRepoBasedUpdateList |-> "#GetRepoBasedUpdateList"]]

SoftwareInstallationServiceFromInstallFromRepository ==
  [InstallFromRepository |-> Post("InstallFromRepository"),
   GetRepoBasedUpdateList |-> Post("GetRepoBasedUpdateList")]

\* Manager of Dell, of a manager with actions of its own: without them its conversion fails.
\* (oem/dell/manager.go)
DellManagerDocument ==
  [target |-> [importSystemConfigTarget |-> "#ImportSystemConfiguration"]]

DellManagerFromImportSystemConfiguration ==
  [ImportSystemConfiguration |-> Post("importSystemConfigTarget")]

\* The types of this module by name.
VendorTypes ==
  [IPAccessControl |-> IPAccessControl,
   NTP |-> NTP,
   RADIUS |-> RADIUS,
   Syslog |-> Syslog,
   SysLockdown |-> SysLockdown,
   SMCRAKP |-> SMCRAKP,
   MouseMode |-> MouseMode,
   MemoryPFA |-> MemoryPFA,
   MemoryHealthComp |-> MemoryHealthComp,
   LLDP |-> LLDP,
   KCSInterface |-> KCSInterface,
   IKVM |-> IKVM,
   FanMode |-> FanMode,
   LicenseManager |-> LicenseManager,
   NodeManager |-> NodeManager,
   DumpService |-> Resource(DumpServiceDocument, DumpServiceFromCreateDump),
   IPMIConfig |-> IPMIConfig,
   SSLCert |-> SSLCert,
   SMCManager |-> Resource(SMCManagerDocument, SMCManagerFromRADIUS @@ SMCManagerFromManagerConfigReset),
   SMCComputerSystem |-> SMCComputerSystem,
   SMCUpdateService |-> Resource(SMCUpdateServiceDocument, SMCUpdateServiceFromInstall),
   AMIEventService |-> AMIEventService,
   AMIAccountService |-> AMIAccountService,
   AMIUpdateService |-> Resource(AMIUpdateServiceDocument, AMIUpdateServiceFromUploadCABundle),
   DellComputerSystem |-> DellComputerSystem,
   SoftwareInstallationService |->
      Resource(SoftwareInstallationServiceDocument, SoftwareInstallationServiceFromInstallFromRepository),
   DellManager |-> Resource(DellManagerDocument, DellManagerFromImportSystemConfiguration)]
===================================================================================
