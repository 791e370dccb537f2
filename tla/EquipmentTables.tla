----------------------------- MODULE EquipmentTables -----------------------------
(* The types of chassis, power and cooling equipment, as ResourceTables writes them. *)
EXTENDS ResourceTables

\* Chassis (redfish/chassis.go)
ChassisFields ==
  [fields |-> {"AssetTag", "ChassisType", "Controls", "DepthMm", "Description", "Doors", "DrivesCount",
               "ElectricalSourceManagerURIs", "ElectricalSourceNames", "EnvironmentalClass",
               "HeatingCoolingEquipmentNames", "HeatingCoolingManagerURIs", "HeightMm", "HotPluggable",
               "IndicatorLED", "Location", "LocationIndicatorActive", "Manufacturer", "MaxPowerWatts",
               "MinPowerWatts", "Model", "PartNumber", "PCIeDevices", "PhysicalSecurity", "PowerState",
               "PoweredByParent", "Replaceable", "SKU", "SerialNumber", "SparePartNumber", "Status",
               "ThermalDirection", "ThermalManagedByParent", "UUID", "WeightKg", "WidthMm",
               "SupportedResetTypes", "CablesCount", "ComputerSystemsCount", "ConnectedCoolingLoopsCount",
               "ContainsCount", "CoolingUnitsCount", "FansCount", "ManagedByCount", "ManagersInChassisCount",
               "PowerOutletsCount", "PowerSuppliesCount", "ResourceBlockCount", "StorageCount", "SwitchesCount"},
   counts |-> {"DrivesCount", "CablesCount", "ComputerSystemsCount", "ConnectedCoolingLoopsCount",
               "ContainsCount", "CoolingUnitsCount", "FansCount", "ManagedByCount", "ManagersInChassisCount",
               "PowerOutletsCount", "PowerSuppliesCount", "ResourceBlockCount", "StorageCount", "SwitchesCount"},
   open |-> {"ControlsLink", "PCIeDevicesLink"}]

ChassisDecode ==
  [one |-> [ControlsLink |-> "Controls", PCIeDevicesLink |-> "PCIeDevices", assembly |-> "Assembly",
            certificates |-> "Certificates", drives |-> "Drives", environmentMetrics |-> "EnvironmentMetrics",
            fabricAdapters |-> "FabricAdapters", logServices |-> "LogServices", memory |-> "Memory",
            memoryDomains |-> "MemoryDomains", networkAdapters |-> "NetworkAdapters", pcieSlots |-> "PCIeSlots",
            power |-> "Power", powerSubsystem |-> "PowerSubsystem", processors |-> "Processors",
            sensors |-> "Sensors", thermal |-> "Thermal", thermalSubsystem |-> "ThermalSubsystem",
            trustedComponents |-> "TrustedComponents", containedBy |-> "Links.ContainedBy",
            facility |-> "Links.Facility", powerDistribution |-> "Links.PowerDistribution",
            leakdetectors |-> "LeakDetectors"],
   many |-> [cables |-> "Links.Cables", computerSystems |-> "Links.ComputerSystems",
             connectedCoolingLoops |-> "Links.ConnectedCoolingLoops", contains |-> "Links.Contains",
             coolingUnits |-> "Links.CoolingUnits", fans |-> "Links.Fans", managedBy |-> "Links.ManagedBy",
             managersInChassis |-> "Links.ManagersInChassis", powerOutlets |-> "Links.PowerOutlets",
             powerSupplies |-> "Links.PowerSupplies", resourceBlocks |-> "Links.ResourceBlocks",
             storage |-> "Links.Storage", switches |-> "Links.Switches", linkedDrives |-> "Links.Drives"],
   target |-> [resetTarget |-> "#Reset"], info |-> [resetActionInfoTarget |-> "#Reset@ActionInfo"],
   allowed |-> [SupportedResetTypes |-> "#Reset@AllowableValues"],
   count |-> [ComputerSystemsCount |-> "Links.ComputerSystems",
              ConnectedCoolingLoopsCount |-> "Links.ConnectedCoolingLoops", ContainsCount |-> "Links.Contains",
              CoolingUnitsCount |-> "Links.CoolingUnits", FansCount |-> "Links.Fans",
              ManagedByCount |-> "Links.ManagedBy", ManagersInChassisCount |-> "Links.ManagersInChassis",
              PowerOutletsCount |-> "Links.PowerOutlets", PowerSuppliesCount |-> "Links.PowerSupplies",
              StorageCount |-> "Links.Storage", SwitchesCount |-> "Links.Switches", DrivesCount |-> "Drives"],
   keeps |-> TRUE]

ChassisFromUpdate ==
  [Update |-> Patch({"AssetTag", "IndicatorLED", "ElectricalSourceManagerURIs", "ElectricalSourceNames",
                     "EnvironmentalClass", "HeatingCoolingEquipmentNames", "HeatingCoolingManagerURIs",
                     "LocationIndicatorActive"}),
   Certificates |-> Members("certificates", "Certificate"), Controls |-> Members("ControlsLink", "Control"),
   ConnectedCoolingLoops |-> Objects("connectedCoolingLoops", "CoolingLoop"),
   CoolingUnits |-> Objects("coolingUnits", "CoolingUnit"), Drives |-> Either("drives", "linkedDrives", "Drive"),
   EnvironmentMetrics |-> GetIf("environmentMetrics", "EnvironmentMetrics"),
   Facility |-> GetIf("facility", "Facility"), Memory |-> Members("memory", "Memory"),
   MemoryDomains |-> Members("memoryDomains", "MemoryDomain")]

ChassisFromThermal ==
  [Thermal |-> GetIf("thermal", "Thermal"), ThermalSubsystem |-> GetIf("thermalSubsystem", "ThermalSubsystem"),
   PCIeDevices |-> Members("PCIeDevicesLink", "PCIeDevice"), PCIeSlots |-> GetIf("pcieSlots", "PCIeSlots"),
   Power |-> GetIf("power", "Power"), PowerSubsystem |-> GetIf("powerSubsystem", "PowerSubsystem"),
   Cables |-> Objects("cables", "Cable"), ComputerSystems |-> Objects("computerSystems", "ComputerSystem"),
   ContainedBy |-> GetIf("containedBy", "Chassis"), Contains |-> Objects("contains", "Chassis")]

ChassisFromFans ==
  [Fans |-> Objects("fans", "Fan"), ManagedBy |-> Objects("managedBy", "Manager"),
   ManagersInChassis |-> Objects("managersInChassis", "Manager"),
   PowerDistribution |-> GetIf("powerDistribution", "PowerDistribution"),
   PowerOutlets |-> Objects("powerOutlets", "Outlet"), PowerSupplies |-> Objects("powerSupplies", "PowerSupply"),
   Processors |-> Members("processors", "Processor"),
   ResourceBlocks |-> Objects("resourceBlocks", "ResourceBlock"), Storage |-> Objects("storage", "Storage"),
   Sensors |-> Members("sensors", "Sensor"), Switches |-> Objects("switches", "Switch"),
   NetworkAdapters |-> Members("networkAdapters", "NetworkAdapter"),
   LogServices |-> Members("logServices", "LogService")]

ChassisFromAssembly ==
  [Assembly |-> Get("assembly", "Assembly"),
   GetSupportedResetTypes |-> Learn("SupportedResetTypes", "resetActionInfoTarget", "SupportedResetTypes"),
   ResetActionInfo |-> Get("resetActionInfoTarget", "ActionInfo"),
   Reset |-> Reset("resetTarget", "SupportedResetTypes"),
   LeakDetectors |-> Members("leakdetectors", "LeakDetector")]

\* Power (redfish/power.go)
Power ==
  Resource(
    [fields |-> {"Description", "Oem", "PowerControl", "PowerControlCount", "PowerSupplies", "PowerSuppliesCount",
                 "Redundancy", "RedundancyCount", "Voltages", "VoltagesCount"},
     counts |-> {"PowerControlCount", "PowerSuppliesCount", "RedundancyCount", "VoltagesCount"},
     target |-> [powerSupplyResetTarget |-> "#PowerSupplyReset"],
     count |-> [PowerControlCount |-> "PowerControl", PowerSuppliesCount |-> "PowerSupplies",
                RedundancyCount |-> "Redundancy", VoltagesCount |-> "Voltages"]],
    [PowerSupplyReset |-> Post("powerSupplyResetTarget")])

\* PowerSupply (redfish/power.go)
PowerSupplyDocument ==
  [fields |-> {"EfficiencyPercent", "FirmwareVersion", "HotPluggable", "IndicatorLED", "LocationIndicatorActive",
               "InputRanges", "LastPowerOutputWatts", "LineInputVoltage", "LineInputVoltageType", "Location",
               "Manufacturer", "MemberId", "Model", "Oem", "PartNumber", "PowerCapacityWatts", "PowerInputWatts",
               "PowerOutputWatts", "PowerSupplyType", "RedundancyCount", "RelatedItem", "RelatedItemCount",
               "SerialNumber", "SparePartNumber", "Status", "Version"},
   counts |-> {"RedundancyCount", "RelatedItemCount"}, one |-> [assembly |-> "Assembly", metrics |-> "Metrics"],
   many |-> [redundancyLinks |-> "Redundancy", relateditemLinks |-> "RelatedItem"],
   target |-> [resetTarget |-> "#Reset"],
   count |-> [RedundancyCount |-> "Redundancy", RelatedItemCount |-> "RelatedItem"], keeps |-> TRUE]

\* Deviation: the metrics are read only when there is an assembly.
PowerSupplyFromAssembly_Crossed ==
  [Assembly |-> GetIf("assembly", "Assembly"), Metrics |-> GetWhen("assembly", "metrics", "PowerSupplyUnitMetrics"),
   Redundancy |-> Objects("redundancyLinks", "Redundancy"), Reset |-> Post("resetTarget"),
   Update |-> Patch({"IndicatorLED", "LocationIndicatorActive"})]

PowerSupplyFromAssembly ==
  [Assembly |-> GetIf("assembly", "Assembly"), Metrics |-> GetIf("metrics", "PowerSupplyUnitMetrics"),
   Redundancy |-> Objects("redundancyLinks", "Redundancy"), Reset |-> Post("resetTarget"),
   Update |-> Patch({"IndicatorLED", "LocationIndicatorActive"})]

\* PowerDistribution (redfish/powerdistribution.go)
PowerDistributionFields ==
  [fields |-> {"Description", "AssetTag", "EquipmentType", "FirmwareVersion", "Location",
               "LocationIndicatorActive", "MainsRedundancy", "Manufacturer", "Model", "PartNumber",
               "PowerSupplyRedundancy", "ProductionDate", "SerialNumber", "Status", "TransferConfiguration",
               "TransferCriteria", "UserLabel", "UUID", "Version", "ChassisCount", "ManagedByCount", "OemLinks",
               "OemActions"},
   counts |-> {"ChassisCount", "ManagedByCount"},
   inside |-> [ActiveMainsId |-> "TransferConfiguration", AutoTransferEnabled |-> "TransferConfiguration",
               ClosedTransitionAllowed |-> "TransferConfiguration",
               ClosedTransitionTimeoutSeconds |-> "TransferConfiguration",
               PreferredMainsId |-> "TransferConfiguration", RetransferDelaySeconds |-> "TransferConfiguration",
               RetransferEnabled |-> "TransferConfiguration", TransferDelaySeconds |-> "TransferConfiguration",
               TransferInhibit |-> "TransferConfiguration", OverNominalFrequencyHz |-> "TransferCriteria",
               OverVoltageRMSPercentage |-> "TransferCriteria", TransferSensitivity |-> "TransferCriteria",
               UnderNominalFrequencyHz |-> "TransferCriteria", UnderVoltageRMSPercentage |-> "TransferCriteria"]]

PowerDistributionDecode ==
  [one |-> [branches |-> "Branches", feeders |-> "Feeders", mains |-> "Mains", metrics |-> "Metrics",
            outletGroups |-> "OutletGroups", outlets |-> "Outlets", powerSupplies |-> "PowerSupplies",
            sensors |-> "Sensors", subfeeds |-> "Subfeeds", facility |-> "Links.Facility"],
   many |-> [chassis |-> "Links.Chassis", managedBy |-> "Links.ManagedBy"],
   target |-> [transferControlTarget |-> "#TransferControl"],
   count |-> [ChassisCount |-> "Links.Chassis", ManagedByCount |-> "Links.ManagedBy"], keeps |-> TRUE]

PowerDistributionFromUpdate ==
  [Update |-> Patch({"AssetTag", "LocationIndicatorActive", "UserLabel", "ActiveMainsId", "AutoTransferEnabled",
                     "ClosedTransitionAllowed", "ClosedTransitionTimeoutSeconds", "PreferredMainsId",
                     "RetransferDelaySeconds", "RetransferEnabled", "TransferDelaySeconds", "TransferInhibit",
                     "OverNominalFrequencyHz", "OverVoltageRMSPercentage", "TransferSensitivity",
                     "UnderNominalFrequencyHz", "UnderVoltageRMSPercentage"}),
   TransferControl |-> Post("transferControlTarget"), Sensors |-> Members("sensors", "Sensor"),
   PowerSupplies |-> Members("powerSupplies", "PowerSupplyUnit"), ManagedBy |-> Objects("managedBy", "Manager"),
   Chassis |-> Objects("chassis", "Chassis"), Branches |-> Members("branches", "Circuit"),
   Feeders |-> Members("feeders", "Circuit"), Mains |-> Members("mains", "Circuit"),
   Subfeeds |-> Members("subfeeds", "Circuit")]

PowerDistributionFromFacility ==
  [Facility |-> Get("facility", "Facility"), Metrics |-> GetIf("metrics", "PowerDistributionMetrics"),
   OutletGroups |-> Members("outletGroups", "OutletGroup"), Outlets |-> Members("outlets", "Outlet")]

\* Circuit (redfish/circuit.go)
CircuitFields ==
  [fields |-> {"Description", "BreakerState", "CircuitType", "ConfigurationLocked", "CriticalCircuit",
               "CurrentAmps", "ElectricalConsumerNames", "ElectricalContext", "ElectricalSourceManagerURI",
               "ElectricalSourceName", "EnergykWh", "FrequencyHz", "IndicatorLED", "LocationIndicatorActive",
               "NominalVoltage", "PhaseWiringType", "PlugType", "PolyPhaseCurrentAmps", "PolyPhaseEnergykWh",
               "PolyPhasePowerWatts", "PolyPhaseVoltage", "PowerControlLocked", "PowerCycleDelaySeconds",
               "PowerEnabled", "PowerLoadPercent", "PowerOffDelaySeconds", "PowerOnDelaySeconds",
               "PowerRestoreDelaySeconds", "PowerRestorePolicy", "PowerState", "PowerStateInTransition",
               "PowerWatts", "RatedCurrentAmps", "Status", "UnbalancedCurrentPercent",
               "UnbalancedVoltagePercent", "UserLabel", "Voltage", "VoltageType", "DistributionCircuitsCount",
               "OemLinks", "OutletsCount", "OemActions"},
   counts |-> {"DistributionCircuitsCount", "OutletsCount"}]

CircuitDecode ==
  [one |-> [branchCircuit |-> "Links.BranchCircuit", powerOutlet |-> "Links.PowerOutlet",
            sourceCircuit |-> "Links.SourceCircuit"],
   many |-> [distributionCircuits |-> "Links.DistributionCircuits", outlets |-> "Links.Outlets"],
   target |-> [breakerControlTarget |-> "#BreakerControl", powerControlTarget |-> "#PowerControl",
               resetMetricsTarget |-> "#ResetMetrics"],
   count |-> [DistributionCircuitsCount |-> "Links.DistributionCircuits", OutletsCount |-> "Links.Outlets"],
   keeps |-> TRUE]

CircuitFromUpdate ==
  [Update |-> Patch({"ConfigurationLocked", "CriticalCircuit", "ElectricalConsumerNames",
                     "ElectricalSourceManagerURI", "ElectricalSourceName", "IndicatorLED",
                     "LocationIndicatorActive", "PowerControlLocked", "PowerCycleDelaySeconds",
                     "PowerOffDelaySeconds", "PowerOnDelaySeconds", "PowerRestoreDelaySeconds",
                     "PowerRestorePolicy", "UserLabel"}),
   BreakerControl |-> Post("breakerControlTarget"), PowerControl |-> Post("powerControlTarget"),
   ResetMetrics |-> Post("resetMetricsTarget"), BranchCircuit |-> Get("branchCircuit", "Circuit"),
   SourceCircuit |-> Get("sourceCircuit", "Circuit"),
   DistributionCircuits |-> Objects("distributionCircuits", "Circuit")]

\* Outlet (redfish/outlet.go)
OutletFields ==
  [fields |-> {"ConfigurationLocked", "CurrentAmps", "Description", "ElectricalConsumerNames",
               "ElectricalContext", "EnergykWh", "FrequencyHz", "LocationIndicatorActive", "NominalVoltage",
               "Oem", "OutletType", "PhaseWiringType", "PolyPhaseCurrentAmps", "PolyPhaseVoltage",
               "PowerControlLocked", "PowerCycleDelaySeconds", "PowerEnabled", "PowerLoadPercent",
               "PowerOffDelaySeconds", "PowerOnDelaySeconds", "PowerRestoreDelaySeconds", "PowerRestorePolicy",
               "PowerState", "PowerStateInTransition", "PowerWatts", "RatedCurrentAmps", "Status", "UserLabel",
               "Voltage", "VoltageType", "ChassisCount", "DistributionCircuitsCount", "PowerSuppliesCount"},
   counts |-> {"ChassisCount", "DistributionCircuitsCount", "PowerSuppliesCount"}]

OutletDecode ==
  [one |-> [branchCircuit |-> "Links.BranchCircuit"],
   many |-> [chassis |-> "Links.Chassis", distributionCircuits |-> "Links.DistributionCircuits",
             powerSupplies |-> "Links.PowerSupplies"],
   target |-> [powerControlTarget |-> "#PowerControl", resetMetricsTarget |-> "#ResetMetrics"],
   count |-> [ChassisCount |-> "Links.Chassis", DistributionCircuitsCount |-> "Links.DistributionCircuits",
              PowerSuppliesCount |-> "Links.PowerSupplies"],
   keeps |-> TRUE]

OutletFromPowerControl ==
  [PowerControl |-> Post("powerControlTarget"), ResetMetrics |-> Post("resetMetricsTarget"),
   BranchCircuit |-> GetIf("branchCircuit", "Circuit"), Chassis |-> Objects("chassis", "Chassis"),
   DistributionCircuits |-> Objects("distributionCircuits", "Circuit"),
   PowerSupplies |-> Objects("powerSupplies", "PowerSupply"),
   Update |-> Patch({"ConfigurationLocked", "ElectricalConsumerNames", "LocationIndicatorActive",
                     "PowerControlLocked", "PowerCycleDelaySeconds", "PowerOffDelaySeconds",
                     "PowerOnDelaySeconds", "PowerRestoreDelaySeconds", "PowerRestorePolicy", "UserLabel"})]

\* OutletGroup (redfish/outletgroup.go)
OutletGroupDocument ==
  [fields |-> {"ConfigurationLocked", "CreatedBy", "Description", "EnergykWh", "Oem", "PowerControlLocked",
               "PowerCycleDelaySeconds", "PowerEnabled", "PowerOffDelaySeconds", "PowerOnDelaySeconds",
               "PowerRestoreDelaySeconds", "PowerRestorePolicy", "PowerState", "PowerStateInTransition",
               "PowerWatts", "Status", "OutletsCount"},
   counts |-> {"OutletsCount"}, many |-> [outlets |-> "Links.Outlets"],
   target |-> [powerControlTarget |-> "#PowerControl", resetMetricsTarget |-> "#ResetMetrics"],
   count |-> [OutletsCount |-> "Links.Outlets"], keeps |-> TRUE]

OutletGroupFromPowerControl ==
  [PowerControl |-> Post("powerControlTarget"), ResetMetrics |-> Post("resetMetricsTarget"),
   Outlets |-> Objects("outlets", "Outlet"),
   Update |-> Patch({"ConfigurationLocked", "CreatedBy", "PowerControlLocked", "PowerCycleDelaySeconds",
                     "PowerOffDelaySeconds", "PowerOnDelaySeconds", "PowerRestoreDelaySeconds",
                     "PowerRestorePolicy"})]

\* PowerSupplyUnit (redfish/powersupplyunit.go)
PowerSupplyUnitDocument ==
  [fields |-> {"Description", "EfficiencyRatings", "ElectricalSourceManagerURIs", "ElectricalSourceNames",
               "FirmwareVersion", "HotPluggable", "InputNominalVoltageType", "InputRanges", "LineInputStatus",
               "Location", "LocationIndicatorActive", "Manufacturer", "Model", "OutputNominalVoltageType",
               "OutputRails", "PartNumber", "PhaseWiringType", "PlugType", "PowerCapacityWatts",
               "PowerSupplyType", "ProductionDate", "Replaceable", "SerialNumber", "SparePartNumber", "Status",
               "Version", "PoweringChassisCount", "PowerOutletsCount", "OemLinks", "OemActions"},
   counts |-> {"PoweringChassisCount", "PowerOutletsCount"},
   one |-> [assembly |-> "Assembly", metrics |-> "Metrics", outlet |-> "Links.Outlet"],
   many |-> [poweringChassis |-> "Links.PoweringChassis", powerOutlets |-> "Links.PowerOutlets"],
   target |-> [resetTarget |-> "#Reset"],
   count |-> [PoweringChassisCount |-> "Links.PoweringChassis", PowerOutletsCount |-> "Links.PowerOutlets"],
   keeps |-> TRUE]

PowerSupplyUnitFromUpdate ==
  [Update |-> Patch({"ElectricalSourceManagerURIs", "ElectricalSourceNames", "LocationIndicatorActive"}),
   Reset |-> Post("resetTarget"), Assembly |-> GetIf("assembly", "Assembly"),
   Metrics |-> GetIf("metrics", "PowerSupplyUnitMetrics"),
   Outlet |-> GetWhen("metrics", "outlet",
       "Outlet"),
   PowerOutlets |-> Objects("powerOutlets", "Outlet"), PoweringChassis |-> Objects("poweringChassis", "Chassis")]

\* Deviation: the power supplies are asked for where the batteries are.
PowerSubsystem_Copied ==
  Resource(
    [fields |-> {"CapacityWatts"},
     one |-> [batteries |-> "Batteries", powerSupplies |-> "PowerSupplies"], keeps |-> TRUE],
    [Batteries |-> Members("batteries", "Battery"), PowerSupplies |-> Members("batteries", "PowerSupply")])

\* PowerSubsystem (redfish/powersubsystem.go)
PowerSubsystem ==
  Resource(
    [fields |-> {"Allocation", "CapacityWatts", "Description", "LocationIndicatorActive", "Oem",
                 "PowerSupplyRedundancy", "Status"},
     one |-> [batteries |-> "Batteries", powerSupplies |-> "PowerSupplies"], keeps |-> TRUE],
    [Batteries |-> Members("batteries", "Battery"), PowerSupplies |-> Members("powerSupplies", "PowerSupply")])

\* PowerDomain (redfish/powerdomain.go)
PowerDomainDocument ==
  [fields |-> {"Actions", "Description", "Links", "Oem", "Status", "ElectricalBusesCount", "FloorPDUsCount",
               "ManagedByCount", "PowerShelvesCount", "RackPDUsCount", "SwitchgearCount",
               "TransferSwitchesCount"},
   counts |-> {"ElectricalBusesCount", "FloorPDUsCount", "ManagedByCount", "PowerShelvesCount", "RackPDUsCount",
               "SwitchgearCount", "TransferSwitchesCount"},
   many |-> [electricalBuses |-> "Links.ElectricalBuses", floorPDUs |-> "Links.FloorPDUs",
             managedBy |-> "Links.ManagedBy", powerShelves |-> "Links.PowerShelves",
             rackPDUs |-> "Links.RackPDUs", switchgear |-> "Links.Switchgear",
             transferSwitches |-> "Links.TransferSwitches"],
   count |-> [ElectricalBusesCount |-> "Links.ElectricalBuses", FloorPDUsCount |-> "Links.FloorPDUs",
              ManagedByCount |-> "Links.ManagedBy", PowerShelvesCount |-> "Links.PowerShelves",
              RackPDUsCount |-> "Links.RackPDUs", SwitchgearCount |-> "Links.Switchgear",
              TransferSwitchesCount |-> "Links.TransferSwitches"]]

PowerDomainFromElectricalBuses ==
  [ElectricalBuses |-> Objects("electricalBuses", "PowerDistribution"),
   FloorPDUs |-> Objects("floorPDUs", "PowerDistribution"), ManagedBy |-> Objects("managedBy", "Manager"),
   PowerShelves |-> Objects("powerShelves", "PowerDistribution"),
   RackPDUs |-> Objects("rackPDUs", "PowerDistribution"),
   Switchgear |-> Objects("switchgear", "PowerDistribution"),
   TransferSwitches |-> Objects("transferSwitches", "PowerDistribution")]

\* Battery (redfish/battery.go)
BatteryDocument ==
  [fields |-> {"CapacityActualAmpHours", "CapacityActualWattHours", "CapacityRatedAmpHours",
               "CapacityRatedWattHours", "ChargeState", "Description", "FirmwareVersion", "HotPluggable",
               "Location", "LocationIndicatorActive", "Manufacturer", "MaxChargeRateAmps", "MaxChargeVoltage",
               "MaxDischargeRateAmps", "Model", "PartNumber", "ProductionDate", "Replaceable", "SerialNumber",
               "SparePartNumber", "StateOfHealthPercent", "Status", "Version", "MemoryCount",
               "StorageControllersCount"},
   counts |-> {"MemoryCount", "StorageControllersCount"},
   one |-> [assembly |-> "Assembly", metrics |-> "Metrics"],
   text |-> [memory |-> "Links.Memory", storageControllers |-> "Links.StorageControllers"],
   target |-> [calibrateTarget |-> "#Calibrate", resetTarget |-> "#Reset", selfTestTarget |-> "#SelfTest"],
   count |-> [MemoryCount |-> "Links.Memory", StorageControllersCount |-> "Links.StorageControllers"],
   keeps |-> TRUE]

BatteryFromUpdate ==
  [Update |-> Patch({"LocationIndicatorActive"}), Assembly |-> GetIf("assembly", "Assembly"),
   BatteryMetrics |-> GetIf("metrics", "BatteryMetrics"), Memory |-> Objects("memory", "Memory"),
   StorageControllers |-> Objects("storageControllers", "StorageController"),
   Calibrate |-> Post("calibrateTarget"), Reset |-> Post("resetTarget"), SelfTest |-> Post("selfTestTarget")]

\* Facility (redfish/facility.go)
FacilityFields ==
  [fields |-> {"AmbientMetrics", "Description", "FacilityType", "Location", "Status", "CDUsCount",
               "ContainsChassisCount", "ContainsFacilitiesCount", "CoolingLoopsCount", "ElectricalBusesCount",
               "FloorPDUsCount", "ImmersionUnitsCount", "ManagedByCount", "PowerShelvesCount", "RackPDUsCount",
               "SwitchgearCount", "TransferSwitchesCount"},
   counts |-> {"CDUsCount", "ContainsChassisCount", "ContainsFacilitiesCount", "CoolingLoopsCount",
               "ElectricalBusesCount", "FloorPDUsCount", "ImmersionUnitsCount", "ManagedByCount",
               "PowerShelvesCount", "RackPDUsCount", "SwitchgearCount", "TransferSwitchesCount"}]

FacilityDecode ==
  [one |-> [environmentMetrics |-> "EnvironmentMetrics", powerDomains |-> "PowerDomains",
            containedByFacility |-> "Links.ContainedByFacility"],
   many |-> [cdus |-> "Links.CDUs", containsChassis |-> "Links.ContainsChassis",
             containsFacilities |-> "Links.ContainsFacilities", coolingLoops |-> "Links.CoolingLoops",
             electricalBuses |-> "Links.ElectricalBuses", floorPDUs |-> "Links.FloorPDUs",
             immersionUnits |-> "Links.ImmersionUnits", managedBy |-> "Links.ManagedBy",
             powerShelves |-> "Links.PowerShelves", rackPDUs |-> "Links.RackPDUs",
             switchgear |-> "Links.Switchgear", transferSwitches |-> "Links.TransferSwitches"],
   count |-> [CDUsCount |-> "Links.CDUs", ContainsChassisCount |-> "Links.ContainsChassis",
              ContainsFacilitiesCount |-> "Links.ContainsFacilities", CoolingLoopsCount |-> "Links.CoolingLoops",
              ElectricalBusesCount |-> "Links.ElectricalBuses", FloorPDUsCount |-> "Links.FloorPDUs",
              ImmersionUnitsCount |-> "Links.ImmersionUnits", ManagedByCount |-> "Links.ManagedBy",
              PowerShelvesCount |-> "Links.PowerShelves", RackPDUsCount |-> "Links.RackPDUs",
              SwitchgearCount |-> "Links.Switchgear", TransferSwitchesCount |-> "Links.TransferSwitches"]]

FacilityFromCDUs ==
  [CDUs |-> Objects("cdus", "CoolingUnit"), ContainedByFacility |-> GetIf("containedByFacility", "Facility"),
   ContainsChassis |-> Objects("containsChassis", "Chassis"),
   ContainsFacilities |-> Objects("containsFacilities", "Facility"),
   CoolingLoops |-> Objects("coolingLoops", "CoolingLoop"),
   ElectricalBuses |-> Objects("electricalBuses", "PowerDistribution"),
   FloorPDUs |-> Objects("floorPDUs", "PowerDistribution"),
   ImmersionUnits |-> Objects("immersionUnits", "CoolingUnit"), ManagedBy |-> Objects("managedBy", "Manager"),
   PowerShelves |-> Objects("powerShelves", "PowerDistribution"),
   RackPDUs |-> Objects("rackPDUs", "PowerDistribution"),
   Switchgear |-> Objects("switchgear", "PowerDistribution"),
   TransferSwitches |-> Objects("transferSwitches", "PowerDistribution")]

\* CoolingUnit (redfish/coolingunit.go)
CoolingUnitFields ==
  [fields |-> {"AllowedCoolingUnitModes", "AssetTag", "Coolant", "CoolingCapacityWatts", "Description",
               "EquipmentType", "FilterRedundancy", "FirmwareVersion", "Location", "LocationIndicatorActive",
               "Manufacturer", "Model", "PartNumber", "ProductionDate", "PumpRedundancy", "SerialNumber",
               "Status", "UserLabel", "Version", "Links"}]

CoolingUnitDecode ==
  [one |-> [assembly |-> "Assembly", environmentMetrics |-> "EnvironmentMetrics", filters |-> "Filters",
            leakDetection |-> "LeakDetection", primaryCoolantConnectors |-> "PrimaryCoolantConnectors",
            pumps |-> "Pumps", reservoirs |-> "Reservoirs",
            secondaryCoolantConnectors |-> "SecondaryCoolantConnectors"],
   many |-> [coolantConnectorRedundancy |-> "CoolantConnectorRedundancy"], target |-> [setMode |-> "#SetMode"],
   keeps |-> TRUE]

CoolingUnitFromSetMode ==
  [SetMode |-> Post("setMode"), Update |-> Patch({"AssetTag", "LocationIndicatorActive", "UserLabel"}),
   Assembly |-> Members("assembly", "Assembly"),
   EnvironmentMetrics |-> GetIf("environmentMetrics", "EnvironmentMetrics"),
   Filters |-> Members("filters", "Filter"), LeakDetection |-> GetIf("leakDetection", "LeakDetection"),
   PrimaryCoolantConnectors |-> Members("primaryCoolantConnectors", "CoolantConnector"),
   Pumps |-> Members("pumps", "Pump"), Reservoirs |-> Members("reservoirs", "Reservoir"),
   SecondaryCoolantConnectors |-> Members("secondaryCoolantConnectors", "CoolantConnector")]

\* CoolingLoop (redfish/coolingloop.go)
CoolingLoopDocument ==
  [fields |-> {"ConsumingEquipmentNames", "Coolant", "CoolantLevelPercent", "CoolantLevelStatus",
               "CoolantQuality", "CoolingManagerURI", "Description", "LocationIndicatorActive",
               "RatedFlowLitersPerMinute", "RatedPressurekPa", "Status", "SupplyEquipmentNames", "UserLabel",
               "ManagedByCount"},
   counts |-> {"ManagedByCount"},
   one |-> [primaryCoolantConnectors |-> "PrimaryCoolantConnectors",
            secondaryCoolantConnectors |-> "SecondaryCoolantConnectors", chassis |-> "Links.Chassis",
            facility |-> "Links.Facility"],
   many |-> [managedBy |-> "Links.ManagedBy"], count |-> [ManagedByCount |-> "Links.ManagedBy"], keeps |-> TRUE]

CoolingLoopFromUpdate ==
  [Update |-> Patch({"ConsumingEquipmentNames", "CoolingManagerURI", "LocationIndicatorActive",
                     "SupplyEquipmentNames", "UserLabel"}),
   PrimaryCoolantConnectors |-> Members("primaryCoolantConnectors", "CoolantConnector"),
   SecondaryCoolantConnectors |-> Members("secondaryCoolantConnectors", "CoolantConnector"),
   Chassis |-> Get("chassis", "Chassis"), Facility |-> Get("chassis", "Facility"),
   ManagedBy |-> Objects("managedBy", "Manager")]

\* Heater (redfish/heater.go)
HeaterDocument ==
  [fields |-> {"Description", "HotPluggable", "Location", "LocationIndicatorActive", "Manufacturer", "Model",
               "Oem", "PartNumber", "PhysicalContext", "SerialNumber", "SparePartNumber", "Status",
               "ManagersCount", "MemoryCount", "NetworkAdaptersCount", "ProcessorsCount",
               "StorageControllersCount"},
   counts |-> {"ManagersCount", "MemoryCount", "NetworkAdaptersCount", "ProcessorsCount",
               "StorageControllersCount"},
   one |-> [assembly |-> "Assembly", metrics |-> "Metrics"],
   many |-> [managers |-> "Links.Managers", memory |-> "Links.Memory",
             networkAdapters |-> "Links.NetworkAdapters", processors |-> "Links.Processors",
             storageControllers |-> "Links.StorageControllers"],
   count |-> [ManagersCount |-> "Links.Managers", MemoryCount |-> "Links.Memory",
              NetworkAdaptersCount |-> "Links.NetworkAdapters", ProcessorsCount |-> "Links.Processors",
              StorageControllersCount |-> "Links.StorageControllers"],
   keeps |-> TRUE]

HeaterFromAssembly ==
  [Assembly |-> GetIf("assembly", "Assembly"), Managers |-> Objects("managers", "Manager"),
   Memory |-> Objects("memory", "Memory"), NetworkAdapters |-> Objects("networkAdapters", "NetworkAdapter"),
   Processors |-> Objects("processors", "Processor"),
   StorageControllers |-> Objects("storageControllers", "StorageController"),
   Metrics |-> GetIf("metrics", "HeaterMetrics"), Update |-> Patch({"LocationIndicatorActive"})]

\* CoolantConnector (redfish/coolantconnector.go)
CoolantConnectorDocument ==
  [fields |-> {"Coolant", "CoolantConnectorType", "CoolingLoopName", "CoolingManagerURI", "DeltaPressurekPa",
               "DeltaPressureControlkPa", "DeltaTemperatureCelsius", "DeltaTemperatureControlCelsius",
               "Description", "FlowLitersPerMinute", "FlowControlLitersPerMinute", "HeatRemovedkW",
               "LocationIndicatorActive", "RatedFlowLitersPerMinute", "RatedFlowPressurekPa", "RatedPressurekPa",
               "ReturnPressurekPa", "ReturnTemperatureCelsius", "ReturnTemperatureControlCelsius", "Status",
               "SupplyPressurekPa", "SupplyTemperatureCelsius", "SupplyTemperatureControlCelsius",
               "ValvePositionControlPercent", "ValvePositionPercent", "ConnectedChassisCount"},
   counts |-> {"ConnectedChassisCount"},
   one |-> [connectedCoolingLoop |-> "Links.ConnectedCoolingLoop",
            connectedCoolingUnit |-> "Links.ConnectedCoolingUnit"],
   many |-> [connectedChassis |-> "Links.ConnectedChassis"],
   count |-> [ConnectedChassisCount |-> "Links.ConnectedChassis"], keeps |-> TRUE]

CoolantConnectorFromUpdate ==
  [Update |-> Patch({"CoolingLoopName", "CoolingManagerURI", "DeltaPressureControlkPa",
                     "DeltaTemperatureControlCelsius", "FlowControlLitersPerMinute", "LocationIndicatorActive",
                     "ReturnTemperatureControlCelsius", "SupplyTemperatureControlCelsius",
                     "ValvePositionControlPercent"}),
   ConnectedChassis |-> Objects("connectedChassis", "Chassis"),
   ConnectedCoolingLoop |-> Get("connectedCoolingLoop", "CoolingLoop"),
   ConnectedCoolingUnit |-> Get("connectedCoolingUnit", "CoolingUnit")]

\* Pump (redfish/pump.go)
PumpFields ==
  [fields |-> {"AssetTag", "Description", "FirmwareVersion", "InletPressurekPa", "Location",
               "LocationIndicatorActive", "Manufacturer", "Model", "Oem", "PartNumber", "PhysicalContext",
               "ProductionDate", "PumpSpeedPercent", "PumpType", "SerialNumber", "ServiceHours",
               "SparePartNumber", "SpeedControlPercent", "Status", "UserLabel", "Version"}]

PumpDecode ==
  [one |-> [assembly |-> "Assembly"], inline |-> [filters |-> "Filters"], target |-> [setMode |-> "#SetMode"],
   keeps |-> TRUE]

PumpFromSetMode ==
  [SetMode |-> Post("setMode"), Assembly |-> GetIf("assembly", "Assembly"),
   Filters |-> Objects("filters", "Filter"),
   Update |-> Patch({"AssetTag", "LocationIndicatorActive", "ServiceHours", "SpeedControlPercent", "UserLabel"})]

\* Fan (redfish/fan.go)
Fan ==
  Resource(
    [fields |-> {"Description", "FanDiameterMm", "HotPluggable", "Location", "LocationIndicatorActive",
                 "Manufacturer", "Model", "Oem", "PartNumber", "PhysicalContext", "PowerWatts", "Replaceable",
                 "SecondarySpeedPercent", "SerialNumber", "SparePartNumber", "SpeedPercent", "Status",
                 "CoolingChassisCount"},
     counts |-> {"CoolingChassisCount"}, one |-> [assembly |-> "Assembly"],
     many |-> [coolingChassis |-> "Links.CoolingChassis"],
     count |-> [CoolingChassisCount |-> "Links.CoolingChassis"], keeps |-> TRUE],
    [Assembly |-> GetIf("assembly", "Assembly"), CoolingChassis |-> Objects("coolingChassis", "Chassis"),
     Update |-> Patch({"LocationIndicatorActive"})])

\* ThermalSubsystem (redfish/thermalsubsystem.go)
ThermalSubsystem ==
  Resource(
    [fields |-> {"CoolantConnectorRedundancy", "Description", "FanRedundancy", "LocationIndicatorActive", "Oem",
                 "Status"},
     one |-> [coolantConnectors |-> "CoolantConnectors", fans |-> "Fans", heaters |-> "Heaters",
              leakDetection |-> "LeakDetection", pumps |-> "Pumps", thermalMetrics |-> "ThermalMetrics",
              filters |-> "Filters"]],
    [CoolantConnectors |-> Members("coolantConnectors", "CoolantConnector"), Fans |-> Members("fans", "Fan"),
     Heaters |-> Members("heaters", "Heater"), LeakDetection |-> GetIf("leakDetection", "LeakDetection"),
     Pumps |-> Members("pumps", "Pump"), Filters |-> Members("filters", "Filter"),
     ThermalMetrics |-> GetIf("thermalMetrics", "ThermalMetrics")])

\* EnvironmentMetrics (redfish/environmentmetrics.go)
EnvironmentMetrics ==
  Resource(
    [fields |-> {"AbsoluteHumidity", "Description", "DewPointCelsius", "EnergyJoules", "EnergykWh",
                 "FanSpeedsPercent", "FanSpeedsPercentCount", "HumidityPercent", "Oem", "PowerLimitWatts",
                 "PowerLoadPercent", "PowerWatts", "TemperatureCelsius"},
     counts |-> {"FanSpeedsPercentCount"},
     target |-> [resetMetricsTarget |-> "#ResetMetrics", resetToDefaultsTarget |-> "#ResetToDefaults"],
     count |-> [FanSpeedsPercentCount |-> "FanSpeedsPercent"], keeps |-> TRUE],
    [ResetMetrics |-> Post("resetMetricsTarget"), ResetToDefaults |-> Post("resetToDefaultsTarget"),
     Update |-> Patch({"PowerLimitWatts"})])

\* Sensor (redfish/sensor.go)
SensorFields ==
  [fields |-> {"Accuracy", "AdjustedMaxAllowableOperatingValue", "AdjustedMinAllowableOperatingValue",
               "ApparentkVAh", "ApparentVA", "AverageReading", "AveragingInterval", "AveragingIntervalAchieved",
               "Calibration", "CalibrationTime", "CrestFactor", "ElectricalContext", "Enabled", "Implementation",
               "LifetimeReading", "LifetimeStartDateTime", "LoadPercent", "Location", "LowestReading",
               "LowestReadingTime", "MaxAllowableOperatingValue", "MinAllowableOperatingValue", "PeakReading",
               "PeakReadingTime", "PhaseAngleDegrees", "PhysicalContext", "PhysicalSubContext", "PowerFactor",
               "Precision", "ReactivekVARh", "ReactiveVAR", "Reading", "ReadingAccuracy", "ReadingBasis",
               "ReadingRangeMax", "ReadingRangeMin", "ReadingTime", "ReadingType", "ReadingUnits", "RelatedItem",
               "RelatedItemCount", "SensingFrequency", "SensingInterval", "SensorGroup", "SensorResetTime",
               "SpeedRPM", "Status", "THDPercent", "Thresholds", "UserLabel", "VoltageType",
               "AssociatedControls", "AssociatedControlsCount", "Oem", "OemActions", "OemLinks"},
   counts |-> {"RelatedItemCount", "AssociatedControlsCount"}]

\* Deviation: both counts are taken from one list.
SensorDecode_OneCount ==
  [many |-> [RelatedItem |-> "RelatedItem", AssociatedControls |-> "Links.AssociatedControls"],
   target |-> [resetMetricsTarget |-> "#ResetMetrics", resetToDefaultsTarget |-> "#ResetToDefaults"],
   count |-> [RelatedItemCount |-> "RelatedItem", AssociatedControlsCount |-> "RelatedItem"]]

SensorDecode ==
  [many |-> [RelatedItem |-> "RelatedItem", AssociatedControls |-> "Links.AssociatedControls"],
   target |-> [resetMetricsTarget |-> "#ResetMetrics", resetToDefaultsTarget |-> "#ResetToDefaults"],
   count |-> [RelatedItemCount |-> "RelatedItem", AssociatedControlsCount |-> "AssociatedControls"]]

\* Deviation: one action posts to the target of the other.
SensorFromResetMetrics_Copied ==
  [ResetMetrics |-> Post("resetMetricsTarget"), ResetToDefaults |-> Post("resetMetricsTarget")]

SensorFromResetMetrics ==
  [ResetMetrics |-> Post("resetMetricsTarget"), ResetToDefaults |-> Post("resetToDefaultsTarget")]

\* Control (redfish/control.go)
ControlDocument ==
  [fields |-> {"AllowableMax", "AllowableMin", "AllowableNumericValues", "AssociatedSensorsCount",
               "ControlDelaySeconds", "ControlLoop", "ControlMode", "ControlType", "DeadBand", "DefaultSetPoint",
               "Description", "Implementation", "Increment", "Location", "PhysicalContext", "PhysicalSubContext",
               "RelatedItemCount", "Sensor", "SetPoint", "SetPointAccuracy", "SetPointType", "SetPointUnits",
               "SetPointUpdateTime", "SettingMax", "SettingMin", "Status"},
   counts |-> {"AssociatedSensorsCount", "RelatedItemCount"},
   many |-> [associatedSensors |-> "AssociatedSensors", relatedItem |-> "RelatedItem"],
   target |-> [resetToDefaultsTarget |-> "#ResetToDefaults"],
   count |-> [AssociatedSensorsCount |-> "AssociatedSensors", RelatedItemCount |-> "RelatedItem"], keeps |-> TRUE]

ControlFromUpdate ==
  [Update |-> Patch({"ControlDelaySeconds", "ControlMode", "DeadBand", "SetPoint", "SettingMax", "SettingMin"}),
   ResetToDefault |-> Post("resetToDefaultsTarget")]

\* Reservoir (redfish/reservoir.go)
Reservoir ==
  Resource(
    [fields |-> {"CapacityLiters", "Coolant", "Description", "FluidLevelPercent", "FluidLevelStatus",
                 "InternalPressurekPa", "Location", "LocationIndicatorActive", "Manufacturer", "Model", "Oem",
                 "PartNumber", "PhysicalContext", "ReservoirType", "SerialNumber", "SparePartNumber", "Status",
                 "UserLabel"},
     one |-> [assembly |-> "Assembly"], inline |-> [filters |-> "Filters"], keeps |-> TRUE],
    [Assembly |-> GetIf("assembly", "Assembly"), Filters |-> Objects("filters", "Filter"),
     Update |-> Patch({"LocationIndicatorActive", "UserLabel"})])

\* Filter (redfish/filter.go)
Filter ==
  Resource(
    [fields |-> {"DeltaLiquidPressurekPa", "Description", "HotPluggable", "Location", "LocationIndicatorActive",
                 "Manufacturer", "Model", "Oem", "PartNumber", "PhysicalContext", "RatedServiceHours",
                 "Replaceable", "SerialNumber", "ServiceHours", "ServicedDate", "SparePartNumber", "Status",
                 "UserLabel"},
     one |-> [assembly |-> "Assembly"], keeps |-> TRUE],
    [Assembly |-> GetIf("assembly", "Assembly"),
     Update |-> Patch({"LocationIndicatorActive", "ServiceHours", "ServicedDate", "UserLabel"})])

\* Cable (redfish/cable.go)
CableDocument ==
  [fields |-> {"Assembly", "AssetTag", "CableClass", "CableStatus", "CableType", "Description",
               "DownstreamConnectorTypes", "DownstreamName", "LengthMeters", "Location", "Manufacturer", "Model",
               "Oem", "PartNumber", "SKU", "SerialNumber", "Status", "UpstreamConnectorTypes", "UpstreamName",
               "UserDescription", "UserLabel", "Vendor", "DownstreamChassisCount", "DownstreamPortsCount",
               "DownstreamResourcesCount", "UpstreamChassisCount", "UpstreamPortsCount",
               "UpstreamResourcesCount"},
   counts |-> {"DownstreamChassisCount", "DownstreamPortsCount", "DownstreamResourcesCount",
               "UpstreamChassisCount", "UpstreamPortsCount", "UpstreamResourcesCount"},
   many |-> [downstreamChassis |-> "Links.DownstreamChassis", downstreamPorts |-> "Links.DownstreamPorts",
             downstreamResources |-> "Links.DownstreamResources", upstreamChassis |-> "Links.UpstreamChassis",
             upstreamPorts |-> "Links.UpstreamPorts", upstreamResources |-> "Links.UpstreamResources"],
   keeps |-> TRUE]

CableFromDownstreamChassis ==
  [DownstreamChassis |-> Objects("downstreamChassis", "Chassis"),
   DownstreamPorts |-> Objects("downstreamPorts", "Port"),
   UpstreamChassis |-> Objects("upstreamChassis", "Chassis"), UptreamPorts |-> Objects("upstreamPorts", "Port"),
   Update |-> Patch({"AssetTag", "CableClass", "CableStatus", "CableType", "DownstreamConnectorTypes",
                     "DownstreamName", "LengthMeters", "Manufacturer", "Model", "PartNumber", "SKU",
                     "SerialNumber", "UpstreamConnectorTypes", "UpstreamName", "UserDescription", "UserLabel",
                     "Vendor"})]

\* LeakDetector (redfish/leakdetector.go)
LeakDetectorFields ==
  [fields |-> {"Description", "Oem", "CriticalReactionType", "CurrentAmps", "DetectorState", "Enabled",
               "LeakDetectorType", "Location", "Manufacturer", "Model", "PartNumber", "PhysicalContext",
               "PhysicalSubContext", "ReactionDelaySeconds", "SKU", "SensingFrequency", "SerialNumber",
               "SparePartNumber", "Status", "UserLabel", "Voltage", "WarningReactionType"}]

LeakDetectorFromUpdate ==
  [Update |-> Patch({"Enabled", "ReactionDelaySeconds", "CriticalReactionType", "WarningReactionType",
                     "UserLabel"})]

\* The types of this module by name.
EquipmentTypes ==
  [Chassis |-> Resource(ChassisFields @@ ChassisDecode,
                        ChassisFromUpdate @@ ChassisFromThermal @@ ChassisFromFans @@ ChassisFromAssembly),
   Power |-> Power,
   PowerSupply |-> Resource(PowerSupplyDocument, PowerSupplyFromAssembly),
   PowerDistribution |-> Resource(PowerDistributionFields @@ PowerDistributionDecode,
                                  PowerDistributionFromUpdate @@ PowerDistributionFromFacility),
   Circuit |-> Resource(CircuitFields @@ CircuitDecode, CircuitFromUpdate),
   Outlet |-> Resource(OutletFields @@ OutletDecode, OutletFromPowerControl),
   OutletGroup |-> Resource(OutletGroupDocument, OutletGroupFromPowerControl),
   PowerSupplyUnit |-> Resource(PowerSupplyUnitDocument, PowerSupplyUnitFromUpdate),
   PowerSubsystem |-> PowerSubsystem,
   PowerDomain |-> Resource(PowerDomainDocument, PowerDomainFromElectricalBuses),
   Battery |-> Resource(BatteryDocument, BatteryFromUpdate),
   Facility |-> Resource(FacilityFields @@ FacilityDecode, FacilityFromCDUs),
   CoolingUnit |-> Resource(CoolingUnitFields @@ CoolingUnitDecode, CoolingUnitFromSetMode),
   CoolingLoop |-> Resource(CoolingLoopDocument, CoolingLoopFromUpdate),
   Heater |-> Resource(HeaterDocument, HeaterFromAssembly),
   CoolantConnector |-> Resource(CoolantConnectorDocument, CoolantConnectorFromUpdate),
   Pump |-> Resource(PumpFields @@ PumpDecode, PumpFromSetMode),
   Fan |-> Fan,
   ThermalSubsystem |-> ThermalSubsystem,
   EnvironmentMetrics |-> EnvironmentMetrics,
   Sensor |-> Resource(SensorFields @@ SensorDecode, SensorFromResetMetrics),
   Control |-> Resource(ControlDocument, ControlFromUpdate),
   Reservoir |-> Reservoir,
   Filter |-> Filter,
   Cable |-> Resource(CableDocument, CableFromDownstreamChassis),
   LeakDetector |-> Resource(LeakDetectorFields, LeakDetectorFromUpdate)]
==================================================================================
