-------------------------- MODULE MC_ResourceClaims -------------------------
(***************************************************************************)
(* The exceptions of MC_Resources against the comments that claim what     *)
(* they give up: an application that goes from type to type and looks, one *)
(* comment after the other, whether it is so.                              *)
(***************************************************************************)
EXTENDS MC_Resources

\* The claims of Resources, one or more for each of Crossed, Uncounted, Unkept, Drifting and Parts.
Holding(claim) ==
  CASE claim = "action" -> ActionsAreOwn
    [] claim = "link"   -> AccessorsFollowTheirOwn
    [] claim = "count"  -> CountsAreGiven
    [] claim = "update" -> UpdateCommitsItsList

About(claim, types) == [i \in DOMAIN types |-> [claim |-> claim, type |-> types[i]]]

\* What is claimed of which type; the property below quotes where.
Claims ==
  About("action", <<"StoragePool">>)
  \o About("link", <<"CoolingLoop", "PowerSupplyUnit", "VirtualMedia", "StorageService", "FileSystem", "StoragePool">>)
  \o About("count", <<"Cable", "USBController", "Chassis", "LogEntry">>)
  \o About("update", <<"Port", "NetworkAdapter", "DataStorageLineOfService", "LeakDetector">>)
  \o About("update", <<"Chassis", "ComputerSystem", "Manager">>)
  \o About("update", <<"PowerSupply", "Redundancy", "ThermalFan", "Temperature", "StorageController",
                       "ExternalAccountProvider", "EnvironmentMetrics", "NetworkDeviceFunction", "MemoryChunks",
                       "MemoryRegion", "IOConnectivityLineOfService", "IOPerformanceLineOfService">>)

ClaimedTypes == Restrict(AllTypes, {Claims[i].type : i \in DOMAIN Claims})

VARIABLE refuted  \* how many of Claims, in their order, the application has seen fail

Claim == Claims[refuted + 1]
Fails == kind = Claim.type /\ ~Holding(Claim.claim)

\* A step of the application, which knows whether the claim failed before it.  Bound: what it
\* opens is of the type that the claim is about.
Step ==
  /\ refuted < Len(Claims)
  /\ Next /\ kind' \in {kind, "none", Claim.type}
  /\ refuted' = IF Fails THEN refuted + 1 ELSE refuted

InitClaims == Init /\ refuted = 0
SpecClaims == InitClaims /\ [][Step]_<<vars, refuted>>

\* One of these comments is true of the code, in every behaviour: "SetDeduplicationState will set
\* the dedupe state of the storage pool" (swordfish/storagepool.go:569); "Outlet get the outlet
\* connected to this power supply" (redfish/powersupplyunit.go:294, and those named in Resources);
\* "DownstreamChassisCount is the number of physical downstream containers connected to this cable"
\* (redfish/cable.go:166, and those); "Update commits updates to this object's properties to the
\* running system" (redfish/port.go:993, chassis.go:574, thermal.go:116 and their like), and "rawData
\* holds the original serialized JSON so we can compare updates" (leakdetector.go:74).  Its
\* violation is one behaviour in which each of them fails, for every type of Claims in turn.
ResourceClaimHolds == refuted < Len(Claims)
=============================================================================
