------------------------------ MODULE UiServices ------------------------------
(***************************************************************************)
(* The REST operations of the Web UI's services, by what one execution of  *)
(* them does at the server.  A "create" executed twice leaves two objects  *)
(* (or sends two messages); the others can be executed again.              *)
(***************************************************************************)
EXTENDS FiniteSets

Effects == {"read", "put", "delete", "create"}

DeviceApi ==
  [read   |-> {"getDevices", "getModulesFields", "getJobs", "getJobStatus",
               "getDeviceProperties"},
   put    |-> {}, delete |-> {"deleteDevice"},
   create |-> {"submitJob", "provisionDevice"}]

DeploymentApi ==
  [read   |-> {"getDeployments", "getDeployment", "getModulesByQuery", "getDevicesByQuery",
               "getDevicesByQueryForDeployment", "getModulesByQueryForDeployment",
               "getDeploymentDetails", "getDeploymentReport", "getDeviceStatistics",
               "getDeploymentHistoryForSelectedDevice", "getDevicesReportByQuery"},
   put    |-> {"reactivateDeployment"}, delete |-> {"deleteDeployment"},
   create |-> {"createDeployment", "sendCloudToDeviceMessages"}]

TelemetryApi ==
  [read   |-> {"getStatus", "getRules", "getAlerts", "getActiveAlerts", "getAlertsForRule",
               "getTelemetryByMessages", "getDeviceUploads", "getDeviceUploadsFileContent"},
   put    |-> {"updateRule", "updateAlertStatus"}, delete |-> {"deleteAlerts", "deleteRule"},
   create |-> {"createRule"}]

SettingsApi ==
  [read   |-> {"getDeviceGroups", "getLogo", "getSolutionSettings",
               "getDefaultFirmwareSetting", "getActionSettings"},
   put    |-> {"updateDeviceGroup", "setLogo", "updateSolutionSettings",
               "setDefaultFirmwareSetting"},
   delete |-> {"deleteDeviceGroup"}, create |-> {"createDeviceGroup"}]

PackageApi ==
  [read   |-> {"getPackages", "getFilteredPackages", "getConfigTypes", "getColumnMappings",
               "getColumnOptions"},
   put    |-> {"deactivatePackage", "addPackageTag", "updateColumnMappings",
               "updateColumnOptions"},
   delete |-> {"activatePackage", "removePackageTag", "deletePackage",
               "deleteColumnMapping"},
   create |-> {"createPackage", "uploadFirmware", "createColumnMappings",
               "saveColumnOptions"}]

IdentityApi ==
  [read   |-> {"getUsers", "getAllNonSystemAdmins", "getAllSystemAdmins",
               "getUserActiveDeviceGroup", "VerifyAndRefreshCache", "getDashboardMode"},
   put    |-> {"addSystemAdmin", "addSP", "updateUserActiveDeviceGroup"},
   delete |-> {"deleteUser", "deleteSystemAdmin"}, create |-> {"invite"}]

\* getAlertingStatus(true) creates what is missing; createTenant makes a new GUID each time.
TenantApi ==
  [read   |-> {"getAllTenants", "tenantIsDeployed", "getGrafanaUrl", "getGrafanaOrgId"},
   put    |-> {"getAlertingStatus", "alertingEnable", "alertingStart", "alertingStop",
               "updateTenant"},
   delete |-> {"deleteTenant", "alertingDisable"}, create |-> {"createTenant"}]

\* toggleSimulation and updateSimulatedDevices carry the ETag that was read.
SimulationApi ==
  [read   |-> {"getDeviceModelSelectOptions", "getSimulatedDevices"},
   put    |-> {"updateSimulatedDevices", "toggleSimulation"}, delete |-> {}, create |-> {}]

Apis == {DeviceApi, DeploymentApi, TelemetryApi, SettingsApi, PackageApi, IdentityApi,
         TenantApi, SimulationApi}

Operations == UNION {api[e] : api \in Apis, e \in Effects}

\* "a 404 is thrown by some device telemetry apis when a collection does not exist": these
\* answer as if there was nothing.
Catches404 == {"getRules", "getAlerts", "getActiveAlerts", "getAlertsForRule",
               "getTelemetryByMessages", "getDefaultFirmwareSetting"}

\* getSolutionSettings completes without an answer then.
Empty404 == {"getSolutionSettings"}

\* What the HttpClient has to know of an operation.
Kinds == {"read", "catches404", "empty404", "write"}
KindOf(op) == IF op \in Catches404 THEN "catches404"
              ELSE IF op \in Empty404 THEN "empty404"
              ELSE IF \E api \in Apis : op \in api["read"] THEN "read" ELSE "write"
================================================================================
