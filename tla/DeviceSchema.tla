---------------------------- MODULE DeviceSchema ----------------------------
(***************************************************************************)
(* The YANG schema the model is generated from (gnmi/model/gostruct): one  *)
(* definition per Go struct, children first, named by the end of its Go    *)
(* name.  The structs below /system are in SystemSchema.tla.               *)
(***************************************************************************)
EXTENDS SystemSchema

SingleKeyList == List(<<"list-key">>,
    {"country-code", "dial-code", "list-key"},
    None)

MultipleKeyList == List(<<"str", "integer">>, {"integer", "ok", "str"}, None)
ContainerVal == Container({"enum-val"}, "leaf-list-val" :> LeafList)

Sample == Container(
    {"empty-val", "str-val"},
    "container-val" :> ContainerVal @@
    "multiple-key-list" :> MultipleKeyList @@ "single-key-list" :> SingleKeyList)

PersistentSubscription_State == Leaves(
    {"encoding", "id", "local-source-address", "name",
     "originated-qos-marking", "protocol"})

SensorProfile_State == Leaves(
    {"heartbeat-interval", "sample-interval", "sensor-group",
     "suppress-redundant"})

SensorProfile_Config == Leaves(
    {"heartbeat-interval", "sample-interval", "sensor-group",
     "suppress-redundant"})

SensorProfile == List(<<"sensor-group">>,
    {"sensor-group"},
    "config" :> SensorProfile_Config @@ "state" :> SensorProfile_State)

SensorProfiles == Container({}, "sensor-profile" :> SensorProfile)

PersistentSubscription_DestinationGroups_DestinationGroup_State == Leaves(
    {"group-id"})

PersistentSubscription_DestinationGroups_DestinationGroup_Config == Leaves(
    {"group-id"})

PersistentSubscription_DestinationGroups_DestinationGroup == List(<<"group-id">>,
    {"group-id"},
    "config" :> PersistentSubscription_DestinationGroups_DestinationGroup_Config @@
    "state" :> PersistentSubscription_DestinationGroups_DestinationGroup_State)

PersistentSubscription_DestinationGroups == Container(
    {},
    "destination-group" :> PersistentSubscription_DestinationGroups_DestinationGroup)

PersistentSubscription_Config == Leaves(
    {"encoding", "local-source-address", "name", "originated-qos-marking",
     "protocol"})

PersistentSubscription == List(<<"name">>,
    {"name"},
    "config" :> PersistentSubscription_Config @@
    "destination-groups" :> PersistentSubscription_DestinationGroups @@
    "sensor-profiles" :> SensorProfiles @@
    "state" :> PersistentSubscription_State)

PersistentSubscriptions == Container(
    {},
    "persistent-subscription" :> PersistentSubscription)

DynamicSubscription_State == Leaves(
    {"destination-address", "destination-port", "encoding",
     "heartbeat-interval", "id", "originated-qos-marking", "protocol",
     "sample-interval", "suppress-redundant"})

DynamicSubscription_SensorPaths_SensorPath_State == Leaves(
    {"exclude-filter", "path"})

DynamicSubscription_SensorPaths_SensorPath == List(<<"path">>,
    {"path"},
    "state" :> DynamicSubscription_SensorPaths_SensorPath_State)

DynamicSubscription_SensorPaths == Container(
    {},
    "sensor-path" :> DynamicSubscription_SensorPaths_SensorPath)

DynamicSubscription == List(<<"id">>,
    {"id"},
    "sensor-paths" :> DynamicSubscription_SensorPaths @@
    "state" :> DynamicSubscription_State)

DynamicSubscriptions == Container(
    {},
    "dynamic-subscription" :> DynamicSubscription)

Subscriptions == Container(
    {},
    "dynamic-subscriptions" :> DynamicSubscriptions @@
    "persistent-subscriptions" :> PersistentSubscriptions)

SensorGroup_State == Leaves({"sensor-group-id"})
SensorGroup_SensorPaths_SensorPath_State == Leaves({"exclude-filter", "path"})
SensorPath_Config == Leaves({"exclude-filter", "path"})

SensorGroup_SensorPaths_SensorPath == List(<<"path">>,
    {"path"},
    "config" :> SensorPath_Config @@
    "state" :> SensorGroup_SensorPaths_SensorPath_State)

SensorGroup_SensorPaths == Container(
    {},
    "sensor-path" :> SensorGroup_SensorPaths_SensorPath)

SensorGroup_Config == Leaves({"sensor-group-id"})

SensorGroup == List(<<"sensor-group-id">>,
    {"sensor-group-id"},
    "config" :> SensorGroup_Config @@
    "sensor-paths" :> SensorGroup_SensorPaths @@ "state" :> SensorGroup_State)

SensorGroups == Container({}, "sensor-group" :> SensorGroup)
TelemetrySystem_DestinationGroups_DestinationGroup_State == Leaves({"group-id"})
Destination_State == Leaves({"destination-address", "destination-port"})
Destination_Config == Leaves({"destination-address", "destination-port"})

Destination == List(<<"destination-address", "destination-port">>,
    {"destination-address", "destination-port"},
    "config" :> Destination_Config @@ "state" :> Destination_State)

Destinations == Container({}, "destination" :> Destination)

TelemetrySystem_DestinationGroups_DestinationGroup_Config == Leaves(
    {"group-id"})

TelemetrySystem_DestinationGroups_DestinationGroup == List(<<"group-id">>,
    {"group-id"},
    "config" :> TelemetrySystem_DestinationGroups_DestinationGroup_Config @@
    "destinations" :> Destinations @@
    "state" :> TelemetrySystem_DestinationGroups_DestinationGroup_State)

TelemetrySystem_DestinationGroups == Container(
    {},
    "destination-group" :> TelemetrySystem_DestinationGroups_DestinationGroup)

TelemetrySystem == Container(
    {},
    "destination-groups" :> TelemetrySystem_DestinationGroups @@
    "sensor-groups" :> SensorGroups @@ "subscriptions" :> Subscriptions)

Subcomponent_State == Leaves({"name"})
Subcomponent_Config == Leaves({"name"})

Subcomponent == List(<<"name">>,
    {"name"},
    "config" :> Subcomponent_Config @@ "state" :> Subcomponent_State)

Subcomponents == Container({}, "subcomponent" :> Subcomponent)
Storage_State == Leaves({})
Storage_Config == Leaves({})
Storage == Container({}, "config" :> Storage_Config @@ "state" :> Storage_State)

Temperature == Leaves(
    {"alarm-severity", "alarm-status", "alarm-threshold", "avg", "instant",
     "interval", "max", "max-time", "min", "min-time"})

State_Memory == Leaves({"available", "utilized"})

Component_State == Container(
    {"allocated-power", "description", "empty", "equipment-failure",
     "equipment-mismatch", "firmware-version", "hardware-version", "id",
     "location", "mfg-date", "mfg-name", "name", "oper-status", "parent",
     "part-no", "removable", "serial-no", "software-version", "type",
     "used-power"},
    "memory" :> State_Memory @@ "temperature" :> Temperature)

Property_State == Leaves({"configurable", "name", "value"})
Property_Config == Leaves({"name", "value"})

Property == List(<<"name">>,
    {"name"},
    "config" :> Property_Config @@ "state" :> Property_State)

Properties == Container({}, "property" :> Property)
PowerSupply_State == Leaves({})
PowerSupply_Config == Leaves({})

PowerSupply == Container(
    {},
    "config" :> PowerSupply_Config @@ "state" :> PowerSupply_State)

Port_State == Leaves({})
Port_Config == Leaves({})
Port == Container({}, "config" :> Port_Config @@ "state" :> Port_State)
IntegratedCircuit_State == Leaves({})
IntegratedCircuit_Config == Leaves({})

IntegratedCircuit == Container(
    {},
    "config" :> IntegratedCircuit_Config @@ "state" :> IntegratedCircuit_State)

Fan_State == Leaves({})
Fan_Config == Leaves({})
Fan == Container({}, "config" :> Fan_Config @@ "state" :> Fan_State)
Fabric_State == Leaves({})
Fabric_Config == Leaves({})
Fabric == Container({}, "config" :> Fabric_Config @@ "state" :> Fabric_State)
Component_Cpu_State == Leaves({})
Cpu_Config == Leaves({})

Component_Cpu == Container(
    {},
    "config" :> Cpu_Config @@ "state" :> Component_Cpu_State)

Component_Config == Leaves({"name"})
Chassis_State == Leaves({})
Chassis_Config == Leaves({})
Chassis == Container({}, "config" :> Chassis_Config @@ "state" :> Chassis_State)
Backplane_State == Leaves({})
Backplane_Config == Leaves({})

Backplane == Container(
    {},
    "config" :> Backplane_Config @@ "state" :> Backplane_State)

Component == List(<<"name">>,
    {"name"},
    "backplane" :> Backplane @@ "chassis" :> Chassis @@
    "config" :> Component_Config @@ "cpu" :> Component_Cpu @@
    "fabric" :> Fabric @@ "fan" :> Fan @@
    "integrated-circuit" :> IntegratedCircuit @@ "port" :> Port @@
    "power-supply" :> PowerSupply @@ "properties" :> Properties @@
    "state" :> Component_State @@ "storage" :> Storage @@
    "subcomponents" :> Subcomponents)

Components == Container({}, "component" :> Component)

Messages_State_Message == Leaves(
    {"app-name", "msg", "msgid", "priority", "procid"})

Messages_State == Container({"severity"}, "message" :> Messages_State_Message)
Messages_DebugEntries_DebugService_State == Leaves({"enabled", "service"})
Messages_DebugEntries_DebugService_Config == Leaves({"enabled", "service"})

Messages_DebugEntries_DebugService == List(<<"service">>,
    {"service"},
    "config" :> Messages_DebugEntries_DebugService_Config @@
    "state" :> Messages_DebugEntries_DebugService_State)

Messages_DebugEntries == Container(
    {},
    "debug-service" :> Messages_DebugEntries_DebugService)

Messages_Config == Leaves({"severity"})

Messages == Container(
    {},
    "config" :> Messages_Config @@ "debug-entries" :> Messages_DebugEntries @@
    "state" :> Messages_State)

Subinterface_State_Counters == Leaves(
    {"carrier-transitions", "in-broadcast-pkts", "in-discards", "in-errors",
     "in-fcs-errors", "in-multicast-pkts", "in-octets", "in-pkts",
     "in-unicast-pkts", "in-unknown-protos", "last-clear",
     "out-broadcast-pkts", "out-discards", "out-errors", "out-multicast-pkts",
     "out-octets", "out-pkts", "out-unicast-pkts"})

Subinterface_State == Container(
    {"admin-status", "description", "enabled", "ifindex", "index",
     "last-change", "logical", "name", "oper-status"},
    "counters" :> Subinterface_State_Counters)

Subinterface_Config == Leaves({"description", "enabled", "index"})

Subinterface == List(<<"index">>,
    {"index"},
    "config" :> Subinterface_Config @@ "state" :> Subinterface_State)

Subinterfaces == Container({}, "subinterface" :> Subinterface)

Interface_State_Counters == Leaves(
    {"carrier-transitions", "in-broadcast-pkts", "in-discards", "in-errors",
     "in-fcs-errors", "in-multicast-pkts", "in-octets", "in-pkts",
     "in-unicast-pkts", "in-unknown-protos", "last-clear",
     "out-broadcast-pkts", "out-discards", "out-errors", "out-multicast-pkts",
     "out-octets", "out-pkts", "out-unicast-pkts"})

Interface_State == Container(
    {"admin-status", "description", "enabled", "ifindex", "last-change",
     "logical", "loopback-mode", "mtu", "name", "oper-status", "type"},
    "counters" :> Interface_State_Counters)

HoldTime_State == Leaves({"down", "up"})
HoldTime_Config == Leaves({"down", "up"})

HoldTime == Container(
    {},
    "config" :> HoldTime_Config @@ "state" :> HoldTime_State)

Interface_Config == Leaves(
    {"description", "enabled", "loopback-mode", "mtu", "name", "type"})

Interface == List(<<"name">>,
    {"name"},
    "config" :> Interface_Config @@ "hold-time" :> HoldTime @@
    "state" :> Interface_State @@ "subinterfaces" :> Subinterfaces)

Interfaces == Container({}, "interface" :> Interface)

Device == Container({}, "components" :> Components @@ "interfaces" :> Interfaces @@
    "messages" :> Messages @@ "sample" :> Sample @@ "system" :> System @@
    "telemetry-system" :> TelemetrySystem)

\* The models of the device, which are the origins a path may name.
ModelData ==
    {"iana-if-type", "ietf-interfaces", "ietf-yang-types", "openconfig-aaa",
     "openconfig-aaa-types", "openconfig-alarm-types", "openconfig-alarms",
     "openconfig-extensions", "openconfig-inet-types",
     "openconfig-interfaces", "openconfig-license", "openconfig-messages",
     "openconfig-openflow", "openconfig-openflow-types",
     "openconfig-platform", "openconfig-platform-types",
     "openconfig-procmon", "openconfig-system", "openconfig-system-logging",
     "openconfig-system-management", "openconfig-system-terminal",
     "openconfig-telemetry", "openconfig-telemetry-types",
     "openconfig-types", "openconfig-yang-types", "sample"}
=============================================================================
