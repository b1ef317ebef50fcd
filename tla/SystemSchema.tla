---------------------------- MODULE SystemSchema ----------------------------
(***************************************************************************)
(* The part of the generated schema (gnmi/model/gostruct) below /system,   *)
(* with the constructors of schema entries.  An entry is [kind, key, dir]: *)
(* a list has its key names in the order of the schema, and dir gives the  *)
(* entry of each child by its name, as yang.Entry.Dir does.                *)
(***************************************************************************)
EXTENDS TLC

Leaf == [kind |-> "leaf", key |-> <<>>, dir |-> <<>>]
LeafList == [kind |-> "leaf-list", key |-> <<>>, dir |-> <<>>]
None == <<>>

\* A struct with these leaves and these further children.
Container(leaves, dirs) ==
    [kind |-> "container", key |-> <<>>, dir |-> [l \in leaves |-> Leaf] @@ dirs]

Leaves(leaves) == Container(leaves, None)

\* The struct of a list entry; the list itself is a Go map of them.
List(keys, leaves, dirs) ==
    [kind |-> "list", key |-> keys, dir |-> [l \in leaves |-> Leaf] @@ dirs]

-----------------------------------------------------------------------------
TelnetServer_State == Leaves(
    {"enable", "rate-limit", "session-limit", "timeout"})

TelnetServer_Config == Leaves(
    {"enable", "rate-limit", "session-limit", "timeout"})

TelnetServer == Container(
    {},
    "config" :> TelnetServer_Config @@ "state" :> TelnetServer_State)

System_State == Leaves(
    {"boot-time", "current-datetime", "domain-name", "hostname",
     "login-banner", "motd-banner"})

SshServer_State == Leaves(
    {"enable", "protocol-version", "rate-limit", "session-limit", "timeout"})

SshServer_Config == Leaves(
    {"enable", "protocol-version", "rate-limit", "session-limit", "timeout"})

SshServer == Container(
    {},
    "config" :> SshServer_Config @@ "state" :> SshServer_State)

Process_State == Container(
    {"cpu-usage-system", "cpu-usage-user", "cpu-utilization", "memory-usage",
     "memory-utilization", "name", "pid", "start-time"},
    "args" :> LeafList)

Process == List(<<"pid">>, {"pid"}, "state" :> Process_State)
Processes == Container({}, "process" :> Process)
Controller_State == Leaves({"name"})

Connection_State == Leaves(
    {"address", "aux-id", "certificate-id", "connected", "port", "priority",
     "source-interface", "transport"})

Connection_Config == Leaves(
    {"address", "aux-id", "certificate-id", "port", "priority",
     "source-interface", "transport"})

Connection == List(<<"aux-id">>,
    {"aux-id"},
    "config" :> Connection_Config @@ "state" :> Connection_State)

Connections == Container({}, "connection" :> Connection)
Controller_Config == Leaves({"name"})

Controller == List(<<"name">>,
    {"name"},
    "config" :> Controller_Config @@ "connections" :> Connections @@
    "state" :> Controller_State)

Controllers == Container({}, "controller" :> Controller)

Agent_State == Leaves(
    {"backoff-interval", "datapath-id", "failure-mode", "inactivity-probe",
     "max-backoff"})

Agent_Config == Leaves(
    {"backoff-interval", "datapath-id", "failure-mode", "inactivity-probe",
     "max-backoff"})

Agent == Container({}, "config" :> Agent_Config @@ "state" :> Agent_State)
Openflow == Container({}, "agent" :> Agent @@ "controllers" :> Controllers)

Ntp_State == Leaves(
    {"auth-mismatch", "enable-ntp-auth", "enabled", "ntp-source-address"})

Ntp_Servers_Server_State == Leaves(
    {"address", "association-type", "iburst", "offset", "poll-interval",
     "port", "prefer", "root-delay", "root-dispersion", "stratum", "version"})

Ntp_Servers_Server_Config == Leaves(
    {"address", "association-type", "iburst", "port", "prefer", "version"})

Ntp_Servers_Server == List(<<"address">>,
    {"address"},
    "config" :> Ntp_Servers_Server_Config @@ "state" :> Ntp_Servers_Server_State)

Ntp_Servers == Container({}, "server" :> Ntp_Servers_Server)
NtpKey_State == Leaves({"key-id", "key-type", "key-value"})
NtpKey_Config == Leaves({"key-id", "key-type", "key-value"})

NtpKey == List(<<"key-id">>,
    {"key-id"},
    "config" :> NtpKey_Config @@ "state" :> NtpKey_State)

NtpKeys == Container({}, "ntp-key" :> NtpKey)
Ntp_Config == Leaves({"enable-ntp-auth", "enabled", "ntp-source-address"})

Ntp == Container(
    {},
    "config" :> Ntp_Config @@ "ntp-keys" :> NtpKeys @@
    "servers" :> Ntp_Servers @@ "state" :> Ntp_State)

System_Messages_State_Message == Leaves(
    {"app-name", "msg", "msgid", "priority", "procid"})

System_Messages_State == Container(
    {"severity"},
    "message" :> System_Messages_State_Message)

System_Messages_DebugEntries_DebugService_State == Leaves(
    {"enabled", "service"})

System_Messages_DebugEntries_DebugService_Config == Leaves(
    {"enabled", "service"})

System_Messages_DebugEntries_DebugService == List(<<"service">>,
    {"service"},
    "config" :> System_Messages_DebugEntries_DebugService_Config @@
    "state" :> System_Messages_DebugEntries_DebugService_State)

System_Messages_DebugEntries == Container(
    {},
    "debug-service" :> System_Messages_DebugEntries_DebugService)

System_Messages_Config == Leaves({"severity"})

System_Messages == Container(
    {},
    "config" :> System_Messages_Config @@
    "debug-entries" :> System_Messages_DebugEntries @@
    "state" :> System_Messages_State)

Memory_State == Leaves({"physical", "reserved"})
Memory_Config == Leaves({})

System_Memory == Container(
    {},
    "config" :> Memory_Config @@ "state" :> Memory_State)

RemoteServer_State == Leaves({"host", "remote-port", "source-address"})
RemoteServer_Selectors_Selector_State == Leaves({"facility", "severity"})
RemoteServer_Selectors_Selector_Config == Leaves({"facility", "severity"})

RemoteServer_Selectors_Selector == List(<<"facility", "severity">>,
    {"facility", "severity"},
    "config" :> RemoteServer_Selectors_Selector_Config @@
    "state" :> RemoteServer_Selectors_Selector_State)

RemoteServer_Selectors == Container(
    {},
    "selector" :> RemoteServer_Selectors_Selector)

RemoteServer_Config == Leaves({"host", "remote-port", "source-address"})

RemoteServer == List(<<"host">>,
    {"host"},
    "config" :> RemoteServer_Config @@ "selectors" :> RemoteServer_Selectors @@
    "state" :> RemoteServer_State)

RemoteServers == Container({}, "remote-server" :> RemoteServer)
Console_State == Leaves({})
Console_Selectors_Selector_State == Leaves({"facility", "severity"})
Console_Selectors_Selector_Config == Leaves({"facility", "severity"})

Console_Selectors_Selector == List(<<"facility", "severity">>,
    {"facility", "severity"},
    "config" :> Console_Selectors_Selector_Config @@
    "state" :> Console_Selectors_Selector_State)

Console_Selectors == Container({}, "selector" :> Console_Selectors_Selector)
Console_Config == Leaves({})

Console == Container(
    {},
    "config" :> Console_Config @@ "selectors" :> Console_Selectors @@
    "state" :> Console_State)

Logging == Container(
    {},
    "console" :> Console @@ "remote-servers" :> RemoteServers)

License_State == Leaves(
    {"active", "description", "expiration-date", "expired", "in-use",
     "issue-date", "license-data", "license-id", "valid"})

License_Config == Leaves({"active", "license-data", "license-id"})

Licenses_License == List(<<"license-id">>,
    {"license-id"},
    "config" :> License_Config @@ "state" :> License_State)

Licenses == Container({}, "license" :> Licenses_License)
System_License == Container({}, "licenses" :> Licenses)

GrpcServer_State == Container(
    {"certificate-id", "enable", "metadata-authentication", "port",
     "transport-security"},
    "listen-addresses" :> LeafList)

GrpcServer_Config == Container(
    {"certificate-id", "enable", "metadata-authentication", "port",
     "transport-security"},
    "listen-addresses" :> LeafList)

GrpcServer == Container(
    {},
    "config" :> GrpcServer_Config @@ "state" :> GrpcServer_State)

Dns_State == Container({}, "search" :> LeafList)
Dns_Servers_Server_State == Leaves({"address", "port"})
Dns_Servers_Server_Config == Leaves({"address", "port"})

Dns_Servers_Server == List(<<"address">>,
    {"address"},
    "config" :> Dns_Servers_Server_Config @@ "state" :> Dns_Servers_Server_State)

Dns_Servers == Container({}, "server" :> Dns_Servers_Server)

HostEntry_State == Container(
    {"hostname"},
    "alias" :> LeafList @@ "ipv4-address" :> LeafList @@
    "ipv6-address" :> LeafList)

HostEntry_Config == Container(
    {"hostname"},
    "alias" :> LeafList @@ "ipv4-address" :> LeafList @@
    "ipv6-address" :> LeafList)

HostEntry == List(<<"hostname">>,
    {"hostname"},
    "config" :> HostEntry_Config @@ "state" :> HostEntry_State)

HostEntries == Container({}, "host-entry" :> HostEntry)
Dns_Config == Container({}, "search" :> LeafList)

Dns == Container(
    {},
    "config" :> Dns_Config @@ "host-entries" :> HostEntries @@
    "servers" :> Dns_Servers @@ "state" :> Dns_State)

Wait == Leaves(
    {"avg", "instant", "interval", "max", "max-time", "min", "min-time"})

State_User == Leaves(
    {"avg", "instant", "interval", "max", "max-time", "min", "min-time"})

Total == Leaves(
    {"avg", "instant", "interval", "max", "max-time", "min", "min-time"})

SoftwareInterrupt == Leaves(
    {"avg", "instant", "interval", "max", "max-time", "min", "min-time"})

Nice == Leaves(
    {"avg", "instant", "interval", "max", "max-time", "min", "min-time"})

Kernel == Leaves(
    {"avg", "instant", "interval", "max", "max-time", "min", "min-time"})

Idle == Leaves(
    {"avg", "instant", "interval", "max", "max-time", "min", "min-time"})

HardwareInterrupt == Leaves(
    {"avg", "instant", "interval", "max", "max-time", "min", "min-time"})

Cpus_Cpu_State == Container(
    {"index"},
    "hardware-interrupt" :> HardwareInterrupt @@ "idle" :> Idle @@
    "kernel" :> Kernel @@ "nice" :> Nice @@
    "software-interrupt" :> SoftwareInterrupt @@ "total" :> Total @@
    "user" :> State_User @@ "wait" :> Wait)

Cpus_Cpu == List(<<"index">>, {"index"}, "state" :> Cpus_Cpu_State)
Cpus == Container({}, "cpu" :> Cpus_Cpu)

System_Config == Leaves(
    {"domain-name", "hostname", "login-banner", "motd-banner"})

Clock_State == Leaves({"timezone-name"})
Clock_Config == Leaves({"timezone-name"})
Clock == Container({}, "config" :> Clock_Config @@ "state" :> Clock_State)

Alarm_State == Leaves(
    {"id", "resource", "severity", "text", "time-created", "type-id"})

Alarm_Config == Leaves({})

Alarm == List(<<"id">>,
    {"id"},
    "config" :> Alarm_Config @@ "state" :> Alarm_State)

Alarms == Container({}, "alarm" :> Alarm)
Aaa_State == Leaves({})
ServerGroup_State == Leaves({"name", "type"})

Tacacs_State == Leaves(
    {"port", "secret-key", "secret-key-hashed", "source-address"})

Tacacs_Config == Leaves(
    {"port", "secret-key", "secret-key-hashed", "source-address"})

Tacacs == Container({}, "config" :> Tacacs_Config @@ "state" :> Tacacs_State)

ServerGroup_Servers_Server_State == Leaves(
    {"address", "connection-aborts", "connection-closes",
     "connection-failures", "connection-opens", "connection-timeouts",
     "errors-received", "messages-received", "messages-sent", "name", "timeout"})

Radius_State_Counters == Leaves(
    {"access-accepts", "access-rejects", "retried-access-requests",
     "timeout-access-requests"})

Radius_State == Container(
    {"acct-port", "auth-port", "retransmit-attempts", "secret-key",
     "secret-key-hashed", "source-address"},
    "counters" :> Radius_State_Counters)

Radius_Config == Leaves(
    {"acct-port", "auth-port", "retransmit-attempts", "secret-key",
     "secret-key-hashed", "source-address"})

Radius == Container({}, "config" :> Radius_Config @@ "state" :> Radius_State)
ServerGroup_Servers_Server_Config == Leaves({"address", "name", "timeout"})

ServerGroup_Servers_Server == List(<<"address">>,
    {"address"},
    "config" :> ServerGroup_Servers_Server_Config @@ "radius" :> Radius @@
    "state" :> ServerGroup_Servers_Server_State @@ "tacacs" :> Tacacs)

ServerGroup_Servers == Container({}, "server" :> ServerGroup_Servers_Server)
ServerGroup_Config == Leaves({"name", "type"})

ServerGroup == List(<<"name">>,
    {"name"},
    "config" :> ServerGroup_Config @@ "servers" :> ServerGroup_Servers @@
    "state" :> ServerGroup_State)

ServerGroups == Container({}, "server-group" :> ServerGroup)
Aaa_Config == Leaves({})
Authorization_State == Container({}, "authorization-method" :> LeafList)
Authorization_Events_Event_State == Leaves({"event-type"})
Authorization_Events_Event_Config == Leaves({"event-type"})

Authorization_Events_Event == List(<<"event-type">>,
    {"event-type"},
    "config" :> Authorization_Events_Event_Config @@
    "state" :> Authorization_Events_Event_State)

Authorization_Events == Container({}, "event" :> Authorization_Events_Event)
Authorization_Config == Container({}, "authorization-method" :> LeafList)

Authorization == Container(
    {},
    "config" :> Authorization_Config @@ "events" :> Authorization_Events @@
    "state" :> Authorization_State)

User_State == Leaves(
    {"password", "password-hashed", "role", "ssh-key", "username"})

User_Config == Leaves(
    {"password", "password-hashed", "role", "ssh-key", "username"})

Users_User == List(<<"username">>,
    {"username"},
    "config" :> User_Config @@ "state" :> User_State)

Users == Container({}, "user" :> Users_User)
Authentication_State == Container({}, "authentication-method" :> LeafList)
Authentication_Config == Container({}, "authentication-method" :> LeafList)

AdminUser_State == Leaves(
    {"admin-password", "admin-password-hashed", "admin-username"})

AdminUser_Config == Leaves({"admin-password", "admin-password-hashed"})

AdminUser == Container(
    {},
    "config" :> AdminUser_Config @@ "state" :> AdminUser_State)

Authentication == Container(
    {},
    "admin-user" :> AdminUser @@ "config" :> Authentication_Config @@
    "state" :> Authentication_State @@ "users" :> Users)

Accounting_State == Container({}, "accounting-method" :> LeafList)
Accounting_Events_Event_State == Leaves({"event-type", "record"})
Accounting_Events_Event_Config == Leaves({"event-type", "record"})

Accounting_Events_Event == List(<<"event-type">>,
    {"event-type"},
    "config" :> Accounting_Events_Event_Config @@
    "state" :> Accounting_Events_Event_State)

Accounting_Events == Container({}, "event" :> Accounting_Events_Event)
Accounting_Config == Container({}, "accounting-method" :> LeafList)

Accounting == Container(
    {},
    "config" :> Accounting_Config @@ "events" :> Accounting_Events @@
    "state" :> Accounting_State)

Aaa == Container(
    {},
    "accounting" :> Accounting @@ "authentication" :> Authentication @@
    "authorization" :> Authorization @@ "config" :> Aaa_Config @@
    "server-groups" :> ServerGroups @@ "state" :> Aaa_State)

System == Container(
    {},
    "aaa" :> Aaa @@ "alarms" :> Alarms @@ "clock" :> Clock @@
    "config" :> System_Config @@ "cpus" :> Cpus @@ "dns" :> Dns @@
    "grpc-server" :> GrpcServer @@ "license" :> System_License @@
    "logging" :> Logging @@ "memory" :> System_Memory @@
    "messages" :> System_Messages @@ "ntp" :> Ntp @@ "openflow" :> Openflow @@
    "processes" :> Processes @@ "ssh-server" :> SshServer @@
    "state" :> System_State @@ "telnet-server" :> TelnetServer)
=============================================================================
