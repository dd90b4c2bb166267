SPECIFICATION Spec
CONSTANTS
    Protos = {"TCP", "UDP"}
    Ext = Ext
    Foreign = {f1}
    Bound = {80, 25, 38926}
    Hidden = {25}
    Default = 38926
    Services = {8080, 9090}
    Targets = {4444}
    ClientPorts = {50000}
    ProxyPorts = {60000}
    DataPorts = {50021}
    Procs = {app, listed}
    Unseen = {listed}
    Self = Self
    BlackProcs = {listed}
    BlackHosts = {}
    PortLists <- MCPortLists
    Destinations <- MCServices
    MaxOpen = 2
    MaxSends = 2
    f1 = f1
    app = app
    None = None
INVARIANT IgnoredIsNotForwarded
CHECK_DEADLOCK FALSE
