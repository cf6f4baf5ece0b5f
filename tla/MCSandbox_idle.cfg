SPECIFICATION FairSpec
CONSTANTS
    api = api
    worker = worker
    viewer = viewer
    run = run
    Callers = {viewer, run}
    Processes = {api, worker}
    ProcessOf <- MCProcessOf
    Api = api
    ConfiguredIdle = 4
    Exec = 2
    Margin = 1
    Interval = 1
    Latency = 1
    MaxFaults = 1
INVARIANTS SandboxInvariant Tracked
PROPERTIES  IdleIsReaped
