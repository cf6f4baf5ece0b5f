SPECIFICATION Spec
CONSTANTS
    api = api
    worker = worker
    a1 = a1
    a2 = a2
    w1 = w1
    Tasks = {a1, a2, w1}
    Processes = {api, worker}
    ProcessOf <- MCProcessOf
    Jobs <- MCJobs
    Api = api
    MaxVersions = 2
    MaxMishaps = 1
INVARIANTS
    
    IndexedIsSearchable
    
    NothingIsLeftHeld
CHECK_DEADLOCK FALSE
