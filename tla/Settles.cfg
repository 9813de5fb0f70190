SPECIFICATION FairSpec
CONSTANTS
    s1 = s1  s2 = s2  d1 = d1  t1 = t1  t2 = t2  c1 = c1  c2 = c2  None = None
    Server = {s1}
    Subdomain = {d1}
    Container = {c1, c2}
    Task = {t1, t2}
    SubOf <- OneSubdomain
    Ops = {"create", "suspend", "delete", "update"}
    Faults = {"write_config", "create_a_record", "save_dns", "start_containers", "half_started", "save_ids", "stop_containers", "crash", "unhealthy", "container_health"}
    StreamFaults = {}
    Restarts = FALSE
    MaxQueue = 1
PROPERTIES ProvisioningSettles HealthHeard CrashReported
CHECK_DEADLOCK FALSE
