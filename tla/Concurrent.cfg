SPECIFICATION Spec
CONSTANTS
    s1 = s1  s2 = s2  d1 = d1  t1 = t1  t2 = t2  c1 = c1  c2 = c2  None = None
    Server = {s1}
    Subdomain = {d1}
    Container = {c1, c2}
    Task = {t1, t2}
    SubOf <- OneSubdomain
    Ops = {"create", "suspend", "resume", "delete"}
    Faults = {"write_config", "delete_config", "restart_traefik", "create_a_record", "lost_answer", "save_dns", "start_containers", "half_started", "save_ids", "container_health", "resume_containers"}
    StreamFaults = {"fails", "ends"}
    Restarts = FALSE
    MaxQueue = 1
SYMMETRY Interchangeable
INVARIANTS TypeOK NoOrphanContainer NoOrphanDns FailedProvisionRolledBack 
CHECK_DEADLOCK FALSE
