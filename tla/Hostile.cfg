SPECIFICATION Spec
CONSTANTS
    s1 = s1  s2 = s2  d1 = d1  t1 = t1  t2 = t2  c1 = c1  c2 = c2  None = None
    Server = {s1, s2}
    Subdomain = {d1}
    Container = {c1, c2}
    Task = {t1}
    SubOf <- OneSubdomain
    Ops = {"create", "resume", "delete"}
    Faults = {"commit_status", "refresh", "write_config", "delete_config", "restart_traefik", "create_a_record", "lost_answer", "save_dns", "start_containers", "half_started", "save_ids", "container_health", "handle_event", "resume_containers", "stop_containers", "delete_record", "save_resumed_ids", "vanish"}
    StreamFaults = {}
    Restarts = TRUE
    MaxQueue = 1
SYMMETRY Interchangeable
INVARIANT ContainersAreOwn
CHECK_DEADLOCK FALSE
