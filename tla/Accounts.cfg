SPECIFICATION Spec
CONSTANTS
    None = None
    d1 = d1
    Tenant = {t1, t2}
    Key = {k1, k2}
    Server = {s1}
    Subdomain = {d1}
    SubdomainOf <- OneSubdomain
    Request = {q1, q2}
    Faults = {"request", "provisioning", "startup"}
INVARIANTS TypeOK ReferencesHold FilesRoute
PROPERTY OwnTenantOnly
SYMMETRY Interchangeable
CHECK_DEADLOCK FALSE
