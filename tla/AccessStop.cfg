SPECIFICATION Spec
CONSTANTS
    s1 = s1
    s2 = s2
    r1 = r1
    r2 = r2
    boot = boot
    ci = ci
    env = env
    t1 = t1
    t2 = t2
    Server = {s1}
    Request = {r1}
    Name = {boot, ci}
    Secret = {env, t1}
    Boot = boot
    Env = env
    Count <- Counts
    Unit = {1}
    Half = 4
    PublicReads = FALSE
    MaxTime = 3
    MaxStarts = 2
    None = None
CHECK_DEADLOCK FALSE
INVARIANT UploadsFlushed
