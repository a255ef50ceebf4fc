SPECIFICATION Spec
CONSTANTS
    Threads = {t1, t2}
    Hosts = {h1, h2}
    Delays = {1, 2}
    RetryAfters <- MCRetryAfters
    MaxRetries = 2
    MaxCalls = 3
INVARIANTS
    SleepsForItsHost
    RobotsObeyed
PROPERTIES
    GetEnds
