SPECIFICATION Spec
CONSTANTS
    AUTH_TIMEOUT = 5
    KEX_REKEY_TIMEOUT = 5
    keepalive_secs = 2
    DEFAULT_KEEPALIVE_LIMIT = 3
    idle_timeout_secs = 3
    Forever = 9
INVARIANTS OnTime NoBusyLoop KeepaliveLimit QuietCloses
CHECK_DEADLOCK FALSE
