CONSTANTS
    Parts = {"sql", "mongo", "h2", "h2_settings", "h2_shutdown", "h2_trailers", "h2_lossy", "redis", "redis_resp2", "redis_names",
             "pg", "pg_copy", "pg_tls", "my", "my_tls", "my_silent", "smtp", "smtp_required", "smtp_upgrade", "smtp_implicit",
             "h1", "h1_upgrade", "http_pool", "http_client", "http_single", "http_server",
             "mc", "mc_encoded", "mc_secure", "mongo_client", "mongo_old", "session", "session_routers", "session_pool",
             "cursor", "cursor_limit", "stream", "stream_old", "bulk", "ws", "ws_dropped", "ws_protocols",
             "tls", "tls_server", "tls_faults", "tls_full", "cluster", "cluster_keys", "cluster_nodes", "sentinel",
             "decode", "decode_stage", "decode_readers", "decode_history"}
    Tokens = {1, 2, 3}  NoPool = NoPool  MaxTime = 1  MaxConnections = 2  MaxClears = 1
SPECIFICATION Spec
INVARIANTS LeasesAreAccounted RacesAreTolerated ToldOnce AnswersMatch EndsAgree BodiesAreDecoded
CHECK_DEADLOCK FALSE
