--------------------------- MODULE MCServiceConfig ---------------------------
(***************************************************************************)
(* Environments for ServiceConfig: two baselines that start, one for       *)
(* development and one for production, every environment that changes one  *)
(* setting of a baseline or two settings of the first, and all             *)
(* combinations of the settings that decide how long a claim and a handler *)
(* last.                                                                   *)
(***************************************************************************)
EXTENDS ServiceConfig, FiniteSets, TLC

Development ==
  [DATABASE_URL |-> "url_nossl", STRIPE_SECRET_KEY |-> "sk_test",
   STRIPE_WEBHOOK_SECRET |-> "whsec", JWT_SECRET |-> "random"]

Production ==
  [APP_ENV |-> "production", DATABASE_URL |-> "url",
   STRIPE_SECRET_KEY |-> "sk_live", STRIPE_WEBHOOK_SECRET |-> "whsec",
   JWT_SECRET |-> "random", AUTH_COOKIE_SECURE |-> TRUE,
   STRIPE_CHECKOUT_SUCCESS_URL |-> "https", STRIPE_CHECKOUT_CANCEL_URL |-> "https",
   STRIPE_CHECKOUT_RETURN_URL |-> "https", STRIPE_PORTAL_RETURN_URL |-> "https",
   STRIPE_ALLOWED_PRICE_IDS |-> {"price"}]

\* The values of interest of a setting beside its default.
Others ==
  [APP_ENV |-> {"staging", "production", "other"}, SHUTDOWN_TIMEOUT |-> {0},
   HTTP_PORT |-> {0, 9091, 65536}, HTTP_READ_HEADER_TIMEOUT |-> {0},
   HTTP_WRITE_TIMEOUT |-> {0, 25}, HTTP_API_TIMEOUT |-> {0, 30},
   HTTP_WEBHOOK_TIMEOUT |-> {0, 30, 300},
   CORS_ALLOWED_ORIGINS |-> {{"*"}, {"http"}, {"https", "opaque"}, {"https_path"}},
   TRUSTED_PROXIES |-> {-1, 1}, AUTH_RATE_LIMIT_RPS |-> {0},
   AUTH_RATE_LIMIT_BURST |-> {0, 1}, METRICS_PORT |-> {0, 8080, 65536},
   METRICS_BIND_ADDRESS |-> {"local", "foreign"},
   DATABASE_URL |-> {"url_broken", "keyword", "neither"},
   DB_MAX_CONNS |-> {-250, 0, 1, 256, 257}, DB_MIN_CONNS |-> {-1, 26, 256},
   DB_MAX_CONN_LIFETIME |-> {0}, DB_MAX_CONN_IDLE_TIME |-> {-1},
   DB_HEALTH_CHECK_PERIOD |-> {0}, DB_CONNECT_TIMEOUT |-> {0, Unparsable},
   STRIPE_SECRET_KEY |-> {"sk_", "rk_live", "rk_test", "pk"},
   STRIPE_WEBHOOK_SECRET |-> {"other"}, STRIPE_PUBLISHABLE_KEY |-> {"pk", "sk"},
   STRIPE_WEBHOOK_TOLERANCE |-> {0}, STRIPE_MAX_NETWORK_RETRIES |-> {-1, 0},
   STRIPE_HTTP_TIMEOUT |-> {0}, STRIPE_IGNORE_API_VERSION_MISMATCH |-> {TRUE},
   STRIPE_CHECKOUT_SUCCESS_URL |-> {"relative", "opaque", "http"},
   STRIPE_CHECKOUT_CANCEL_URL |-> {"relative"},
   STRIPE_CHECKOUT_RETURN_URL |-> {"relative"},
   STRIPE_PORTAL_RETURN_URL |-> {"relative", "https_path"},
   STRIPE_ALLOWED_PRICE_IDS |-> {{"prod"}}, JWT_SECRET |-> {"short", "placeholder"},
   JWT_ACCESS_TOKEN_TTL |-> {0, Day + 1, 30 * Day}, REFRESH_TOKEN_TTL |-> {0, Minute},
   AUTH_COOKIE_SECURE |-> {FALSE}, BCRYPT_COST |-> {0, 9, 31, 32},
   WEBHOOK_SWEEPER_ENABLED |-> {FALSE, Unparsable},
   WEBHOOK_SWEEPER_INTERVAL |-> {0, 3, 4},
   WEBHOOK_SWEEPER_MAX_ATTEMPTS |-> {0, 128, 257},
   WEBHOOK_SWEEPER_BASE_BACKOFF |-> {0, 31 * Minute},
   WEBHOOK_SWEEPER_MAX_BACKOFF |-> {0, 31 * Minute, 37 * Hour, 2 * Day},
   WEBHOOK_SWEEPER_BATCH_SIZE |-> {0}, WEBHOOK_STALE_CLAIM_AFTER |-> {0, 20, 301},
   WEBHOOK_SWEEPER_ALERT_AFTER |-> {0}, PAYLOAD_RETENTION_ENABLED |-> {FALSE},
   PAYLOAD_RETENTION_INTERVAL |-> {0}, PAYLOAD_RETENTION_SETTLED_AFTER |-> {0, 91 * Day},
   PAYLOAD_RETENTION_UNSETTLED_AFTER |-> {0, Day, 30 * Day},
   PAYLOAD_RETENTION_BATCH_SIZE |-> {0}, REFRESH_TOKEN_GRACE |-> {0, Unparsable},
   LOG_LEVEL |-> {"warning", "loud"}, LOG_FORMAT |-> {"text", "xml"}]

\* One change of environment e: a setting given another value, or a required
\* variable missing.
Changes(e) ==
  UNION {{(s :> v) @@ e : v \in Others[s]} : s \in Settings}
    \cup {[t \in DOMAIN e \ {s} |-> e[t]] : s \in Required}

Windows ==
  {[HTTP_WRITE_TIMEOUT |-> w, HTTP_WEBHOOK_TIMEOUT |-> h,
    WEBHOOK_STALE_CLAIM_AFTER |-> c, WEBHOOK_SWEEPER_ENABLED |-> on] @@ Development :
     w \in {0, 30, 400}, h \in {25, 299, 300, 301}, c \in {0, 25, 26, 300, 301, 302},
     on \in BOOLEAN}

MCEnvironments ==
  LET one == Changes(Development)
  IN  Windows \cup {Development, Production} \cup Changes(Production)
        \cup one \cup UNION {Changes(e) : e \in one}

=============================================================================
