---------------------------- MODULE ServiceConfig ----------------------------
(***************************************************************************)
(* How a process of the service comes to run with the parameters it runs   *)
(* with: config.Load reads the environment and validates it, then run and  *)
(* the two command line tools of cmd/api/main.go build the components one  *)
(* by one, and every constructor checks or defaults its own share again.   *)
(* The question is whether the two layers agree.                           *)
(*                                                                         *)
(* A setting is named by its environment variable.  Durations are whole    *)
(* nanoseconds with Second of them in a second; rates are tenths per       *)
(* second.  URLs, keys and secrets are abstracted to the shape Validate    *)
(* looks at.  Settings that no check, no default and no step of the start  *)
(* ever reads are left out, and so are JWT_ISSUER and JWT_AUDIENCE, which  *)
(* are never empty: lookup takes an empty variable for the default.        *)
(***************************************************************************)
EXTENDS Integers

CONSTANTS Second,       \* nanoseconds in a second
          MaxInt32,     \* the largest int32
          MaxInt64,     \* the largest int64, which int and time.Duration are
          Environments, \* the process environments considered
          Unparsable    \* a value strconv or time.ParseDuration refuses

ASSUME UnitsAssumption ==
  /\ Second \in Nat \ {0}
  /\ MaxInt32 \in Nat /\ MaxInt32 >= 25   \* the defaults fit
  /\ MaxInt64 \in Nat

VARIABLES env,     \* what the environment sets
          command, \* which entry point main dispatched to
          step,    \* the constructor that runs next, or how it ended
          wired    \* the parameters the built components run with

vars == <<env, command, step, wired>>

Minute == 60 * Second
Hour == 60 * Minute
Day == 24 * Hour

\* The default of every setting; a required one has none and stays empty.
Defaults ==
  [APP_ENV |-> "development", SHUTDOWN_TIMEOUT |-> 15 * Second,
   HTTP_PORT |-> 8080, HTTP_READ_HEADER_TIMEOUT |-> 5 * Second,
   HTTP_WRITE_TIMEOUT |-> 30 * Second, HTTP_API_TIMEOUT |-> 10 * Second,
   HTTP_WEBHOOK_TIMEOUT |-> 25 * Second, CORS_ALLOWED_ORIGINS |-> {},
   TRUSTED_PROXIES |-> 0, AUTH_RATE_LIMIT_RPS |-> 2,
   AUTH_RATE_LIMIT_BURST |-> 5, METRICS_PORT |-> 9091, METRICS_BIND_ADDRESS |-> "",
   DATABASE_URL |-> "", DB_MAX_CONNS |-> 25, DB_MIN_CONNS |-> 2,
   DB_MAX_CONN_LIFETIME |-> Hour, DB_MAX_CONN_IDLE_TIME |-> 30 * Minute,
   DB_HEALTH_CHECK_PERIOD |-> Minute, DB_CONNECT_TIMEOUT |-> 10 * Second,
   STRIPE_SECRET_KEY |-> "", STRIPE_WEBHOOK_SECRET |-> "",
   STRIPE_PUBLISHABLE_KEY |-> "", STRIPE_WEBHOOK_TOLERANCE |-> 5 * Minute,
   STRIPE_MAX_NETWORK_RETRIES |-> 3, STRIPE_HTTP_TIMEOUT |-> 20 * Second,
   STRIPE_IGNORE_API_VERSION_MISMATCH |-> FALSE,
   STRIPE_CHECKOUT_SUCCESS_URL |-> "http", STRIPE_CHECKOUT_CANCEL_URL |-> "http",
   STRIPE_CHECKOUT_RETURN_URL |-> "http", STRIPE_PORTAL_RETURN_URL |-> "http",
   STRIPE_ALLOWED_PRICE_IDS |-> {}, JWT_SECRET |-> "",
   JWT_ACCESS_TOKEN_TTL |-> 15 * Minute, REFRESH_TOKEN_TTL |-> 30 * Day,
   AUTH_COOKIE_SECURE |-> FALSE, BCRYPT_COST |-> 12,
   WEBHOOK_SWEEPER_ENABLED |-> TRUE, WEBHOOK_SWEEPER_INTERVAL |-> Minute,
   WEBHOOK_SWEEPER_MAX_ATTEMPTS |-> 6,
   WEBHOOK_SWEEPER_BASE_BACKOFF |-> 30 * Second,
   WEBHOOK_SWEEPER_MAX_BACKOFF |-> 30 * Minute,
   WEBHOOK_SWEEPER_BATCH_SIZE |-> 100, WEBHOOK_STALE_CLAIM_AFTER |-> 5 * Minute,
   WEBHOOK_SWEEPER_ALERT_AFTER |-> Hour, PAYLOAD_RETENTION_ENABLED |-> TRUE,
   PAYLOAD_RETENTION_INTERVAL |-> 6 * Hour,
   PAYLOAD_RETENTION_SETTLED_AFTER |-> 30 * Day,
   PAYLOAD_RETENTION_UNSETTLED_AFTER |-> 90 * Day,
   PAYLOAD_RETENTION_BATCH_SIZE |-> 500, REFRESH_TOKEN_GRACE |-> 7 * Day,
   LOG_LEVEL |-> "info", LOG_FORMAT |-> "json"]

Settings == DOMAIN Defaults

Required == {"DATABASE_URL", "STRIPE_SECRET_KEY", "STRIPE_WEBHOOK_SECRET",
             "JWT_SECRET"}

\* The settings the worker of each name runs with, and all those that some
\* component runs with: numbers.
SweeperNames ==
  {"WEBHOOK_SWEEPER_INTERVAL", "WEBHOOK_STALE_CLAIM_AFTER",
   "WEBHOOK_SWEEPER_MAX_ATTEMPTS", "WEBHOOK_SWEEPER_BASE_BACKOFF",
   "WEBHOOK_SWEEPER_MAX_BACKOFF", "WEBHOOK_SWEEPER_BATCH_SIZE",
   "WEBHOOK_SWEEPER_ALERT_AFTER"}

RetentionNames ==
  {"PAYLOAD_RETENTION_INTERVAL", "PAYLOAD_RETENTION_SETTLED_AFTER",
   "PAYLOAD_RETENTION_UNSETTLED_AFTER", "PAYLOAD_RETENTION_BATCH_SIZE",
   "REFRESH_TOKEN_GRACE"}

Numbers ==
  {"DB_MAX_CONNS", "DB_MIN_CONNS", "DB_MAX_CONN_LIFETIME", "DB_MAX_CONN_IDLE_TIME",
   "DB_HEALTH_CHECK_PERIOD", "DB_CONNECT_TIMEOUT", "STRIPE_HTTP_TIMEOUT",
   "STRIPE_WEBHOOK_TOLERANCE", "STRIPE_MAX_NETWORK_RETRIES", "REFRESH_TOKEN_TTL",
   "BCRYPT_COST", "AUTH_RATE_LIMIT_RPS", "AUTH_RATE_LIMIT_BURST",
   "HTTP_API_TIMEOUT", "HTTP_WEBHOOK_TIMEOUT"} \cup SweeperNames \cup RetentionNames

\* What the typed getters return, and that lookup takes an empty variable for
\* one that is not set.
ASSUME EnvironmentAssumption ==
  \A e \in Environments :
    /\ \A s \in Numbers \cap DOMAIN e : e[s] = Unparsable \/ e[s] \in Int
    /\ \A s \in Required \cap DOMAIN e : e[s] # ""

\* A number too large for its type keeps the low bits, read as signed.
Wrap(n, max) == ((n + max + 1) % (2 * (max + 1))) - (max + 1)

Int32(n) == Wrap(n, MaxInt32)
Int64(n) == Wrap(n, MaxInt64)

\* The loader's typed getters: what is unset or does not parse is the default.
Read(e, s) == IF s \in DOMAIN e /\ e[s] # Unparsable THEN e[s] ELSE Defaults[s]

\* Load: the configuration the environment e describes.
Config(e) ==
  [s \in Settings |-> IF s \in {"DB_MAX_CONNS", "DB_MIN_CONNS"}
                      THEN Int32(Read(e, s)) ELSE Read(e, s)]

\* The loader's own complaints: a required variable missing, a value unparsed.
LoaderErrs(e) ==
  (Required \ DOMAIN e) \cup {s \in DOMAIN e : e[s] = Unparsable}

IsProduction(c) == c.APP_ENV = "production"

Ports == 1 .. 65535

ValidHTTP(c) ==
  /\ c.HTTP_PORT \in Ports
  /\ c.HTTP_READ_HEADER_TIMEOUT > 0
  /\ c.TRUSTED_PROXIES >= 0
  /\ c.AUTH_RATE_LIMIT_RPS > 0
  /\ c.METRICS_PORT # 0 => c.METRICS_PORT \in Ports \ {c.HTTP_PORT}
  /\ c.AUTH_RATE_LIMIT_BURST >= 1
  /\ \A d \in {c.HTTP_API_TIMEOUT, c.HTTP_WEBHOOK_TIMEOUT} :
       d > 0 /\ (c.HTTP_WRITE_TIMEOUT > 0 => d < c.HTTP_WRITE_TIMEOUT)

\* A DSN is a URL, a URL with sslmode=disable, a malformed URL, a keyword
\* string, or none of these.
ValidDatabase(c) ==
  /\ c.DATABASE_URL # "neither"
  /\ ~(IsProduction(c) /\ c.DATABASE_URL = "url_nossl")
  /\ c.DB_MAX_CONNS >= 1
  /\ c.DB_MIN_CONNS \in 0 .. c.DB_MAX_CONNS
  /\ c.DB_CONNECT_TIMEOUT > 0

\* url.Parse and IsAbs on the shapes of a URL ("opaque" has a scheme and no
\* host, "https_path" a path beside the host), and the https rule.
Absolute(u) == u \in {"http", "https", "https_path", "opaque"}

ValidURL(c, u) == Absolute(u) /\ (IsProduction(c) => u \in {"https", "https_path"})

\* An origin is a scheme and a host.
ValidOrigin(c, o) == ValidURL(c, o) /\ o \notin {"opaque", "https_path"}

validateStripe(c) ==
  /\ c.STRIPE_SECRET_KEY # "" =>
       /\ c.STRIPE_SECRET_KEY \in {"sk_test", "sk_live", "rk_test", "rk_live", "sk_"}
       /\ IsProduction(c) => c.STRIPE_SECRET_KEY \notin {"sk_test", "rk_test"}
       /\ ~IsProduction(c) => c.STRIPE_SECRET_KEY \notin {"sk_live", "rk_live"}
  /\ c.STRIPE_WEBHOOK_SECRET \in {"", "whsec"}
  /\ c.STRIPE_PUBLISHABLE_KEY \in {"", "pk"}
  /\ c.STRIPE_WEBHOOK_TOLERANCE > 0
  /\ c.STRIPE_MAX_NETWORK_RETRIES >= 0
  /\ c.STRIPE_HTTP_TIMEOUT > 0
  /\ ValidURL(c, c.STRIPE_CHECKOUT_SUCCESS_URL)
  /\ ValidURL(c, c.STRIPE_CHECKOUT_CANCEL_URL)
  /\ \A o \in c.CORS_ALLOWED_ORIGINS : ValidOrigin(c, o)
  /\ \A u \in {c.STRIPE_CHECKOUT_RETURN_URL, c.STRIPE_PORTAL_RETURN_URL} :
       u # "" => ValidURL(c, u)
  /\ c.STRIPE_ALLOWED_PRICE_IDS \subseteq {"price"}
  /\ IsProduction(c) => /\ c.STRIPE_ALLOWED_PRICE_IDS # {}
                        /\ ~c.STRIPE_IGNORE_API_VERSION_MISMATCH

validateAuth(c) ==
  /\ c.JWT_SECRET \in {"", "random"}   \* neither short nor a placeholder
  /\ c.JWT_ACCESS_TOKEN_TTL > 0
  /\ IsProduction(c) => c.JWT_ACCESS_TOKEN_TTL <= Day
  /\ c.REFRESH_TOKEN_TTL > 0
  /\ c.REFRESH_TOKEN_TTL > c.JWT_ACCESS_TOKEN_TTL
  /\ IsProduction(c) => c.AUTH_COOKIE_SECURE
  /\ c.BCRYPT_COST \in 10 .. 31

\* The window may equal the deadline.
WindowReaches(c) == c.WEBHOOK_STALE_CLAIM_AFTER >= c.HTTP_WEBHOOK_TIMEOUT

WindowExceeds(c) == c.WEBHOOK_STALE_CLAIM_AFTER > c.HTTP_WEBHOOK_TIMEOUT

validateSweeper(c) ==
  c.WEBHOOK_SWEEPER_ENABLED =>
    /\ c.WEBHOOK_SWEEPER_INTERVAL > 0
    /\ c.WEBHOOK_SWEEPER_MAX_ATTEMPTS >= 1
    /\ c.WEBHOOK_SWEEPER_BATCH_SIZE >= 1
    /\ c.WEBHOOK_SWEEPER_BASE_BACKOFF > 0
    /\ c.WEBHOOK_SWEEPER_MAX_BACKOFF >= c.WEBHOOK_SWEEPER_BASE_BACKOFF
    /\ WindowExceeds(c)

\* The budget counted with the first backoff instead of the longest.
BaseBudget(c) == c.WEBHOOK_SWEEPER_MAX_ATTEMPTS * c.WEBHOOK_SWEEPER_BASE_BACKOFF

\* How long the sweeper may take to use up its attempts.
Exhaust(c) ==
  Int64(c.WEBHOOK_SWEEPER_MAX_ATTEMPTS * c.WEBHOOK_SWEEPER_MAX_BACKOFF)

validateRetention(c) ==
  IF ~c.PAYLOAD_RETENTION_ENABLED
  THEN ~IsProduction(c)
  ELSE /\ c.PAYLOAD_RETENTION_INTERVAL > 0
       /\ c.PAYLOAD_RETENTION_BATCH_SIZE >= 1
       /\ c.PAYLOAD_RETENTION_SETTLED_AFTER > 0
       /\ c.PAYLOAD_RETENTION_UNSETTLED_AFTER >= c.PAYLOAD_RETENTION_SETTLED_AFTER
       /\ c.WEBHOOK_SWEEPER_ENABLED =>
            c.PAYLOAD_RETENTION_UNSETTLED_AFTER >= Int64(10 * Exhaust(c))

LevelNames == {"debug", "info", "warn", "warning", "error"}

Validate(c) ==
  /\ c.APP_ENV \in {"development", "staging", "production"}
  /\ c.SHUTDOWN_TIMEOUT > 0
  /\ ValidHTTP(c)
  /\ ValidDatabase(c)
  /\ validateStripe(c)
  /\ validateAuth(c)
  /\ validateSweeper(c)
  /\ validateRetention(c)
  /\ c.LOG_LEVEL \in LevelNames
  /\ c.LOG_FORMAT \in {"json", "text"}

-----------------------------------------------------------------------------
(***************************************************************************)
(* The constructors.  Each takes its share of the configuration, refuses   *)
(* some values, and replaces others by defaults of its own.                *)
(***************************************************************************)

\* One is taken for unset.
ReplacesOne(c, s) == IF c[s] <= 1 THEN Defaults[s] ELSE c[s]

\* The settings of f, and those of g that f does not have.
Over(f, g) ==
  [s \in DOMAIN f \cup DOMAIN g |-> IF s \in DOMAIN f THEN f[s] ELSE g[s]]

\* A setting that a withDefaults method replaces when it is not positive.
OrDefault(c, s) == IF c[s] <= 0 THEN Defaults[s] ELSE c[s]

AllOrDefault(c, S) == [s \in S |-> OrDefault(c, s)]

\* database.Config.withDefaults.
PoolSettings(c) ==
  LET max == OrDefault(c, "DB_MAX_CONNS")
      min == IF c.DB_MIN_CONNS < 0 THEN 0 ELSE c.DB_MIN_CONNS
  IN  Over([DB_MAX_CONNS |-> max, DB_MIN_CONNS |-> IF min > max THEN max ELSE min],
           AllOrDefault(c, {"DB_MAX_CONN_LIFETIME", "DB_MAX_CONN_IDLE_TIME",
                            "DB_HEALTH_CHECK_PERIOD", "DB_CONNECT_TIMEOUT"}))

\* stripe.New, once the two secrets are there.
StripeSettings(c) ==
  Over([STRIPE_MAX_NETWORK_RETRIES |->
          IF c.STRIPE_MAX_NETWORK_RETRIES < 0 THEN 0
          ELSE c.STRIPE_MAX_NETWORK_RETRIES],
       AllOrDefault(c, {"STRIPE_HTTP_TIMEOUT", "STRIPE_WEBHOOK_TOLERANCE"}))

\* auth.NewHasher and auth.NewTokenService.
HasherAccepts(c) == c.BCRYPT_COST = 0 \/ c.BCRYPT_COST \in 4 .. 31
TokensAccept(c) == c.JWT_SECRET \notin {"", "short"} /\ c.JWT_ACCESS_TOKEN_TTL > 0

\* The service insists on https where the configuration does not.
HttpsOnly(c) == c.STRIPE_CHECKOUT_SUCCESS_URL = "https"

\* CheckoutConfig.validate.
CheckoutAccepts(c) ==
  /\ Absolute(c.STRIPE_CHECKOUT_SUCCESS_URL)
  /\ Absolute(c.STRIPE_CHECKOUT_CANCEL_URL)
  /\ \A u \in {c.STRIPE_CHECKOUT_RETURN_URL, c.STRIPE_PORTAL_RETURN_URL} :
       u = "" \/ Absolute(u)

\* sweeperConfig in main and SweeperConfig.withDefaults.
SweeperSettings(c) ==
  AllOrDefault([c EXCEPT !.WEBHOOK_SWEEPER_MAX_ATTEMPTS = Int32(@)], SweeperNames)

\* retentionConfig in main and RetentionConfig.withDefaults.
RetentionSettings(c) == AllOrDefault(c, RetentionNames)

-----------------------------------------------------------------------------

Init == /\ env \in Environments
        /\ command \in {"serve", "webhook-sweep", "webhook-report", "retention-run"}
        /\ step = "load"
        /\ wired = <<>>

cfg == Config(env)

\* A constructor that returns an error ends the process.
Build(this, accepts, settings, next) ==
  /\ step = this
  /\ IF accepts THEN /\ step' = next
                     /\ wired' = Over(settings, wired)
                ELSE step' = "failed" /\ UNCHANGED wired
  /\ UNCHANGED <<env, command>>

\* config.Load, the first call of run and of both tools.
Load == Build("load", LoaderErrs(env) = {} /\ Validate(cfg), <<>>, "logger")

\* logger.New: ParseLevel accepts an empty name as well.
NewLogger == Build("logger", cfg.LOG_LEVEL \in LevelNames \cup {""}, <<>>, "database")

\* database.New.  run passes the configured pool, the tools a fixed one of
\* four connections with the configured connect timeout.  pgxpool.ParseConfig refuses a malformed URL and the
\* ping fails when the database cannot be reached.
NewDatabase ==
  \E reachable \in BOOLEAN :
    Build("database", cfg.DATABASE_URL \notin {"", "url_broken"} /\ reachable,
          IF command = "serve" THEN PoolSettings(cfg)
          ELSE AllOrDefault(cfg, {"DB_CONNECT_TIMEOUT"}),
          IF command = "serve" THEN "stripe" ELSE "repos")

\* NewWebhookRepo: run passes zero, which selects five minutes; the tools
\* pass the sweeper's window.
NewRepos ==
  Build("repos", TRUE,
        [claimWindow |-> IF command = "serve" THEN 5 * Minute
                         ELSE OrDefault(cfg, "WEBHOOK_STALE_CLAIM_AFTER")],
        CASE command = "serve" -> "checkout"
          [] command = "webhook-sweep" -> "stripe"
          [] command = "retention-run" -> "retention"
          [] command = "webhook-report" -> "running")

\* stripe.New.
NewStripeClient ==
  Build("stripe", cfg.STRIPE_SECRET_KEY # "" /\ cfg.STRIPE_WEBHOOK_SECRET # "",
        StripeSettings(cfg), IF command = "serve" THEN "auth" ELSE "sweeper")

\* NewHasher, NewTokenService and NewAuthService.
NewAuth ==
  Build("auth", HasherAccepts(cfg) /\ TokensAccept(cfg),
        AllOrDefault(cfg, {"REFRESH_TOKEN_TTL", "BCRYPT_COST"}), "repos")

\* NewCheckoutService.
NewCheckout == Build("checkout", CheckoutAccepts(cfg), <<>>, "limiter")

\* NewRateLimiter.
NewLimiter ==
  Build("limiter", TRUE,
        AllOrDefault(cfg, {"AUTH_RATE_LIMIT_RPS", "AUTH_RATE_LIMIT_BURST"}),
        "retention")

\* NewRetentionWorker: in run when it is enabled, in the tool always.
StartRetention ==
  Build("retention", TRUE,
        IF command = "retention-run" \/ cfg.PAYLOAD_RETENTION_ENABLED
        THEN RetentionSettings(cfg) ELSE <<>>,
        IF command = "retention-run" THEN "running" ELSE "sweeper")

\* NewWebhookSweeper: in run when it is enabled, in the tool always.  Run
\* draws its first delay with rand.Int64N, which panics on a zero quarter;
\* the tool calls Sweep alone.
StartSweeper ==
  LET on == command = "webhook-sweep" \/ cfg.WEBHOOK_SWEEPER_ENABLED
      draws == command = "serve" /\ on
  IN  Build("sweeper",
            draws => SweeperSettings(cfg).WEBHOOK_SWEEPER_INTERVAL \div 4 > 0,
            IF on THEN SweeperSettings(cfg) ELSE <<>>,
            IF command = "serve" THEN "router" ELSE "running")

\* NewRouter.
NewRouter ==
  Build("router", TRUE,
        AllOrDefault(cfg, {"HTTP_API_TIMEOUT", "HTTP_WEBHOOK_TIMEOUT"}), "listen")

\* net.Listen on HTTP_PORT, which another process may hold.
ListenAPI == \E free \in BOOLEAN : Build("listen", free, <<>>, "metrics")

\* net.Listen on METRICS_PORT, unless metrics are off: the port must be free
\* and METRICS_BIND_ADDRESS every address (""), or a "local" one.
ListenMetrics ==
  \E free \in BOOLEAN :
    Build("metrics", cfg.METRICS_PORT # 0 => free /\ cfg.METRICS_BIND_ADDRESS # "foreign",
          <<>>, "running")

Next == \/ Load \/ NewLogger \/ NewDatabase \/ NewRepos \/ NewStripeClient
        \/ NewAuth \/ NewCheckout \/ NewLimiter \/ StartRetention
        \/ StartSweeper \/ NewRouter \/ ListenAPI \/ ListenMetrics

Spec == Init /\ [][Next]_vars

-----------------------------------------------------------------------------

\* The steps name a constructor or an end, and what is wired is a setting or
\* the claim window, with a value of the kind the component uses.
TypeOK ==
  /\ step \in {"load", "logger", "database", "repos", "stripe", "auth", "checkout",
              "limiter", "retention", "sweeper", "router", "listen", "metrics",
              "running", "failed"}
  /\ DOMAIN wired \subseteq Settings \cup {"claimWindow"}
  /\ \A s \in DOMAIN wired :
       wired[s] >= (IF s \in {"DB_MIN_CONNS", "STRIPE_MAX_NETWORK_RETRIES"} THEN 0 ELSE 1)

\* What Validate accepts, every constructor accepts: after Load a start fails
\* only where it meets the outside, at the database or at a listener, and at a
\* sweeper interval under four nanoseconds, whose quarter is no bound for
\* rand.Int64N.  The outside judges two settings that no check reads: a DSN
\* that is a malformed URL, and METRICS_BIND_ADDRESS.
AcceptedConfigBoots ==
  [][step # "load" /\ step' = "failed" =>
       \/ step \in {"database", "listen"}
       \/ step = "sweeper" /\ cfg.WEBHOOK_SWEEPER_INTERVAL < 4
       \/ step = "metrics" /\ cfg.METRICS_PORT # 0]_vars

\* Settings that a component defaults and Validate does not look at.
Unvalidated == {"DB_MAX_CONN_LIFETIME", "DB_MAX_CONN_IDLE_TIME",
                "DB_HEALTH_CHECK_PERIOD", "WEBHOOK_SWEEPER_ALERT_AFTER",
                "REFRESH_TOKEN_GRACE"}

Narrowed == {"DB_MAX_CONNS", "DB_MIN_CONNS", "WEBHOOK_SWEEPER_MAX_ATTEMPTS"}

\* A tool runs a worker that the configuration switches off, so that nothing
\* validated the worker's settings.
Unchecked ==
  \/ command = "webhook-sweep" /\ ~cfg.WEBHOOK_SWEEPER_ENABLED
  \/ command = "retention-run" /\ ~cfg.PAYLOAD_RETENTION_ENABLED

\* A component runs with the value the operator set.  It runs with another
\* one only where the setting is not positive and nobody validates it, where
\* an int32 cannot hold it, or in a tool whose worker is switched off, and
\* the value has its type.
OperatorSettingsTakeEffect ==
  /\ TypeOK
  /\ \A s \in DOMAIN wired \cap Settings :
         wired[s] # Read(env, s) =>
           \/ s \in Unvalidated /\ Read(env, s) <= 0
           \/ s \in Narrowed /\ Read(env, s) \notin -(MaxInt32 + 1) .. MaxInt32
           \/ Unchecked

\* The deadline of a handler in a service running with this environment.
HandlerDeadline == OrDefault(cfg, "HTTP_WEBHOOK_TIMEOUT")

ShortWindows ==
  {w \in DOMAIN wired \cap {"claimWindow", "WEBHOOK_STALE_CLAIM_AFTER"} :
     wired[w] <= HandlerDeadline}

\* Every window after which a claim counts as abandoned is longer than the
\* deadline of the handler that may still be working on it.  Where one is not
\* it is the repository's own five minutes, which run selects whatever is
\* configured, or a window left unvalidated as the sweeper is switched off.
ShortWindowsAreUnvalidated ==
  ShortWindows # {} =>
    \/ command = "serve" /\ ShortWindows = {"claimWindow"} /\ HandlerDeadline >= 5 * Minute
    \/ command # "serve" /\ ~cfg.WEBHOOK_SWEEPER_ENABLED

\* Ten times the budget is more than a duration can hold: validateRetention
\* compares with what is left of it.
BudgetOverflows ==
  10 * cfg.WEBHOOK_SWEEPER_MAX_ATTEMPTS * cfg.WEBHOOK_SWEEPER_MAX_BACKOFF > MaxInt64

\* The payload of a failed event outlasts the retry budget ten times over,
\* counted in the attempts and the backoff the sweeper really runs with,
\* whenever both workers are switched on and the product does not overflow.
PurgeClearsRetryBudget ==
  /\ "PAYLOAD_RETENTION_UNSETTLED_AFTER" \in DOMAIN wired
  /\ cfg.WEBHOOK_SWEEPER_ENABLED /\ cfg.PAYLOAD_RETENTION_ENABLED
  /\ ~BudgetOverflows
  => LET sweeper == SweeperSettings(cfg)
     IN  wired.PAYLOAD_RETENTION_UNSETTLED_AFTER >=
           10 * sweeper.WEBHOOK_SWEEPER_MAX_ATTEMPTS
              * sweeper.WEBHOOK_SWEEPER_MAX_BACKOFF

=============================================================================
