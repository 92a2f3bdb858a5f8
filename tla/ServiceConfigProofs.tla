------------------------ MODULE ServiceConfigProofs ------------------------
(***************************************************************************)
(* Proofs about ServiceConfig, for every set of environments: the run      *)
(* combines chosen values of a few settings, the theorems hold for         *)
(* settings of any size in any combination.                                *)
(***************************************************************************)
EXTENDS ServiceConfig, TLAPS

Steps == {"load", "logger", "database", "repos", "stripe", "auth", "checkout",
          "limiter", "retention", "sweeper", "router", "listen", "metrics",
          "running", "failed"}

Commands == {"serve", "webhook-sweep", "webhook-report", "retention-run"}

-----------------------------------------------------------------------------
(* Settings and their defaults.                                            *)

(* Every number has a default, and a positive one.                         *)
LEMMA DefaultsArePositive ==
  \A s \in Numbers : s \in Settings /\ Defaults[s] \in Nat \ {0}
<1>1. Minute \in Nat \ {0} /\ Hour \in Nat \ {0} /\ Day \in Nat \ {0}
  BY UnitsAssumption DEF Minute, Hour, Day
<1>2. /\ Defaults["DB_MAX_CONNS"] = 25 /\ Defaults["DB_MIN_CONNS"] = 2
      /\ Defaults["DB_MAX_CONN_LIFETIME"] = Hour
      /\ Defaults["DB_MAX_CONN_IDLE_TIME"] = 30 * Minute
      /\ Defaults["DB_HEALTH_CHECK_PERIOD"] = Minute
      /\ Defaults["DB_CONNECT_TIMEOUT"] = 10 * Second
      /\ Defaults["STRIPE_HTTP_TIMEOUT"] = 20 * Second
      /\ Defaults["STRIPE_WEBHOOK_TOLERANCE"] = 5 * Minute
      /\ Defaults["STRIPE_MAX_NETWORK_RETRIES"] = 3
      /\ Defaults["REFRESH_TOKEN_TTL"] = 30 * Day
      /\ Defaults["BCRYPT_COST"] = 12
      /\ Defaults["AUTH_RATE_LIMIT_RPS"] = 2
      /\ Defaults["AUTH_RATE_LIMIT_BURST"] = 5
      /\ Defaults["HTTP_API_TIMEOUT"] = 10 * Second
      /\ Defaults["HTTP_WEBHOOK_TIMEOUT"] = 25 * Second
  BY DEF Defaults
<1>3. /\ Defaults["WEBHOOK_SWEEPER_INTERVAL"] = Minute
      /\ Defaults["WEBHOOK_STALE_CLAIM_AFTER"] = 5 * Minute
      /\ Defaults["WEBHOOK_SWEEPER_MAX_ATTEMPTS"] = 6
      /\ Defaults["WEBHOOK_SWEEPER_BASE_BACKOFF"] = 30 * Second
      /\ Defaults["WEBHOOK_SWEEPER_MAX_BACKOFF"] = 30 * Minute
      /\ Defaults["WEBHOOK_SWEEPER_BATCH_SIZE"] = 100
      /\ Defaults["WEBHOOK_SWEEPER_ALERT_AFTER"] = Hour
      /\ Defaults["PAYLOAD_RETENTION_INTERVAL"] = 6 * Hour
      /\ Defaults["PAYLOAD_RETENTION_SETTLED_AFTER"] = 30 * Day
      /\ Defaults["PAYLOAD_RETENTION_UNSETTLED_AFTER"] = 90 * Day
      /\ Defaults["PAYLOAD_RETENTION_BATCH_SIZE"] = 500
      /\ Defaults["REFRESH_TOKEN_GRACE"] = 7 * Day
  BY DEF Defaults
<1>4. Numbers \subseteq Settings
  BY DEF Numbers, SweeperNames, RetentionNames, Settings, Defaults
<1>5. \A s \in Numbers \ (SweeperNames \cup RetentionNames) : Defaults[s] \in Nat \ {0}
  BY <1>1, <1>2, UnitsAssumption DEF Numbers
<1>6. \A s \in SweeperNames \cup RetentionNames : Defaults[s] \in Nat \ {0}
  BY <1>1, <1>3, UnitsAssumption DEF SweeperNames, RetentionNames
<1> QED
  BY <1>4, <1>5, <1>6, Zenon

(* The number of attempts an unset or refused setting stands for.          *)
LEMMA DefaultAttempts == Defaults["WEBHOOK_SWEEPER_MAX_ATTEMPTS"] = 6
BY DEF Defaults

(* A conversion to a narrower type is a number of that type, and the       *)
(* number itself where it fits.                                            *)
LEMMA WrapIs ==
  ASSUME NEW max \in Nat, NEW n \in Int
  PROVE  /\ Wrap(n, max) \in -(max + 1) .. max
         /\ n \in -(max + 1) .. max => Wrap(n, max) = n
BY DEF Wrap

(* What Load makes of an environment.                                      *)
LEMMA LoadedNumbers ==
  ASSUME NEW e \in Environments, NEW s \in Numbers
  PROVE  /\ Read(e, s) \in Int /\ Config(e)[s] \in Int
         /\ s \notin {"DB_MAX_CONNS", "DB_MIN_CONNS"} => Config(e)[s] = Read(e, s)
         /\ Read(e, s) \in -(MaxInt32 + 1) .. MaxInt32 => Config(e)[s] = Read(e, s)
<1>1. s \in Settings /\ Defaults[s] \in Int
  BY DefaultsArePositive
<1>2. Read(e, s) \in Int
  BY <1>1, EnvironmentAssumption, Zenon DEF Read
<1>3. Config(e)[s] = IF s \in {"DB_MAX_CONNS", "DB_MIN_CONNS"}
                     THEN Int32(Read(e, s)) ELSE Read(e, s)
  BY <1>1, Zenon DEF Config
<1>4. /\ Int32(Read(e, s)) \in Int
      /\ Read(e, s) \in -(MaxInt32 + 1) .. MaxInt32 => Int32(Read(e, s)) = Read(e, s)
  BY <1>2, WrapIs, UnitsAssumption DEF Int32
<1> QED
  BY <1>2, <1>3, <1>4, Zenon

(* A defaulted setting is positive, and what was set if that is.           *)
LEMMA OrDefaultIs ==
  ASSUME NEW c, NEW s \in Numbers, c[s] \in Int
  PROVE  OrDefault(c, s) \in Nat \ {0} /\ (c[s] > 0 => OrDefault(c, s) = c[s])
BY DefaultsArePositive DEF OrDefault

-----------------------------------------------------------------------------
(* What Validate vouches for.                                              *)

(* The numbers that are compared with zero whatever is switched on.        *)
Checked == {"DB_MAX_CONNS", "DB_CONNECT_TIMEOUT", "STRIPE_HTTP_TIMEOUT",
            "STRIPE_WEBHOOK_TOLERANCE", "REFRESH_TOKEN_TTL", "BCRYPT_COST",
            "AUTH_RATE_LIMIT_RPS", "AUTH_RATE_LIMIT_BURST", "HTTP_API_TIMEOUT",
            "HTTP_WEBHOOK_TIMEOUT"}

(* Validate refuses a number that is not positive, of a worker if that is  *)
(* switched on.                                                            *)
LEMMA ValidatedArePositive ==
  ASSUME NEW c, Validate(c), \A s \in Numbers : c[s] \in Int
  PROVE  /\ \A s \in Checked : c[s] > 0
         /\ c.WEBHOOK_SWEEPER_ENABLED => \A s \in SweeperNames \ Unvalidated : c[s] > 0
         /\ c.PAYLOAD_RETENTION_ENABLED => \A s \in RetentionNames \ Unvalidated : c[s] > 0
         /\ c["DB_MIN_CONNS"] \in 0 .. c["DB_MAX_CONNS"]
         /\ c["STRIPE_MAX_NETWORK_RETRIES"] >= 0
<1>1. Checked \subseteq Numbers
  BY Zenon DEF Checked, Numbers
<1>2. /\ c["AUTH_RATE_LIMIT_RPS"] > 0 /\ c["AUTH_RATE_LIMIT_BURST"] >= 1
      /\ c["HTTP_API_TIMEOUT"] > 0 /\ c["HTTP_WEBHOOK_TIMEOUT"] > 0
  BY Zenon DEF Validate, ValidHTTP
<1>3. /\ c["DB_MAX_CONNS"] >= 1 /\ c["DB_CONNECT_TIMEOUT"] > 0
      /\ c["DB_MIN_CONNS"] \in 0 .. c["DB_MAX_CONNS"]
  BY Zenon DEF Validate, ValidDatabase
<1>4. /\ c["STRIPE_HTTP_TIMEOUT"] > 0 /\ c["STRIPE_WEBHOOK_TOLERANCE"] > 0
      /\ c["STRIPE_MAX_NETWORK_RETRIES"] >= 0
  BY Zenon DEF Validate, validateStripe
<1>5. c["REFRESH_TOKEN_TTL"] > 0 /\ c["BCRYPT_COST"] \in 10 .. 31
  BY Zenon DEF Validate, validateAuth
<1>6. \A s \in Checked : c[s] > 0
  BY <1>1, <1>2, <1>3, <1>4, <1>5 DEF Checked
<1>7. ASSUME c.WEBHOOK_SWEEPER_ENABLED
      PROVE  \A s \in SweeperNames \ Unvalidated : c[s] > 0
  <2>1. /\ c["WEBHOOK_SWEEPER_INTERVAL"] > 0 /\ c["WEBHOOK_SWEEPER_MAX_ATTEMPTS"] >= 1
        /\ c["WEBHOOK_SWEEPER_BATCH_SIZE"] >= 1 /\ c["WEBHOOK_SWEEPER_BASE_BACKOFF"] > 0
        /\ c["WEBHOOK_SWEEPER_MAX_BACKOFF"] >= c["WEBHOOK_SWEEPER_BASE_BACKOFF"]
        /\ c["WEBHOOK_STALE_CLAIM_AFTER"] > c["HTTP_WEBHOOK_TIMEOUT"]
    BY <1>7, Zenon DEF Validate, validateSweeper, WindowExceeds
  <2>2. \A s \in SweeperNames \cup {"HTTP_WEBHOOK_TIMEOUT"} : c[s] \in Int
    BY Zenon DEF Numbers
  <2>3. /\ c["WEBHOOK_SWEEPER_MAX_ATTEMPTS"] > 0 /\ c["WEBHOOK_SWEEPER_BATCH_SIZE"] > 0
        /\ c["WEBHOOK_SWEEPER_MAX_BACKOFF"] > 0 /\ c["WEBHOOK_STALE_CLAIM_AFTER"] > 0
    BY <1>2, <2>1, <2>2 DEF SweeperNames
  <2> QED
    BY <2>1, <2>3, Zenon DEF SweeperNames, Unvalidated
<1>8. ASSUME c.PAYLOAD_RETENTION_ENABLED
      PROVE  \A s \in RetentionNames \ Unvalidated : c[s] > 0
  <2>1. /\ c["PAYLOAD_RETENTION_INTERVAL"] > 0 /\ c["PAYLOAD_RETENTION_BATCH_SIZE"] >= 1
        /\ c["PAYLOAD_RETENTION_SETTLED_AFTER"] > 0
        /\ c["PAYLOAD_RETENTION_UNSETTLED_AFTER"] >= c["PAYLOAD_RETENTION_SETTLED_AFTER"]
    BY <1>8, Zenon DEF Validate, validateRetention
  <2>2. \A s \in RetentionNames : c[s] \in Int
    BY Zenon DEF Numbers
  <2>3. /\ c["PAYLOAD_RETENTION_BATCH_SIZE"] > 0
        /\ c["PAYLOAD_RETENTION_UNSETTLED_AFTER"] > 0
    BY <2>1, <2>2 DEF RetentionNames
  <2> QED
    BY <2>1, <2>3, Zenon DEF RetentionNames, Unvalidated
<1> QED
  BY <1>3, <1>4, <1>6, <1>7, <1>8, Zenon

(* A variable that must be set has a value once Load has passed.           *)
LEMMA RequiredAreSet ==
  ASSUME NEW e \in Environments, LoaderErrs(e) = {}, NEW s \in Required
  PROVE  Config(e)[s] # ""
<1>1. s \in DOMAIN e /\ e[s] # Unparsable /\ e[s] # ""
  BY EnvironmentAssumption, Zenon DEF LoaderErrs
<1>2. s \in Settings /\ s \notin {"DB_MAX_CONNS", "DB_MIN_CONNS"}
  BY DEF Required, Settings, Defaults
<1> QED
  BY <1>1, <1>2, ZenonT(40) DEF Config, Read

-----------------------------------------------------------------------------
(* The invariant: a component runs with what its constructor makes of a    *)
(* validated configuration, a worker's settings are there only if it runs. *)

Accepted == LoaderErrs(env) = {} /\ Validate(cfg)

SweeperRuns == command = "webhook-sweep" \/ cfg.WEBHOOK_SWEEPER_ENABLED
RetentionRuns == command = "retention-run" \/ cfg.PAYLOAD_RETENTION_ENABLED

ClaimWindow == IF command = "serve" THEN 5 * Minute
               ELSE OrDefault(cfg, "WEBHOOK_STALE_CLAIM_AFTER")

Attempts == IF Int32(cfg["WEBHOOK_SWEEPER_MAX_ATTEMPTS"]) <= 0
            THEN Defaults["WEBHOOK_SWEEPER_MAX_ATTEMPTS"]
            ELSE Int32(cfg["WEBHOOK_SWEEPER_MAX_ATTEMPTS"])

(* The value a validated setting has in the component that takes it.       *)
Value(s) ==
  IF s = "claimWindow" THEN ClaimWindow
  ELSE IF s = "WEBHOOK_SWEEPER_MAX_ATTEMPTS" THEN Attempts
  ELSE IF s \in {"DB_MIN_CONNS", "STRIPE_MAX_NETWORK_RETRIES"} THEN cfg[s]
  ELSE OrDefault(cfg, s)

Fits(f) ==
  /\ DOMAIN f \subseteq Numbers \cup {"claimWindow"}
  /\ \A s \in DOMAIN f :
       /\ f[s] = Value(s)
       /\ s \in SweeperNames => SweeperRuns
       /\ s \in RetentionNames => RetentionRuns

Inv ==
  /\ env \in Environments /\ command \in Commands /\ step \in Steps
  /\ step \notin {"load", "failed"} => Accepted
  /\ DOMAIN wired # {} => Accepted
  /\ Fits(wired)

(* What a constructor adds keeps the invariant if it fits.                 *)
LEMMA BuildKeepsInv ==
  ASSUME Inv, NEW this, NEW accepts, NEW settings, NEW next,
         Build(this, accepts, settings, next),
         accepts => Accepted, Fits(settings), next \in Steps
  PROVE  Inv'
<1>1. UNCHANGED <<env, command>>
  BY Zenon DEF Build
<1>2. /\ cfg' = cfg /\ Accepted' = Accepted
      /\ SweeperRuns' = SweeperRuns /\ RetentionRuns' = RetentionRuns
      /\ \A s : Value(s)' = Value(s)
  BY <1>1, Zenon DEF cfg, Accepted, SweeperRuns, RetentionRuns, Value, ClaimWindow, Attempts
<1>3. CASE accepts
  <2>1. step' = next /\ wired' = Over(settings, wired)
    BY <1>3, Zenon DEF Build
  <2>2. /\ DOMAIN wired' = DOMAIN settings \cup DOMAIN wired
        /\ \A s \in DOMAIN wired' :
             wired'[s] = IF s \in DOMAIN settings THEN settings[s] ELSE wired[s]
    BY <2>1, Zenon DEF Over
  <2>3. Fits(wired)'
    BY <1>2, <2>2, Zenon DEF Inv, Fits
  <2> QED
    BY <1>1, <1>2, <1>3, <2>1, <2>3, Zenon DEF Inv
<1>4. CASE ~accepts
  <2>1. step' = "failed" /\ wired' = wired
    BY <1>4, Zenon DEF Build
  <2>2. Fits(wired)'
    BY <1>2, <2>1, Zenon DEF Inv, Fits
  <2> QED
    BY <1>1, <1>2, <2>1, <2>2, Zenon DEF Inv, Steps
<1> QED
  BY <1>3, <1>4, Zenon

(* Settings that are taken over, or defaulted, one by one.                 *)
LEMMA DefaultedFit ==
  ASSUME NEW S, S \subseteq Numbers \ {"WEBHOOK_SWEEPER_MAX_ATTEMPTS", "DB_MIN_CONNS",
                                       "STRIPE_MAX_NETWORK_RETRIES"},
         S \cap SweeperNames # {} => SweeperRuns,
         S \cap RetentionNames # {} => RetentionRuns
  PROVE  Fits(AllOrDefault(cfg, S))
<1>1. "claimWindow" \notin Numbers
  BY Zenon DEF Numbers, SweeperNames, RetentionNames
<1>2. \A s \in S : OrDefault(cfg, s) = Value(s)
  BY <1>1, Zenon DEF Value
<1> QED
  BY <1>2, Zenon DEF Fits, AllOrDefault

(* Two sets of settings that fit do so together.                           *)
LEMMA OverFits ==
  ASSUME NEW f, NEW g, Fits(f), Fits(g)
  PROVE  Fits(Over(f, g))
BY Zenon DEF Fits, Over

(* A constructor that takes nothing of the configuration.                  *)
LEMMA NothingFits == Fits(<<>>)
BY DEF Fits

(* The numbers of the configuration that Load described.                   *)
LEMMA CfgNumbers ==
  ASSUME Inv
  PROVE  \A s \in Numbers : cfg[s] \in Int
BY LoadedNumbers, Zenon DEF Inv, cfg

(* database.Config.withDefaults keeps both pool sizes.                     *)
LEMMA PoolFits ==
  ASSUME Inv, Accepted
  PROVE  Fits(PoolSettings(cfg))
<1> DEFINE max == OrDefault(cfg, "DB_MAX_CONNS")
           min == IF cfg.DB_MIN_CONNS < 0 THEN 0 ELSE cfg.DB_MIN_CONNS
           sizes == [DB_MAX_CONNS |-> max, DB_MIN_CONNS |-> IF min > max THEN max ELSE min]
           names == {"DB_MAX_CONN_LIFETIME", "DB_MAX_CONN_IDLE_TIME",
                     "DB_HEALTH_CHECK_PERIOD", "DB_CONNECT_TIMEOUT"}
<1>1. /\ cfg["DB_MIN_CONNS"] \in 0 .. cfg["DB_MAX_CONNS"] /\ cfg["DB_MAX_CONNS"] > 0
      /\ cfg["DB_MIN_CONNS"] \in Int /\ cfg["DB_MAX_CONNS"] \in Int
  BY CfgNumbers, ValidatedArePositive, Zenon DEF Accepted, Checked, Numbers
<1>2. max = cfg["DB_MAX_CONNS"]
  BY <1>1, OrDefaultIs, Zenon DEF Numbers
<1>3. (IF min > max THEN max ELSE min) = cfg["DB_MIN_CONNS"]
  BY <1>1, <1>2
<1>4. Fits(sizes)
  <2>1. DOMAIN sizes = {"DB_MAX_CONNS", "DB_MIN_CONNS"}
    BY Zenon
  <2>2. sizes["DB_MAX_CONNS"] = max /\ sizes["DB_MIN_CONNS"] = cfg["DB_MIN_CONNS"]
    BY <1>3, Zenon
  <2> HIDE DEF sizes
  <2> QED
    BY <2>1, <2>2, Zenon DEF Fits, Value, Numbers, SweeperNames, RetentionNames
<1>5. Fits(AllOrDefault(cfg, names))
  <2>1. /\ names \subseteq Numbers \ {"WEBHOOK_SWEEPER_MAX_ATTEMPTS", "DB_MIN_CONNS",
                                      "STRIPE_MAX_NETWORK_RETRIES"}
        /\ names \cap SweeperNames = {} /\ names \cap RetentionNames = {}
    BY Zenon DEF Numbers, SweeperNames, RetentionNames
  <2> HIDE DEF names
  <2> QED
    BY <2>1, DefaultedFit, Zenon
<1>6. PoolSettings(cfg) = Over(sizes, AllOrDefault(cfg, names))
  BY Zenon DEF PoolSettings
<1> HIDE DEF sizes, names
<1> QED
  BY <1>4, <1>5, <1>6, OverFits, Zenon

(* stripe.New keeps the number of retries.                                 *)
LEMMA StripeFits ==
  ASSUME Inv, Accepted
  PROVE  Fits(StripeSettings(cfg))
<1> DEFINE retries == [STRIPE_MAX_NETWORK_RETRIES |->
                         IF cfg.STRIPE_MAX_NETWORK_RETRIES < 0 THEN 0
                         ELSE cfg.STRIPE_MAX_NETWORK_RETRIES]
           names == {"STRIPE_HTTP_TIMEOUT", "STRIPE_WEBHOOK_TOLERANCE"}
<1>1. /\ cfg["STRIPE_MAX_NETWORK_RETRIES"] >= 0
      /\ cfg["STRIPE_MAX_NETWORK_RETRIES"] \in Int
  BY CfgNumbers, ValidatedArePositive, Zenon DEF Accepted, Numbers
<1>2. Fits(retries)
  <2>1. /\ DOMAIN retries = {"STRIPE_MAX_NETWORK_RETRIES"}
        /\ retries["STRIPE_MAX_NETWORK_RETRIES"] = cfg["STRIPE_MAX_NETWORK_RETRIES"]
    BY <1>1
  <2> HIDE DEF retries
  <2> QED
    BY <2>1, Zenon DEF Fits, Value, Numbers, SweeperNames, RetentionNames
<1>3. Fits(AllOrDefault(cfg, names))
  <2>1. /\ names \subseteq Numbers \ {"WEBHOOK_SWEEPER_MAX_ATTEMPTS", "DB_MIN_CONNS",
                                      "STRIPE_MAX_NETWORK_RETRIES"}
        /\ names \cap SweeperNames = {} /\ names \cap RetentionNames = {}
    BY Zenon DEF Numbers, SweeperNames, RetentionNames
  <2> HIDE DEF names
  <2> QED
    BY <2>1, DefaultedFit, Zenon
<1>4. StripeSettings(cfg) = Over(retries, AllOrDefault(cfg, names))
  BY Zenon DEF StripeSettings
<1> HIDE DEF retries, names
<1> QED
  BY <1>2, <1>3, <1>4, OverFits, Zenon

(* What a sweeper runs with.                                               *)
LEMMA SweeperSettingsAre ==
  ASSUME NEW e \in Environments, NEW c, c = Config(e)
  PROVE  /\ DOMAIN SweeperSettings(c) = SweeperNames
         /\ SweeperSettings(c)["WEBHOOK_SWEEPER_MAX_ATTEMPTS"] =
              IF Int32(c["WEBHOOK_SWEEPER_MAX_ATTEMPTS"]) <= 0
              THEN Defaults["WEBHOOK_SWEEPER_MAX_ATTEMPTS"]
              ELSE Int32(c["WEBHOOK_SWEEPER_MAX_ATTEMPTS"])
         /\ \A s \in SweeperNames \ {"WEBHOOK_SWEEPER_MAX_ATTEMPTS"} :
              SweeperSettings(c)[s] = OrDefault(c, s)
<1> DEFINE d == [c EXCEPT !.WEBHOOK_SWEEPER_MAX_ATTEMPTS = Int32(@)]
<1>1. "WEBHOOK_SWEEPER_MAX_ATTEMPTS" \in Settings
  BY DefaultsArePositive, Zenon DEF Numbers, SweeperNames
<1>2. DOMAIN c = Settings
  BY Zenon DEF Config
<1>3. d["WEBHOOK_SWEEPER_MAX_ATTEMPTS"] = Int32(c["WEBHOOK_SWEEPER_MAX_ATTEMPTS"])
  BY <1>1, <1>2, Zenon
<1>4. \A s \in SweeperNames \ {"WEBHOOK_SWEEPER_MAX_ATTEMPTS"} : d[s] = c[s]
  <2>1. SweeperNames \subseteq Settings
    BY DefaultsArePositive, Zenon DEF Numbers
  <2> QED
    BY <1>2, <2>1, Zenon
<1>5. SweeperSettings(c) = [s \in SweeperNames |-> OrDefault(d, s)]
  BY Zenon DEF SweeperSettings, AllOrDefault
<1>6. "WEBHOOK_SWEEPER_MAX_ATTEMPTS" \in SweeperNames
  BY Zenon DEF SweeperNames
<1> HIDE DEF d
<1> QED
  BY <1>3, <1>4, <1>5, <1>6, Zenon DEF OrDefault

(* NewWebhookSweeper's settings fit where the sweeper runs.                *)
LEMMA SweeperFits ==
  ASSUME Inv, SweeperRuns
  PROVE  Fits(SweeperSettings(cfg))
<1>1. /\ DOMAIN SweeperSettings(cfg) = SweeperNames
      /\ SweeperSettings(cfg)["WEBHOOK_SWEEPER_MAX_ATTEMPTS"] = Attempts
      /\ \A s \in SweeperNames \ {"WEBHOOK_SWEEPER_MAX_ATTEMPTS"} :
           SweeperSettings(cfg)[s] = OrDefault(cfg, s)
  BY SweeperSettingsAre, Zenon DEF Inv, cfg, Attempts
<1>2. /\ SweeperNames \subseteq Numbers /\ SweeperNames \cap RetentionNames = {}
      /\ SweeperNames \cap {"claimWindow", "DB_MIN_CONNS", "STRIPE_MAX_NETWORK_RETRIES"} = {}
  BY Zenon DEF Numbers, SweeperNames, RetentionNames
<1>3. \A s \in SweeperNames : SweeperSettings(cfg)[s] = Value(s)
  BY <1>1, <1>2, Zenon DEF Value
<1> QED
  BY <1>1, <1>2, <1>3, Zenon DEF Fits

(* The steps before and after Load keep the invariant.                     *)
LEMMA StepKeepsInv ==
  ASSUME Inv, [Next]_vars
  PROVE  Inv'
<1> DEFINE Plain(S) == /\ S \subseteq Numbers \ {"WEBHOOK_SWEEPER_MAX_ATTEMPTS",
                                  "DB_MIN_CONNS", "STRIPE_MAX_NETWORK_RETRIES"}
                       /\ S \cap SweeperNames = {} /\ S \cap RetentionNames = {}
<1>1. \A S : Plain(S) => Fits(AllOrDefault(cfg, S))
  BY DefaultedFit, Zenon
<1>2. step \notin {"load", "failed"} => Accepted
  BY Zenon DEF Inv
<1>3. CASE Load
  BY <1>3, NothingFits, BuildKeepsInv, Zenon DEF Load, Accepted, Steps
<1>4. CASE NewLogger
  BY <1>2, <1>4, NothingFits, BuildKeepsInv, Zenon DEF NewLogger, Build, Steps
<1>5. CASE NewDatabase
  <2>1. step = "database" /\ Accepted
    BY <1>2, <1>5, Zenon DEF NewDatabase, Build
  <2>2. Plain({"DB_CONNECT_TIMEOUT"})
    BY Zenon DEF Numbers, SweeperNames, RetentionNames
  <2>3. Fits(IF command = "serve" THEN PoolSettings(cfg)
             ELSE AllOrDefault(cfg, {"DB_CONNECT_TIMEOUT"}))
    BY <1>1, <2>1, <2>2, PoolFits, Zenon
  <2>4. (IF command = "serve" THEN "stripe" ELSE "repos") \in Steps
    BY Zenon DEF Steps
  <2> QED
    BY <1>5, <2>1, <2>3, <2>4, BuildKeepsInv, Zenon DEF NewDatabase
<1>6. CASE NewRepos
  <2> DEFINE window == [claimWindow |-> IF command = "serve" THEN 5 * Minute
                          ELSE OrDefault(cfg, "WEBHOOK_STALE_CLAIM_AFTER")]
             next == CASE command = "serve" -> "checkout"
                       [] command = "webhook-sweep" -> "stripe"
                       [] command = "retention-run" -> "retention"
                       [] command = "webhook-report" -> "running"
  <2>1. Build("repos", TRUE, window, next)
    BY <1>6, Zenon DEF NewRepos
  <2>2. Accepted
    BY <1>2, <2>1, Zenon DEF Build
  <2>3. next \in Steps
    BY Zenon DEF Inv, Commands, Steps
  <2>4. DOMAIN window = {"claimWindow"} /\ window["claimWindow"] = ClaimWindow
    BY Zenon DEF ClaimWindow
  <2> HIDE DEF window, next
  <2>5. Fits(window)
    BY <2>4, Zenon DEF Fits, Value, SweeperNames, RetentionNames
  <2> QED
    BY <2>1, <2>2, <2>3, <2>5, BuildKeepsInv, Zenon
<1>7. CASE NewStripeClient
  <2>1. step = "stripe" /\ Accepted
    BY <1>2, <1>7, Zenon DEF NewStripeClient, Build
  <2>2. (IF command = "serve" THEN "auth" ELSE "sweeper") \in Steps
    BY Zenon DEF Steps
  <2> QED
    BY <1>7, <2>1, <2>2, StripeFits, BuildKeepsInv, Zenon DEF NewStripeClient
<1>8. CASE NewAuth
  <2>1. Plain({"REFRESH_TOKEN_TTL", "BCRYPT_COST"})
    BY Zenon DEF Numbers, SweeperNames, RetentionNames
  <2>2. Accepted /\ "repos" \in Steps
    BY <1>2, <1>8, Zenon DEF NewAuth, Build, Steps
  <2> QED
    BY <1>1, <1>8, <2>1, <2>2, BuildKeepsInv, Zenon DEF NewAuth
<1>9. CASE NewCheckout
  BY <1>2, <1>9, NothingFits, BuildKeepsInv, Zenon DEF NewCheckout, Build, Steps
<1>10. CASE NewLimiter
  <2>1. Plain({"AUTH_RATE_LIMIT_RPS", "AUTH_RATE_LIMIT_BURST"})
    BY Zenon DEF Numbers, SweeperNames, RetentionNames
  <2>2. Accepted /\ "retention" \in Steps
    BY <1>2, <1>10, Zenon DEF NewLimiter, Build, Steps
  <2> QED
    BY <1>1, <1>10, <2>1, <2>2, BuildKeepsInv, Zenon DEF NewLimiter
<1>11. CASE StartRetention
  <2> DEFINE on == command = "retention-run" \/ cfg.PAYLOAD_RETENTION_ENABLED
             settings == IF on THEN RetentionSettings(cfg) ELSE <<>>
             next == IF command = "retention-run" THEN "running" ELSE "sweeper"
  <2>1. Build("retention", TRUE, settings, next)
    BY <1>11, Zenon DEF StartRetention
  <2>2. Accepted /\ next \in Steps
    BY <1>2, <2>1, Zenon DEF Build, Steps
  <2>3. /\ RetentionNames \subseteq Numbers \ {"WEBHOOK_SWEEPER_MAX_ATTEMPTS",
                                  "DB_MIN_CONNS", "STRIPE_MAX_NETWORK_RETRIES"}
        /\ RetentionNames \cap SweeperNames = {}
    BY Zenon DEF Numbers, SweeperNames, RetentionNames
  <2>4. Fits(settings)
    BY <2>3, DefaultedFit, NothingFits, Zenon DEF RetentionRuns, RetentionSettings
  <2> HIDE DEF settings, next
  <2> QED
    BY <2>1, <2>2, <2>4, BuildKeepsInv, Zenon
<1>12. CASE StartSweeper
  <2> DEFINE on == command = "webhook-sweep" \/ cfg.WEBHOOK_SWEEPER_ENABLED
             settings == IF on THEN SweeperSettings(cfg) ELSE <<>>
             next == IF command = "serve" THEN "router" ELSE "running"
             accepts == command = "serve" /\ on =>
                          SweeperSettings(cfg).WEBHOOK_SWEEPER_INTERVAL \div 4 > 0
  <2>1. Build("sweeper", accepts, settings, next)
    BY <1>12, Zenon DEF StartSweeper
  <2>2. Accepted /\ next \in Steps
    BY <1>2, <2>1, Zenon DEF Build, Steps
  <2>3. Fits(settings)
    BY SweeperFits, NothingFits, Zenon DEF SweeperRuns
  <2> HIDE DEF settings, next, accepts
  <2> QED
    BY <2>1, <2>2, <2>3, BuildKeepsInv, Zenon
<1>13. CASE NewRouter
  <2>1. Plain({"HTTP_API_TIMEOUT", "HTTP_WEBHOOK_TIMEOUT"})
    BY Zenon DEF Numbers, SweeperNames, RetentionNames
  <2>2. Accepted /\ "listen" \in Steps
    BY <1>2, <1>13, Zenon DEF NewRouter, Build, Steps
  <2> QED
    BY <1>1, <1>13, <2>1, <2>2, BuildKeepsInv, Zenon DEF NewRouter
<1>13a. CASE ListenAPI
  <2>1. Accepted /\ "metrics" \in Steps
    BY <1>2, <1>13a, Zenon DEF ListenAPI, Build, Steps
  <2> QED
    BY <1>13a, <2>1, NothingFits, BuildKeepsInv, Zenon DEF ListenAPI
<1>13b. CASE ListenMetrics
  <2>1. Accepted /\ "running" \in Steps
    BY <1>2, <1>13b, Zenon DEF ListenMetrics, Build, Steps
  <2> QED
    BY <1>13b, <2>1, NothingFits, BuildKeepsInv, Zenon DEF ListenMetrics
<1>14. CASE UNCHANGED vars
  BY <1>14, Zenon DEF vars, Inv, Fits, Value, Accepted, SweeperRuns, RetentionRuns, ClaimWindow,
               Attempts, cfg
<1> QED
  BY <1>3, <1>4, <1>5, <1>6, <1>7, <1>8, <1>9, <1>10, <1>11, <1>12, <1>13, <1>13a,
     <1>13b, <1>14, Zenon DEF Next

(* What is wired fits a validated configuration, whatever the environment: *)
(* the invariant the other theorems rest on.                               *)
THEOREM Invariance == Spec => []Inv
<1>1. Init => Inv
  BY NothingFits DEF Init, Inv, Commands, Steps
<1> QED
  BY <1>1, StepKeepsInv, PTL DEF Spec

-----------------------------------------------------------------------------
(* What the invariant says of the values.                                  *)

(* The sweeper's attempts are a positive int32, and the ones configured if *)
(* these are.                                                              *)
LEMMA AttemptsAre ==
  ASSUME Inv
  PROVE  /\ Attempts \in Nat \ {0} /\ Attempts <= MaxInt32
         /\ cfg["WEBHOOK_SWEEPER_MAX_ATTEMPTS"] \in 1 .. MaxInt32 =>
              Attempts = cfg["WEBHOOK_SWEEPER_MAX_ATTEMPTS"]
<1>1. cfg["WEBHOOK_SWEEPER_MAX_ATTEMPTS"] \in Int
  BY CfgNumbers, Zenon DEF Numbers, SweeperNames
<1>2. /\ Int32(cfg["WEBHOOK_SWEEPER_MAX_ATTEMPTS"]) \in -(MaxInt32 + 1) .. MaxInt32
      /\ cfg["WEBHOOK_SWEEPER_MAX_ATTEMPTS"] \in -(MaxInt32 + 1) .. MaxInt32 =>
           Int32(cfg["WEBHOOK_SWEEPER_MAX_ATTEMPTS"]) = cfg["WEBHOOK_SWEEPER_MAX_ATTEMPTS"]
  BY <1>1, WrapIs, UnitsAssumption, Zenon DEF Int32
<1> QED
  BY <1>1, <1>2, DefaultAttempts, UnitsAssumption DEF Attempts

(* Every value is one its component can use.                               *)
LEMMA ValuesAreTyped ==
  ASSUME Inv, Accepted, NEW s \in Numbers \cup {"claimWindow"}
  PROVE  /\ Value(s) \in Nat
         /\ s \notin {"DB_MIN_CONNS", "STRIPE_MAX_NETWORK_RETRIES"} => Value(s) >= 1
<1>1. \A t \in Numbers : OrDefault(cfg, t) \in Nat \ {0}
  BY CfgNumbers, OrDefaultIs, Zenon
<1>2. CASE s = "claimWindow"
  <2>1. ClaimWindow \in Nat \ {0}
    BY <1>1, UnitsAssumption DEF ClaimWindow, Minute, Numbers, SweeperNames
  <2> QED
    BY <1>2, <2>1 DEF Value
<1>3. CASE s = "WEBHOOK_SWEEPER_MAX_ATTEMPTS"
  BY <1>3, AttemptsAre DEF Value
<1>4. CASE s \in {"DB_MIN_CONNS", "STRIPE_MAX_NETWORK_RETRIES"}
  <2>1. /\ cfg["DB_MIN_CONNS"] \in 0 .. cfg["DB_MAX_CONNS"]
        /\ cfg["STRIPE_MAX_NETWORK_RETRIES"] >= 0
        /\ cfg["DB_MIN_CONNS"] \in Int /\ cfg["STRIPE_MAX_NETWORK_RETRIES"] \in Int
    BY CfgNumbers, ValidatedArePositive, Zenon DEF Accepted, Numbers
  <2> QED
    BY <1>4, <2>1 DEF Value
<1>5. CASE s \in Numbers \ {"claimWindow", "WEBHOOK_SWEEPER_MAX_ATTEMPTS", "DB_MIN_CONNS",
                            "STRIPE_MAX_NETWORK_RETRIES"}
  BY <1>1, <1>5 DEF Value
<1> QED
  BY <1>2, <1>3, <1>4, <1>5, Zenon

(* A number nobody defaults away comes from the environment.               *)
LEMMA ValuesAreRead ==
  ASSUME Inv, Accepted, NEW s \in Numbers,
         s \in SweeperNames => SweeperRuns, s \in RetentionNames => RetentionRuns,
         Value(s) # Read(env, s)
  PROVE  \/ s \in Unvalidated /\ Read(env, s) <= 0
         \/ s \in Narrowed /\ Read(env, s) \notin -(MaxInt32 + 1) .. MaxInt32
         \/ Unchecked
<1> SUFFICES ASSUME ~Unchecked,
                    s \in Narrowed => Read(env, s) \in -(MaxInt32 + 1) .. MaxInt32
             PROVE  s \in Unvalidated /\ Read(env, s) <= 0
  BY Zenon
<1>1. cfg[s] = Read(env, s) /\ cfg[s] \in Int
  BY LoadedNumbers, Zenon DEF Inv, cfg, Narrowed
<1>2. s \in SweeperNames => cfg.WEBHOOK_SWEEPER_ENABLED
  BY Zenon DEF SweeperRuns, Unchecked
<1>3. s \in RetentionNames => cfg.PAYLOAD_RETENTION_ENABLED
  BY Zenon DEF RetentionRuns, Unchecked
<1>4. s \notin Unvalidated \cup {"DB_MIN_CONNS", "STRIPE_MAX_NETWORK_RETRIES"} => cfg[s] > 0
  <2>1. s \in Checked \cup SweeperNames \cup RetentionNames \cup Unvalidated
               \cup {"DB_MIN_CONNS", "STRIPE_MAX_NETWORK_RETRIES"}
    BY Zenon DEF Numbers, Checked, Unvalidated
  <2>2. Validate(cfg) /\ \A t \in Numbers : cfg[t] \in Int
    BY CfgNumbers, Zenon DEF Accepted
  <2> QED
    BY <1>2, <1>3, <2>1, <2>2, ValidatedArePositive, Zenon
<1>5. s \notin {"DB_MIN_CONNS", "STRIPE_MAX_NETWORK_RETRIES"}
  BY <1>1, Zenon DEF Value
<1>6. s # "claimWindow"
  BY Zenon DEF Numbers, SweeperNames, RetentionNames
<1>7. s # "WEBHOOK_SWEEPER_MAX_ATTEMPTS"
  <2> SUFFICES ASSUME s = "WEBHOOK_SWEEPER_MAX_ATTEMPTS"
               PROVE  FALSE
    BY Zenon
  <2>1. cfg[s] > 0
    BY <1>4, <1>5, Zenon DEF Unvalidated
  <2>2. cfg[s] \in 1 .. MaxInt32
    BY <1>1, <2>1, UnitsAssumption DEF Narrowed
  <2> QED
    BY <1>1, <2>2, AttemptsAre, Zenon DEF Value
<1>8. Value(s) = OrDefault(cfg, s)
  BY <1>5, <1>6, <1>7, Zenon DEF Value
<1>9. ~(cfg[s] > 0)
  BY <1>1, <1>8, OrDefaultIs, Zenon
<1> QED
  BY <1>1, <1>4, <1>5, <1>9

(* A component runs with the value the operator set, with the exceptions   *)
(* the property lists, for any environment.                                *)
THEOREM SettingsTakeEffect == Spec => []OperatorSettingsTakeEffect
<1>1. Inv => OperatorSettingsTakeEffect
  <2> SUFFICES ASSUME Inv
               PROVE  OperatorSettingsTakeEffect
    BY Zenon
  <2>1. \A s \in DOMAIN wired :
          /\ Accepted /\ s \in Numbers \cup {"claimWindow"} /\ wired[s] = Value(s)
          /\ s \in SweeperNames => SweeperRuns
          /\ s \in RetentionNames => RetentionRuns
    BY Zenon DEF Inv, Fits
  <2>2. TypeOK
    <3>1. Numbers \subseteq Settings
      BY DefaultsArePositive, Zenon
    <3>2. \A s \in DOMAIN wired :
            wired[s] >= (IF s \in {"DB_MIN_CONNS", "STRIPE_MAX_NETWORK_RETRIES"} THEN 0 ELSE 1)
      BY <2>1, ValuesAreTyped
    <3>3. step \in Steps /\ DOMAIN wired \subseteq Settings \cup {"claimWindow"}
      BY <2>1, <3>1, ZenonT(40) DEF Inv
    <3> QED
      BY <3>2, <3>3, ZenonT(40) DEF TypeOK, Steps
  <2>3. "claimWindow" \notin Settings
    BY SMT DEF Settings, Defaults
  <2>4. \A s \in DOMAIN wired \cap Settings : s \in Numbers
    BY <2>1, <2>3, ZenonT(40)
  <2> QED
    BY <2>1, <2>2, <2>4, ValuesAreRead, Zenon DEF OperatorSettingsTakeEffect
<1> QED
  BY <1>1, Invariance, PTL

(* Every window is longer than a handler's deadline, except the two the    *)
(* property names.                                                         *)
THEOREM WindowsCompared == Spec => []ShortWindowsAreUnvalidated
<1>1. Inv => ShortWindowsAreUnvalidated
  <2> SUFFICES ASSUME Inv, NEW w0 \in ShortWindows
               PROVE  \/ /\ command = "serve" /\ ShortWindows = {"claimWindow"}
                         /\ HandlerDeadline >= 5 * Minute
                      \/ command # "serve" /\ ~cfg.WEBHOOK_SWEEPER_ENABLED
    BY Zenon DEF ShortWindowsAreUnvalidated
  <2>1. Accepted /\ \A w \in DOMAIN wired : wired[w] = Value(w)
    BY Zenon DEF ShortWindows, Inv, Fits
  <2>2. "WEBHOOK_STALE_CLAIM_AFTER" \in DOMAIN wired => SweeperRuns
    BY Zenon DEF Inv, Fits, SweeperNames
  <2>3. /\ "HTTP_WEBHOOK_TIMEOUT" \in Numbers \cap Checked
        /\ "WEBHOOK_STALE_CLAIM_AFTER" \in Numbers
        /\ "WEBHOOK_STALE_CLAIM_AFTER" \in SweeperNames \ Unvalidated
    BY Zenon DEF Numbers, SweeperNames, Checked, Unvalidated
  <2>4. /\ cfg["HTTP_WEBHOOK_TIMEOUT"] \in Int /\ cfg["WEBHOOK_STALE_CLAIM_AFTER"] \in Int
        /\ cfg["HTTP_WEBHOOK_TIMEOUT"] > 0
    BY <2>1, <2>3, CfgNumbers, ValidatedArePositive, Zenon DEF Accepted
  <2>5. HandlerDeadline = cfg["HTTP_WEBHOOK_TIMEOUT"]
    BY <2>3, <2>4, OrDefaultIs, Zenon DEF HandlerDeadline
  <2>6. Value("WEBHOOK_STALE_CLAIM_AFTER") = OrDefault(cfg, "WEBHOOK_STALE_CLAIM_AFTER")
    BY Zenon DEF Value
  <2>7. ASSUME cfg.WEBHOOK_SWEEPER_ENABLED
        PROVE  ~(OrDefault(cfg, "WEBHOOK_STALE_CLAIM_AFTER") <= HandlerDeadline)
    <3>1. cfg["WEBHOOK_STALE_CLAIM_AFTER"] > cfg["HTTP_WEBHOOK_TIMEOUT"]
      BY <2>1, <2>7, Zenon DEF Accepted, Validate, validateSweeper, WindowExceeds
    <3>2. OrDefault(cfg, "WEBHOOK_STALE_CLAIM_AFTER") = cfg["WEBHOOK_STALE_CLAIM_AFTER"]
      BY <2>3, <2>4, <3>1, OrDefaultIs
    <3> QED
      BY <2>4, <2>5, <3>1, <3>2
  <2>8. CASE command = "serve"
    <3>1. "WEBHOOK_STALE_CLAIM_AFTER" \notin ShortWindows
      BY <2>1, <2>2, <2>6, <2>7, <2>8, Zenon DEF ShortWindows, SweeperRuns
    <3>2. w0 = "claimWindow" /\ ShortWindows = {"claimWindow"}
      BY <3>1, Zenon DEF ShortWindows
    <3>3. wired["claimWindow"] = 5 * Minute /\ wired["claimWindow"] <= HandlerDeadline
      BY <2>1, <2>8, <3>2, Zenon DEF ShortWindows, Value, ClaimWindow
    <3>4. 5 * Minute \in Int
      BY UnitsAssumption DEF Minute
    <3> QED
      BY <2>4, <2>5, <2>8, <3>2, <3>3, <3>4, Zenon
  <2>9. CASE command # "serve"
    <3>1. wired[w0] = OrDefault(cfg, "WEBHOOK_STALE_CLAIM_AFTER")
      BY <2>1, <2>6, <2>9, Zenon DEF ShortWindows, Value, ClaimWindow
    <3>2. wired[w0] <= HandlerDeadline
      BY Zenon DEF ShortWindows
    <3> QED
      BY <2>7, <2>9, <3>1, <3>2, Zenon
  <2> QED
    BY <2>8, <2>9, Zenon
<1> QED
  BY <1>1, Invariance, PTL

(* Products of attempts and backoffs.                                      *)
LEMMA Products ==
  ASSUME NEW a \in Nat, NEW b \in Nat, NEW x \in Nat, x <= a
  PROVE  /\ a * b \in Nat /\ 10 * a * b = 10 * (a * b)
         /\ 10 * x * b \in Nat /\ 10 * x * b <= 10 * (a * b)
<1>1. a * b \in Nat /\ x * b \in Nat
  OBVIOUS
<1>2. x * b <= a * b
  <2>1. PICK d \in Nat : a = x + d
    OBVIOUS
  <2>2. a * b = x * b + d * b /\ d * b \in Nat
    BY <2>1
  <2> QED
    BY <1>1, <2>2
<1>3. 10 * a * b = 10 * (a * b) /\ 10 * x * b = 10 * (x * b)
  OBVIOUS
<1> QED
  BY <1>1, <1>2, <1>3

(* A payload outlasts ten times the retry budget of the sweeper as it      *)
(* really runs, unless the product overflows: narrowing never raises the   *)
(* number of attempts.                                                     *)
THEOREM PurgeMargin == Spec => []PurgeClearsRetryBudget
<1>1. Inv => PurgeClearsRetryBudget
  <2> DEFINE a == cfg["WEBHOOK_SWEEPER_MAX_ATTEMPTS"]
             b == cfg["WEBHOOK_SWEEPER_MAX_BACKOFF"]
             u == cfg["PAYLOAD_RETENTION_UNSETTLED_AFTER"]
             sweeper == SweeperSettings(cfg)
  <2> SUFFICES ASSUME Inv, "PAYLOAD_RETENTION_UNSETTLED_AFTER" \in DOMAIN wired,
                      cfg.WEBHOOK_SWEEPER_ENABLED, cfg.PAYLOAD_RETENTION_ENABLED,
                      ~BudgetOverflows
               PROVE  wired["PAYLOAD_RETENTION_UNSETTLED_AFTER"] >=
                        10 * sweeper["WEBHOOK_SWEEPER_MAX_ATTEMPTS"]
                           * sweeper["WEBHOOK_SWEEPER_MAX_BACKOFF"]
    BY Zenon DEF PurgeClearsRetryBudget
  <2>1. /\ Accepted
        /\ wired["PAYLOAD_RETENTION_UNSETTLED_AFTER"] =
             Value("PAYLOAD_RETENTION_UNSETTLED_AFTER")
    BY Zenon DEF Inv, Fits
  <2>2. /\ {"WEBHOOK_SWEEPER_MAX_ATTEMPTS", "WEBHOOK_SWEEPER_MAX_BACKOFF"}
             \subseteq Numbers \cap (SweeperNames \ Unvalidated)
        /\ "PAYLOAD_RETENTION_UNSETTLED_AFTER" \in Numbers \cap (RetentionNames \ Unvalidated)
    BY Zenon DEF Numbers, SweeperNames, RetentionNames, Unvalidated
  <2>3. a \in Int /\ b \in Int /\ u \in Int
    BY <2>2, CfgNumbers, Zenon
  <2>4. Validate(cfg) /\ \A s \in Numbers : cfg[s] \in Int
    BY <2>1, CfgNumbers, Zenon DEF Accepted
  <2>5. a > 0 /\ b > 0 /\ u > 0
    BY <2>2, <2>4, ValidatedArePositive, Zenon
  <2>6. wired["PAYLOAD_RETENTION_UNSETTLED_AFTER"] = u
    BY <2>1, <2>2, <2>3, <2>5, OrDefaultIs, Zenon DEF Value
  <2>7. /\ sweeper["WEBHOOK_SWEEPER_MAX_ATTEMPTS"] = Attempts
        /\ sweeper["WEBHOOK_SWEEPER_MAX_BACKOFF"] = b
    <3>1. /\ sweeper["WEBHOOK_SWEEPER_MAX_ATTEMPTS"] = Attempts
          /\ sweeper["WEBHOOK_SWEEPER_MAX_BACKOFF"] =
               OrDefault(cfg, "WEBHOOK_SWEEPER_MAX_BACKOFF")
      BY <2>2, SweeperSettingsAre, Zenon DEF Inv, cfg, Attempts
    <3> QED
      BY <2>2, <2>3, <2>5, <3>1, OrDefaultIs, Zenon
  <2>8. Attempts \in Nat /\ Attempts <= a
    BY <2>3, <2>5, AttemptsAre, UnitsAssumption
  <2>9. /\ a * b \in Nat /\ 10 * a * b = 10 * (a * b)
        /\ 10 * Attempts * b \in Nat /\ 10 * Attempts * b <= 10 * (a * b)
    <3> HIDE DEF a, b
    <3> QED
      BY <2>3, <2>5, <2>8, Products
  <2>10. u >= Int64(10 * Int64(a * b))
    BY <2>4, Zenon DEF Validate, validateRetention, Exhaust
  <2>11. ~(10 * a * b > MaxInt64)
    BY Zenon DEF BudgetOverflows
  <2> HIDE DEF a, b, u, sweeper
  <2>12. 10 * (a * b) <= MaxInt64
    BY <2>9, <2>11, UnitsAssumption
  <2>13. \A n \in Nat : n <= MaxInt64 => Int64(n) = n
    BY WrapIs, UnitsAssumption DEF Int64
  <2> DEFINE p == a * b
  <2>14. p \in Nat /\ 10 * p <= MaxInt64 /\ u >= Int64(10 * Int64(p))
    BY <2>9, <2>10, <2>12, Zenon
  <2>15. 10 * Attempts * b \in Nat /\ 10 * Attempts * b <= 10 * p
    BY <2>9, Zenon
  <2> DEFINE q == 10 * Attempts * b
  <2>16. q \in Nat /\ q <= 10 * p
    BY <2>15, Zenon
  <2>17. u >= q
    <3> HIDE DEF p, q
    <3>1. p <= MaxInt64 /\ 10 * p \in Nat
      BY <2>14, UnitsAssumption
    <3>2. Int64(10 * Int64(p)) = 10 * p
      BY <2>13, <2>14, <3>1, Zenon
    <3> QED
      BY <2>3, <2>14, <2>16, <3>1, <3>2
  <2> QED
    BY <2>6, <2>7, <2>17, Zenon
<1> QED
  BY <1>1, Invariance, PTL

-----------------------------------------------------------------------------
(* What Validate accepts, the constructors accept.                         *)
LEMMA ConstructorsAccept ==
  ASSUME Inv, Accepted
  PROVE  /\ cfg.LOG_LEVEL \in LevelNames
         /\ cfg.STRIPE_SECRET_KEY # "" /\ cfg.STRIPE_WEBHOOK_SECRET # ""
         /\ HasherAccepts(cfg) /\ TokensAccept(cfg) /\ CheckoutAccepts(cfg)
<1>1. \A s \in Required : cfg[s] # ""
  BY RequiredAreSet, Zenon DEF Inv, Accepted, cfg
<1>2. cfg["STRIPE_SECRET_KEY"] # "" /\ cfg["STRIPE_WEBHOOK_SECRET"] # ""
      /\ cfg["JWT_SECRET"] # ""
  BY <1>1, Zenon DEF Required
<1>3. cfg.LOG_LEVEL \in LevelNames
  BY Zenon DEF Accepted, Validate
<1>4. HasherAccepts(cfg) /\ TokensAccept(cfg)
  <2>1. cfg["JWT_SECRET"] \in {"", "random"} /\ cfg["JWT_ACCESS_TOKEN_TTL"] > 0
        /\ cfg["BCRYPT_COST"] \in 10 .. 31
    BY Zenon DEF Accepted, Validate, validateAuth
  <2>2. cfg["JWT_SECRET"] = "random"
    BY <1>2, <2>1, Zenon
  <2>3. TokensAccept(cfg)
    BY <2>1, <2>2, Zenon DEF TokensAccept
  <2>4. HasherAccepts(cfg)
    <3>1. \A n \in 10 .. 31 : n \in 4 .. 31
      OBVIOUS
    <3> QED
      BY <2>1, <3>1, Zenon DEF HasherAccepts
  <2> QED
    BY <2>3, <2>4, Zenon
<1>5. CheckoutAccepts(cfg)
  <2>1. validateStripe(cfg)
    BY Zenon DEF Accepted, Validate
  <2> QED
    BY <2>1, Zenon DEF validateStripe, ValidURL, CheckoutAccepts
<1> QED
  BY <1>2, <1>3, <1>4, <1>5, Zenon

(* After Load only the database, a listener, and a sweeper interval under  *)
(* four nanoseconds stop a start: no constructor refuses a setting that    *)
(* Validate accepts.                                                       *)
THEOREM Boots == Spec => AcceptedConfigBoots
<1>1. ASSUME Inv, [Next]_vars
      PROVE  [step # "load" /\ step' = "failed" =>
                \/ step \in {"database", "listen"}
                \/ step = "sweeper" /\ cfg.WEBHOOK_SWEEPER_INTERVAL < 4
                \/ step = "metrics" /\ cfg.METRICS_PORT # 0]_vars
  <2> SUFFICES ASSUME Next, step # "load", step' = "failed",
                      step \notin {"database", "listen"},
                      ~(step = "metrics" /\ cfg.METRICS_PORT # 0)
               PROVE  step = "sweeper" /\ cfg["WEBHOOK_SWEEPER_INTERVAL"] < 4
    BY <1>1, Zenon
  <2>1. step # "failed"
    BY Zenon DEF Next, Load, NewLogger, NewDatabase, NewRepos, NewStripeClient, NewAuth,
           NewCheckout, NewLimiter, StartRetention, StartSweeper, NewRouter,
           ListenAPI, ListenMetrics, Build
  <2>2. Accepted
    BY <1>1, <2>1, Zenon DEF Inv
  <2>3. /\ cfg.LOG_LEVEL \in LevelNames
        /\ cfg.STRIPE_SECRET_KEY # "" /\ cfg.STRIPE_WEBHOOK_SECRET # ""
        /\ HasherAccepts(cfg) /\ TokensAccept(cfg) /\ CheckoutAccepts(cfg)
    BY <1>1, <2>2, ConstructorsAccept, Zenon
  <2>4. \A this, settings, next : ~Build(this, TRUE, settings, next) \/ next = "failed"
    BY Zenon DEF Build
  <2>5. StartSweeper
    <3>1. ~(Load \/ NewDatabase)
      BY Zenon DEF Load, NewDatabase, Build
    <3>2. ~(NewLogger \/ NewStripeClient \/ NewAuth \/ NewCheckout)
      BY <2>3, Zenon DEF NewLogger, NewStripeClient, NewAuth, NewCheckout, Build
    <3>3. ~(NewLimiter \/ NewRouter)
      BY <2>4, Zenon DEF NewLimiter, NewRouter
    <3>4. ~NewRepos
      BY <1>1, Zenon DEF NewRepos, Build, Inv, Commands
    <3>5. ~StartRetention
      BY Zenon DEF StartRetention, Build
    <3>6. ~(ListenAPI \/ ListenMetrics)
      BY Zenon DEF ListenAPI, ListenMetrics, Build
    <3> QED
      BY <3>1, <3>2, <3>3, <3>4, <3>5, <3>6, Zenon DEF Next
  <2>6. /\ step = "sweeper" /\ command = "serve" /\ cfg.WEBHOOK_SWEEPER_ENABLED
        /\ ~(SweeperSettings(cfg)["WEBHOOK_SWEEPER_INTERVAL"] \div 4 > 0)
    BY <2>5, Zenon DEF StartSweeper, Build
  <2>7. "WEBHOOK_SWEEPER_INTERVAL" \in Numbers \cap (SweeperNames \ Unvalidated)
    BY Zenon DEF Numbers, SweeperNames, Unvalidated
  <2>8. cfg["WEBHOOK_SWEEPER_INTERVAL"] \in Int /\ cfg["WEBHOOK_SWEEPER_INTERVAL"] > 0
    BY <1>1, <2>2, <2>6, <2>7, CfgNumbers, ValidatedArePositive, Zenon DEF Accepted
  <2>9. SweeperSettings(cfg)["WEBHOOK_SWEEPER_INTERVAL"] = cfg["WEBHOOK_SWEEPER_INTERVAL"]
    <3>1. SweeperSettings(cfg)["WEBHOOK_SWEEPER_INTERVAL"] =
            OrDefault(cfg, "WEBHOOK_SWEEPER_INTERVAL")
      BY <1>1, <2>7, SweeperSettingsAre, Zenon DEF Inv, cfg, SweeperNames
    <3> QED
      BY <2>7, <2>8, <3>1, OrDefaultIs, Zenon
  <2> QED
    BY <2>6, <2>8, <2>9
<1> QED
  BY <1>1, Invariance, PTL DEF Spec, AcceptedConfigBoots

============================================================================
