------------------------------ MODULE Settings ------------------------------
(***************************************************************************)
(* Settings() as a function of its input, the process environment: what    *)
(* settings.py accepts and what of it the start-up in AppServices uses.    *)
(* An environment is a record with a field for each variable that a check  *)
(* reads, its value reduced to what the checks tell apart.                 *)
(***************************************************************************)
EXTENDS Integers, Sequences, FiniteSets, Functions

\* SUPPORTED_ASYMMETRIC_ALGORITHMS, two of its ten
Asymmetric == {"ES256", "RS256"}

\* the values of a text variable
Texts == {"set", "empty", "placeholder", "missing"}

(* JWT_ALLOWED_ALGORITHMS as written and the tokens it lists: "csv" is       *)
(* ES256,RS256 and the empty value, "json" a JSON list of them or a JSON     *)
(* string, "object" any other JSON value.                                    *)
Algorithms == [form : {"csv", "json", "object", "missing"}, tokens : Seq(STRING)]

(* The environments there can be.  "source" says how the fields arrive: from *)
(* environment variables and .env, or as arguments of Settings(...).         *)
ProcessEnvironment ==
    [source : {"environment", "arguments"},
     app_env : {"production", "local"},
     log_level : {"known", "unknown"},
     database_url : {"direct", "pooler_port", "malformed", "placeholder", "missing"},
     db_connection_mode : {"direct", "session", "transaction", "other", "placeholder", "missing"},
     db_pool_min_size : Int, db_pool_max_size : Int, idempotency_ttl_seconds : Int,
     db_command_timeout : Int, db_connect_timeout : Int, jwks_http_timeout : Int,
     jwt_verification_mode : {"jwks", "auth_server", "other", "missing"},
     allow_auth_server_in_prod : BOOLEAN,
     supabase_url : Texts, supabase_publishable_key : Texts,
     supabase_jwks_url : Texts, jwt_issuer : Texts, jwt_audience : Texts,
     jwt_allowed_algorithms : Algorithms, jwks_cache_ttl_seconds : Int]

-----------------------------------------------------------------------------
(* Field validation *)

FieldsValid(env) ==
    /\ env.database_url # "missing"
    /\ env.db_connection_mode # "missing"
    /\ env.db_pool_min_size >= 0 /\ env.db_pool_max_size >= 1
    /\ env.db_command_timeout > 0 /\ env.db_connect_timeout > 0 /\ env.jwks_http_timeout > 0
    /\ 60 <= env.idempotency_ttl_seconds /\ env.idempotency_ttl_seconds <= 2592000
    /\ env.jwt_verification_mode \in {"jwks", "auth_server"}
    /\ env.jwks_cache_ttl_seconds >= 0

(* pydantic-settings decodes the environment value of a set as JSON before   *)
(* any validator sees it; an argument is handed to the validator as it is.   *)
Decodable(env) ==
    env.source = "environment" => env.jwt_allowed_algorithms.form # "csv"

\* _parse_algorithms: every token supported and none twice
AlgorithmsValid(env) ==
    LET algorithms == env.jwt_allowed_algorithms IN
    /\ Decodable(env)
    /\ algorithms.form # "object"
    /\ IsInjective(algorithms.tokens)
    /\ Range(algorithms.tokens) \subseteq Asymmetric

-----------------------------------------------------------------------------
(* _validate_configuration *)

\* _reject_placeholders: the four variables it looks at
NoPlaceholders(env) ==
    "placeholder" \notin {env.database_url, env.db_connection_mode,
                          env.jwt_issuer, env.jwt_audience}

ConnectionModeValid(env) == env.db_connection_mode \in {"direct", "session"}

\* a port that cannot be parsed counts as no port
NoTransactionPooler(env) == env.database_url # "pooler_port"

Given(env, fields) == \A f \in fields : env[f] \notin {"missing", "empty"}

\* Mutant of RequiredFields: the audience is not required.
RequiredWithoutAudience(mode) ==
    IF mode = "jwks" THEN {"supabase_jwks_url", "jwt_issuer"}
    ELSE {"supabase_url", "supabase_publishable_key"}

RequiredFields(mode) ==
    IF mode = "jwks" THEN {"supabase_jwks_url", "jwt_issuer", "jwt_audience"}
    ELSE {"supabase_url", "supabase_publishable_key"}

JwtModeValid(env) ==
    /\ Given(env, RequiredFields(env.jwt_verification_mode))
    /\ IF env.jwt_verification_mode = "jwks"
       THEN env.jwt_allowed_algorithms.tokens # <<>>
       ELSE env.app_env = "production" => env.allow_auth_server_in_prod

Accepted(env) ==
    /\ FieldsValid(env) /\ AlgorithmsValid(env)
    /\ NoPlaceholders(env) /\ ConnectionModeValid(env) /\ NoTransactionPooler(env)
    /\ JwtModeValid(env)

-----------------------------------------------------------------------------
(* build_verifier *)

\* the fields it asserts to be there, in the branch of its mode
AssertedFields(mode) ==
    IF mode = "jwks" THEN {"supabase_jwks_url", "jwt_issuer", "jwt_audience"}
    ELSE {"supabase_url", "supabase_publishable_key"}

(* What start-up goes on to use: the pool bounds, the DSN, which fields that *)
(* build_verifier asserts are None, and whether PyJWKClient will be given a  *)
(* cache lifespan of 0, which it refuses.                                    *)
Loaded(env) ==
    [min |-> env.db_pool_min_size, max |-> env.db_pool_max_size,
     dsn |-> env.database_url,
     none |-> {f \in AssertedFields(env.jwt_verification_mode) : env[f] = "missing"},
     no_lifespan |-> env.jwt_verification_mode = "jwks" /\ env.jwks_cache_ttl_seconds = 0]
=============================================================================
