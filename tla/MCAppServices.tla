--------------------------- MODULE MCAppServices ---------------------------
EXTENDS AppServices

\* .env.hosted.example with its YOUR_, VERIFY_ and REPLACE_ values filled in
HostedTemplate ==
    [source |-> "environment", app_env |-> "production", log_level |-> "known",
     database_url |-> "direct", db_connection_mode |-> "session",
     db_pool_min_size |-> 0, db_pool_max_size |-> 2, idempotency_ttl_seconds |-> 86400,
     db_command_timeout |-> 30, db_connect_timeout |-> 10, jwks_http_timeout |-> 5,
     jwt_verification_mode |-> "jwks", allow_auth_server_in_prod |-> FALSE,
     supabase_url |-> "set", supabase_publishable_key |-> "missing",
     supabase_jwks_url |-> "set", jwt_issuer |-> "set", jwt_audience |-> "set",
     jwt_allowed_algorithms |-> [form |-> "csv", tokens |-> <<"ES256">>],
     jwks_cache_ttl_seconds |-> 300]

\* the same with the algorithms written as a JSON list
Hosted == [HostedTemplate EXCEPT !.jwt_allowed_algorithms.form = "json"]

\* .env.local.example
Local ==
    [Hosted EXCEPT !.app_env = "local", !.db_connection_mode = "direct",
        !.jwt_verification_mode = "auth_server", !.supabase_publishable_key = "placeholder",
        !.supabase_jwks_url = "missing", !.jwt_issuer = "missing", !.jwt_audience = "missing",
        !.jwt_allowed_algorithms = [form |-> "missing", tokens |-> <<>>]]

TokenLists ==
    {<<>>, <<"ES256">>, <<"ES256", "RS256">>, <<"ES256", "ES256">>, <<"HS256">>}

\* the environments that differ from env in at most one variable
Near(env) == UNION {
    {[env EXCEPT !.source = v] : v \in {"environment", "arguments"}},
    {[env EXCEPT !.app_env = v] : v \in {"production", "local"}},
    {[env EXCEPT !.log_level = v] : v \in {"known", "unknown"}},
    {[env EXCEPT !.database_url = v] :
        v \in {"direct", "pooler_port", "malformed", "placeholder", "missing"}},
    {[env EXCEPT !.db_connection_mode = v] :
        v \in {"direct", "session", "transaction", "other", "placeholder", "missing"}},
    {[env EXCEPT !.db_pool_min_size = v] : v \in {-1, 0, 1, 3}},
    {[env EXCEPT !.db_pool_max_size = v] : v \in {0, 2}},
    {[env EXCEPT !.idempotency_ttl_seconds = v] : v \in {59, 60, 2592000, 2592001}},
    {[env EXCEPT !.db_command_timeout = v] : v \in {0, 1}},
    {[env EXCEPT !.db_connect_timeout = v] : v \in {0, 1}},
    {[env EXCEPT !.jwks_http_timeout = v] : v \in {0, 1}},
    {[env EXCEPT !.jwt_verification_mode = v] :
        v \in {"jwks", "auth_server", "other", "missing"}},
    {[env EXCEPT !.allow_auth_server_in_prod = v] : v \in BOOLEAN},
    {[env EXCEPT !.supabase_url = v] : v \in Texts},
    {[env EXCEPT !.supabase_publishable_key = v] : v \in Texts},
    {[env EXCEPT !.supabase_jwks_url = v] : v \in Texts},
    {[env EXCEPT !.jwt_issuer = v] : v \in Texts},
    {[env EXCEPT !.jwt_audience = v] : v \in Texts},
    {[env EXCEPT !.jwt_allowed_algorithms.form = v] : v \in {"csv", "json", "object", "missing"}},
    {[env EXCEPT !.jwt_allowed_algorithms.tokens = v] : v \in TokenLists},
    {[env EXCEPT !.jwks_cache_ttl_seconds = v] : v \in {-1, 0, 1}}}

(* The two templates, the same with the other verification mode, in          *)
(* production without the guard, with a pool that is not lazy and built by a *)
(* test, and all that differ from one of these in one variable.              *)
MCEnvironments == UNION {Near(env) : env \in
    {Hosted, [Hosted EXCEPT !.jwt_verification_mode = "auth_server"],
     [Hosted EXCEPT !.db_pool_min_size = 1], [HostedTemplate EXCEPT !.source = "arguments"],
     Local, [Local EXCEPT !.jwt_verification_mode = "jwks"],
     [Local EXCEPT !.app_env = "production"]}}

JustTheTemplate == {HostedTemplate}

(* The hosted template starts once its VERIFY_ and REPLACE_ values are      *)
(* replaced: they alone "intentionally fail startup"                        *)
(* (src/backend/.env.hosted.example:2), and JWT_ALLOWED_ALGORITHMS takes    *)
(* "comma-separated asymmetric algorithms" (line 35).                       *)
TemplateStarts == [][phase = "settings" => phase' # "failed"]_vars
=============================================================================
