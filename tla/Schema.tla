------------------------------- MODULE Schema -------------------------------
(***************************************************************************)
(* The database schema: what each Alembic revision adds, the schema the ten   *)
(* of them make, and the one the models declare.                             *)
(*                                                                         *)
(* A schema is a set of facts <<table, columns, what>>: columns that may be      *)
(* NULL ("null"), that the database fills in ("default") or that an INSERT must *)
(* name ("given"), a set of columns that is unique ("unique"), or a reference   *)
(* to another table (its name).  Types and plain indexes are left out, and     *)
(* Alembic runs its revisions in one transaction.                           *)
(***************************************************************************)
EXTENDS Naturals

VARIABLES
  revision,  \* table alembic_version: the last revision applied, 0 if none
  schema     \* the facts of the database

Tables == {"users", "audit_log", "api_keys", "claim_tokens", "nodes", "jobs",
           "node_metrics", "job_logs"}

Columns(t, cs, n) == {<<t, cs, n>>}
UniqueFact(t, cs) == {<<t, cs, "unique">>}
Ref(t, c, target) == {<<t, {c}, target>>}
PrimaryKey(t) == Columns(t, {"id"}, "given") \cup UniqueFact(t, {"id"})

-----------------------------------------------------------------------------
(* The revisions *)

Up1 ==
  PrimaryKey("users")
    \cup Columns("users", {"email", "password_hash"}, "given")
    \cup Columns("users", {"status", "can_host", "can_rent", "created_at",
                           "updated_at"}, "default")
    \cup UniqueFact("users", {"email"})
    \cup PrimaryKey("audit_log")
    \cup Columns("audit_log", {"user_id", "ip_address", "user_agent"}, "null")
    \cup Columns("audit_log", {"event_type"}, "given")
    \cup Columns("audit_log", {"event_data", "created_at"}, "default")
    \cup Ref("audit_log", "user_id", "users")

\* Fault: the columns have no server_default.
Up2Given == Columns("users", {"is_admin"}, "given")
              \cup Columns("users", {"credits_gpu_hours"}, "given")

Up2 == Columns("users", {"is_admin"}, "default")
         \cup Columns("users", {"credits_gpu_hours"}, "default")

Up3 ==
  PrimaryKey("api_keys")
    \cup Columns("api_keys", {"user_id", "name", "prefix", "hash"}, "given")
    \cup Columns("api_keys", {"created_at"}, "default")
    \cup Columns("api_keys", {"revoked_at"}, "null")
    \cup Ref("api_keys", "user_id", "users")
    \cup UniqueFact("api_keys", {"prefix"})

Up4 ==
  PrimaryKey("claim_tokens")
    \cup Columns("claim_tokens", {"user_id", "prefix", "token_hash", "expires_at"},
                 "given")
    \cup Columns("claim_tokens", {"created_at"}, "default")
    \cup Columns("claim_tokens", {"consumed_at"}, "null")
    \cup Ref("claim_tokens", "user_id", "users")
    \cup UniqueFact("claim_tokens", {"prefix"})
    \cup PrimaryKey("nodes")
    \cup Columns("nodes", {"user_id", "name", "gpu_model", "gpu_memory_gb",
                           "gpu_count"}, "given")
    \cup Columns("nodes", {"status", "created_at"}, "default")
    \cup Columns("nodes", {"last_seen_at"}, "null")
    \cup Ref("nodes", "user_id", "users")

Up5 ==
  PrimaryKey("jobs")
    \cup Columns("jobs", {"user_id", "docker_image", "command", "gpu_count",
                          "max_duration_seconds"}, "given")
    \cup Columns("jobs", {"status", "created_at"}, "default")
    \cup Columns("jobs", {"exit_code", "error_message", "assigned_node_id",
                          "started_at", "completed_at"}, "null")
    \cup Ref("jobs", "user_id", "users")
    \cup Ref("jobs", "assigned_node_id", "nodes")

Up6 ==
  Columns("nodes", {"agent_token_hash"}, "null")
    \cup Columns("nodes", {"agent_token_prefix"}, "null")
    \cup UniqueFact("nodes", {"agent_token_prefix"})

Up7 ==
  Columns("node_metrics", {"node_id", "gpu_index", "utilization_pct",
                           "memory_used_bytes", "memory_total_bytes",
                           "temperature_c"}, "given")
    \cup Columns("node_metrics", {"recorded_at"}, "default")
    \cup Ref("node_metrics", "node_id", "nodes")
    \cup UniqueFact("node_metrics", {"node_id", "gpu_index"})

Up8 ==
  PrimaryKey("job_logs")
    \cup Columns("job_logs", {"job_id", "stream", "content", "sequence"}, "given")
    \cup Columns("job_logs", {"received_at"}, "default")
    \cup Ref("job_logs", "job_id", "jobs")
    \cup UniqueFact("job_logs", {"job_id", "sequence"})

\* Fault: the column has another name than in the model.
Up9Renamed == Columns("jobs", {"cancelled_at"}, "null")

Up9 == Columns("jobs", {"cancel_requested_at"}, "null")

Up10 == Columns("jobs", {"preferred_node_id"}, "null")
          \cup Ref("jobs", "preferred_node_id", "nodes")

Upgrades == <<Up1, Up2, Up3, Up4, Up5, Up6, Up7, Up8, Up9, Up10>>

\* A table is dropped with all that is said of it, and so is a column, which a
\* fact of its own or a constraint names.
DropTable(s, t) == {f \in s : f[1] # t}
DropColumn(s, t, c) == {f \in s : f[1] = t => c \notin f[2]}

\* What undoing each revision does to a schema.
Downgrade(r, s) ==
  CASE r = 1  -> DropTable(DropTable(s, "audit_log"), "users")
    [] r = 2  -> DropColumn(DropColumn(s, "users", "credits_gpu_hours"), "users", "is_admin")
    [] r = 3  -> DropTable(s, "api_keys")
    [] r = 4  -> DropTable(DropTable(s, "nodes"), "claim_tokens")
    [] r = 5  -> DropTable(s, "jobs")
    [] r = 6  -> DropColumn(DropColumn(s \ UniqueFact("nodes", {"agent_token_prefix"}),
                                       "nodes", "agent_token_prefix"),
                            "nodes", "agent_token_hash")
    [] r = 7  -> DropTable(s, "node_metrics")
    [] r = 8  -> DropTable(s, "job_logs")
    [] r = 9  -> DropColumn(s, "jobs", "cancel_requested_at")
    [] r = 10 -> DropColumn(s, "jobs", "preferred_node_id")

\* A database some release has left, or a new one.
SchemaAt[r \in 0 .. 10] == IF r = 0 THEN {} ELSE SchemaAt[r - 1] \cup Upgrades[r]
SchemaInit == revision \in 0 .. 10 /\ schema = SchemaAt[revision]

\* alembic upgrade head: all that is missing, in one transaction.
UpgradeHead ==
  /\ revision < 10
  /\ revision' = 10
  /\ schema' = schema \cup UNION {Upgrades[r] : r \in revision + 1 .. 10}

\* alembic downgrade -1.
DowngradeOne ==
  /\ revision > 0
  /\ revision' = revision - 1
  /\ schema' = Downgrade(revision, schema)

SchemaNext == UpgradeHead \/ DowngradeOne

-----------------------------------------------------------------------------
(* What the program takes for granted *)

\* The columns of each model: those an INSERT leaves to the database, those that
\* are NULL until somebody writes them, and those an INSERT names.
Model ==
  [t \in Tables |->
    CASE t = "users" ->
           [left |-> {"created_at", "updated_at"}, null |-> {},
            named |-> {"id", "email", "password_hash", "status", "can_host",
                       "can_rent", "is_admin", "credits_gpu_hours"}]
      [] t = "audit_log" ->
           [left |-> {"created_at"}, null |-> {"user_id", "ip_address", "user_agent"},
            named |-> {"id", "event_type", "event_data"}]
      [] t = "api_keys" ->
           [left |-> {"created_at"}, null |-> {"revoked_at"},
            named |-> {"id", "user_id", "name", "prefix", "hash"}]
      [] t = "claim_tokens" ->
           [left |-> {"created_at"}, null |-> {"consumed_at"},
            named |-> {"id", "user_id", "prefix", "token_hash", "expires_at"}]
      [] t = "nodes" ->
           [left |-> {"created_at"},
            null |-> {"last_seen_at", "agent_token_hash", "agent_token_prefix"},
            named |-> {"id", "user_id", "name", "gpu_model", "gpu_memory_gb",
                       "gpu_count", "status"}]
      [] t = "jobs" ->
           [left |-> {"created_at"},
            null |-> {"exit_code", "error_message", "assigned_node_id",
                      "preferred_node_id", "started_at", "completed_at",
                      "cancel_requested_at"},
            named |-> {"id", "user_id", "docker_image", "command", "gpu_count",
                       "max_duration_seconds", "status"}]
      [] t = "node_metrics" ->
           [left |-> {}, null |-> {},
            named |-> {"node_id", "gpu_index", "utilization_pct", "memory_used_bytes",
                       "memory_total_bytes", "temperature_c", "recorded_at"}]
      [] t = "job_logs" ->
           [left |-> {"received_at"}, null |-> {},
            named |-> {"id", "job_id", "stream", "content", "sequence"}]]

\* What scalar_one_or_none reads one row by, and what ON CONFLICT names.
Lookups ==
  {<<"users", {"email"}>>, <<"api_keys", {"prefix"}>>, <<"claim_tokens", {"prefix"}>>,
   <<"nodes", {"agent_token_prefix"}>>}
Upserts == {<<"node_metrics", {"node_id", "gpu_index"}>>,
            <<"job_logs", {"job_id", "sequence"}>>}

\* The columns of a schema, by what an INSERT owes them.
ColumnsOf(s, t, what) == UNION {f[2] : f \in {g \in s : g[1] = t /\ g[3] = what}}
=============================================================================
