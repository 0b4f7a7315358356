---------------------------- MODULE SchemaProofs ----------------------------
(***************************************************************************)
(* What the migrations make of a database, wherever they start and whatever  *)
(* they undo: the schema the code needs.                                     *)
(***************************************************************************)
EXTENDS Views, TLAPS

\* The first r revisions together.
Made(r) == UNION {Upgrades[i] : i \in 1 .. r}

\* The schema is what its revision says, and nothing remains of an undone one.
SchemaInv == revision \in 0 .. 10 /\ schema = Made(revision)

-----------------------------------------------------------------------------
(* The schema at a revision *)

\* SchemaAt adds the revisions up.
LEMMA SchemaAtMade == \A r \in 0 .. 10 : SchemaAt[r] = Made(r)
<1> DEFINE F == [r \in 0 .. 10 |-> Made(r)]
<1>1. Made(0) = {}
  BY DEF Made
<1>2. \A r \in 1 .. 10 : Made(r) = Made(r - 1) \cup Upgrades[r]
  <2> SUFFICES ASSUME NEW r \in 1 .. 10
               PROVE  Made(r) = Made(r - 1) \cup Upgrades[r]
    OBVIOUS
  <2>1. 1 .. r = (1 .. r - 1) \cup {r}
    OBVIOUS
  <2> QED BY <2>1, Zenon DEF Made
<1>3. F = [r \in 0 .. 10 |-> IF r = 0 THEN {} ELSE F[r - 1] \cup Upgrades[r]]
  <2>1. \A r \in 0 .. 10 :
          Made(r) = IF r = 0 THEN {} ELSE F[r - 1] \cup Upgrades[r]
    <3> HIDE DEF Made
    <3>1. \A r \in 1 .. 10 : r - 1 \in 0 .. 10
      OBVIOUS
    <3> QED BY <1>1, <1>2, <3>1
  <2> QED BY <2>1, Zenon
<1> HIDE DEF F
<1>4. SchemaAt = [r \in 0 .. 10 |-> IF r = 0 THEN {} ELSE SchemaAt[r - 1] \cup Upgrades[r]]
  BY <1>3, Zenon DEF SchemaAt
<1>5. SchemaAt[0] = {} /\ \A r \in 1 .. 10 : SchemaAt[r] = SchemaAt[r - 1] \cup Upgrades[r]
  <2> HIDE DEF SchemaAt, Upgrades
  <2>1. \A r \in 0 .. 10 : SchemaAt[r] = IF r = 0 THEN {} ELSE SchemaAt[r - 1] \cup Upgrades[r]
    BY <1>4, Zenon
  <2> QED BY <2>1
<1> HIDE DEF SchemaAt, Upgrades, Made
<1> DEFINE Same(r) == SchemaAt[r] = Made(r)
<1>6. \A r \in 0 .. 9 : Same(r) => Same(r + 1)
  <2> SUFFICES ASSUME NEW r \in 0 .. 9, Same(r) PROVE Same(r + 1)
    BY Zenon
  <2>1. r + 1 \in 1 .. 10 /\ (r + 1) - 1 = r
    OBVIOUS
  <2>2. SchemaAt[r + 1] = SchemaAt[(r + 1) - 1] \cup Upgrades[r + 1]
    BY <1>5, <2>1, Zenon
  <2>3. Made(r + 1) = Made((r + 1) - 1) \cup Upgrades[r + 1]
    BY <1>2, <2>1, Zenon
  <2> QED BY <2>1, <2>2, <2>3, Zenon
<1>7. Same(0)
  BY <1>1, <1>5
<1> HIDE DEF Same
<1>8. Same(1) /\ Same(2) /\ Same(3) /\ Same(4) /\ Same(5)
  BY <1>6, <1>7
<1>9. Same(6) /\ Same(7) /\ Same(8) /\ Same(9) /\ Same(10)
  BY <1>6, <1>8
<1>10. \A r \in 0 .. 10 : Same(r)
  BY <1>7, <1>8, <1>9
<1> QED BY <1>10 DEF Same

-----------------------------------------------------------------------------
(* What a downgrade undoes *)

\* What undoing revision r takes away.
Goes(r, f) ==
  \/ r = 1 /\ f[1] \in {"users", "audit_log"}
  \/ r = 2 /\ f[1] = "users" /\ ("is_admin" \in f[2] \/ "credits_gpu_hours" \in f[2])
  \/ r = 3 /\ f[1] = "api_keys"
  \/ r = 4 /\ f[1] \in {"claim_tokens", "nodes"}
  \/ r = 5 /\ f[1] = "jobs"
  \/ r = 6 /\ f[1] = "nodes"
       /\ ("agent_token_prefix" \in f[2] \/ "agent_token_hash" \in f[2])
  \/ r = 7 /\ f[1] = "node_metrics"
  \/ r = 8 /\ f[1] = "job_logs"
  \/ r = 9 /\ f[1] = "jobs" /\ "cancel_requested_at" \in f[2]
  \/ r = 10 /\ f[1] = "jobs" /\ "preferred_node_id" \in f[2]

\* A downgrade takes that away and nothing else.
LEMMA DowngradeDrops ==
  ASSUME NEW s, NEW r \in 1 .. 10
  PROVE  Downgrade(r, s) = {f \in s : ~Goes(r, f)}
<1>1. CASE r \in {1, 3, 4, 5, 7, 8}
  BY <1>1 DEF Downgrade, Goes, DropTable
<1>2. CASE r \in {2, 9, 10}
  BY <1>2 DEF Downgrade, Goes, DropColumn
<1>3. CASE r = 6
  BY <1>3 DEF Downgrade, Goes, DropColumn, UniqueFact
<1> QED BY <1>1, <1>2, <1>3

\* The revisions by number.
LEMMA UpgradesAre ==
  /\ Upgrades[1] = Up1 /\ Upgrades[2] = Up2 /\ Upgrades[3] = Up3 /\ Upgrades[4] = Up4
  /\ Upgrades[5] = Up5 /\ Upgrades[6] = Up6 /\ Upgrades[7] = Up7 /\ Upgrades[8] = Up8
  /\ Upgrades[9] = Up9 /\ Upgrades[10] = Up10
BY DEF Upgrades

\* What each revision is about.
LEMMA UpgradesTouch ==
  /\ \A f \in Up1 : f[1] \in {"users", "audit_log"} /\ "is_admin" \notin f[2]
                      /\ "credits_gpu_hours" \notin f[2]
  /\ \A f \in Up2 : f[1] = "users" /\ ("is_admin" \in f[2] \/ "credits_gpu_hours" \in f[2])
  /\ \A f \in Up3 : f[1] = "api_keys"
  /\ \A f \in Up4 : f[1] \in {"claim_tokens", "nodes"} /\ "agent_token_prefix" \notin f[2]
                      /\ "agent_token_hash" \notin f[2]
  /\ \A f \in Up5 : f[1] = "jobs" /\ "cancel_requested_at" \notin f[2]
                      /\ "preferred_node_id" \notin f[2]
  /\ \A f \in Up6 : f[1] = "nodes"
                      /\ ("agent_token_prefix" \in f[2] \/ "agent_token_hash" \in f[2])
  /\ \A f \in Up7 : f[1] = "node_metrics"
  /\ \A f \in Up8 : f[1] = "job_logs"
  /\ \A f \in Up9 : f[1] = "jobs" /\ "cancel_requested_at" \in f[2]
                      /\ "preferred_node_id" \notin f[2]
  /\ \A f \in Up10 : f[1] = "jobs" /\ "preferred_node_id" \in f[2]
<1> USE DEF PrimaryKey, Columns, UniqueFact, Ref
<1>1. \A f \in Up1 : f[1] \in {"users", "audit_log"} /\ "is_admin" \notin f[2]
                       /\ "credits_gpu_hours" \notin f[2]
  BY DEF Up1
<1>2. \A f \in Up2 : f[1] = "users" /\ ("is_admin" \in f[2] \/ "credits_gpu_hours" \in f[2])
  BY DEF Up2
<1>3. \A f \in Up3 : f[1] = "api_keys"
  BY DEF Up3
<1>4. \A f \in Up4 : f[1] \in {"claim_tokens", "nodes"} /\ "agent_token_prefix" \notin f[2]
                       /\ "agent_token_hash" \notin f[2]
  BY DEF Up4
<1>5. \A f \in Up5 : f[1] = "jobs" /\ "cancel_requested_at" \notin f[2]
                       /\ "preferred_node_id" \notin f[2]
  BY DEF Up5
<1>6. /\ \A f \in Up6 : f[1] = "nodes"
                       /\ ("agent_token_prefix" \in f[2] \/ "agent_token_hash" \in f[2])
      /\ \A f \in Up9 : f[1] = "jobs" /\ "cancel_requested_at" \in f[2]
                       /\ "preferred_node_id" \notin f[2]
      /\ \A f \in Up10 : f[1] = "jobs" /\ "preferred_node_id" \in f[2]
  BY DEF Up6, Up9, Up10
<1>7. (\A f \in Up7 : f[1] = "node_metrics") /\ (\A f \in Up8 : f[1] = "job_logs")
  BY DEF Up7, Up8
<1> QED BY <1>1, <1>2, <1>3, <1>4, <1>5, <1>6, <1>7

\* Undoing a revision takes what it added, and nothing an earlier one added.
LEMMA UpgradesGo ==
  /\ \A r \in 1 .. 10 : \A f \in Upgrades[r] : Goes(r, f)
  /\ \A i, r \in 1 .. 10 : i < r => \A f \in Upgrades[i] : ~Goes(r, f)
<1>1. ASSUME NEW r \in 1 .. 10, NEW f \in Upgrades[r]
      PROVE  Goes(r, f)
  BY UpgradesAre, UpgradesTouch DEF Goes
<1>2. ASSUME NEW i \in 1 .. 10, NEW r \in 1 .. 10, i < r, NEW f \in Upgrades[i]
      PROVE  ~Goes(r, f)
  BY <1>2, UpgradesAre, UpgradesTouch DEF Goes
<1> QED BY <1>1, <1>2

-----------------------------------------------------------------------------
(* The schema at the last revision *)

Latest == Up1 \cup Up2 \cup Up3 \cup Up4 \cup Up5 \cup Up6 \cup Up7 \cup Up8 \cup Up9 \cup Up10

\* All ten revisions together.
LEMMA HeadIsMade == Made(10) = Latest
<1>1. \A i \in 1 .. 10 : i \in {1, 2, 3, 4, 5, 6, 7, 8, 9, 10}
  OBVIOUS
<1> QED BY <1>1, UpgradesAre DEF Made, Latest

\* A column is one of a kind if a fact says so.
LEMMA ColumnsAre ==
  ASSUME NEW s, NEW t, NEW what, NEW c
  PROVE  c \in ColumnsOf(s, t, what) <=> \E f \in s : f[1] = t /\ f[3] = what /\ c \in f[2]
BY DEF ColumnsOf

\* What the revisions say of users.
LEMMA HeadUsers ==
  /\ ColumnsOf(Latest, "users", "null") =
       {}
  /\ ColumnsOf(Latest, "users", "default") =
       {"status", "can_host", "can_rent", "created_at", "updated_at", "is_admin",
        "credits_gpu_hours"}
  /\ ColumnsOf(Latest, "users", "given") =
       {"id", "email", "password_hash"}
<1> DEFINE Here == Up1 \cup Up2
<1>1. \A f \in Latest : f[1] = "users" => f \in Here
  BY UpgradesTouch DEF Latest
<1>2. Here \subseteq Latest
  BY DEF Latest
<1> HIDE DEF Here
<1>3. \A c, what : c \in ColumnsOf(Latest, "users", what)
                   <=> \E f \in Here : f[1] = "users" /\ f[3] = what /\ c \in f[2]
  BY <1>1, <1>2, ColumnsAre
<1> USE DEF Here, Up1, Up2, PrimaryKey, Columns, UniqueFact, Ref
<1>4. \A c : c \in ColumnsOf(Latest, "users", "null")
             <=> c \in {}
  BY <1>3
<1>5. \A c : c \in ColumnsOf(Latest, "users", "default")
             <=> c \in {"status", "can_host", "can_rent", "created_at",
                          "updated_at", "is_admin", "credits_gpu_hours"}
  BY <1>3
<1>6. \A c : c \in ColumnsOf(Latest, "users", "given")
             <=> c \in {"id", "email", "password_hash"}
  BY <1>3
<1> QED BY <1>4, <1>5, <1>6, Zenon

\* What the revisions say of audit_log.
LEMMA HeadAuditLog ==
  /\ ColumnsOf(Latest, "audit_log", "null") =
       {"user_id", "ip_address", "user_agent"}
  /\ ColumnsOf(Latest, "audit_log", "default") =
       {"event_data", "created_at"}
  /\ ColumnsOf(Latest, "audit_log", "given") =
       {"id", "event_type"}
<1> DEFINE Here == Up1
<1>1. \A f \in Latest : f[1] = "audit_log" => f \in Here
  BY UpgradesTouch DEF Latest
<1>2. Here \subseteq Latest
  BY DEF Latest
<1> HIDE DEF Here
<1>3. \A c, what : c \in ColumnsOf(Latest, "audit_log", what)
                   <=> \E f \in Here : f[1] = "audit_log" /\ f[3] = what /\ c \in f[2]
  BY <1>1, <1>2, ColumnsAre
<1> USE DEF Here, Up1, PrimaryKey, Columns, UniqueFact, Ref
<1>4. \A c : c \in ColumnsOf(Latest, "audit_log", "null")
             <=> c \in {"user_id", "ip_address", "user_agent"}
  BY <1>3
<1>5. \A c : c \in ColumnsOf(Latest, "audit_log", "default")
             <=> c \in {"event_data", "created_at"}
  BY <1>3
<1>6. \A c : c \in ColumnsOf(Latest, "audit_log", "given")
             <=> c \in {"id", "event_type"}
  BY <1>3
<1> QED BY <1>4, <1>5, <1>6, Zenon

\* What the revisions say of api_keys.
LEMMA HeadApiKeys ==
  /\ ColumnsOf(Latest, "api_keys", "null") =
       {"revoked_at"}
  /\ ColumnsOf(Latest, "api_keys", "default") =
       {"created_at"}
  /\ ColumnsOf(Latest, "api_keys", "given") =
       {"id", "user_id", "name", "prefix", "hash"}
<1> DEFINE Here == Up3
<1>1. \A f \in Latest : f[1] = "api_keys" => f \in Here
  BY UpgradesTouch DEF Latest
<1>2. Here \subseteq Latest
  BY DEF Latest
<1> HIDE DEF Here
<1>3. \A c, what : c \in ColumnsOf(Latest, "api_keys", what)
                   <=> \E f \in Here : f[1] = "api_keys" /\ f[3] = what /\ c \in f[2]
  BY <1>1, <1>2, ColumnsAre
<1> USE DEF Here, Up3, PrimaryKey, Columns, UniqueFact, Ref
<1>4. \A c : c \in ColumnsOf(Latest, "api_keys", "null")
             <=> c \in {"revoked_at"}
  BY <1>3
<1>5. \A c : c \in ColumnsOf(Latest, "api_keys", "default")
             <=> c \in {"created_at"}
  BY <1>3
<1>6. \A c : c \in ColumnsOf(Latest, "api_keys", "given")
             <=> c \in {"id", "user_id", "name", "prefix", "hash"}
  BY <1>3
<1> QED BY <1>4, <1>5, <1>6, Zenon

\* What the revisions say of claim_tokens.
LEMMA HeadClaimTokens ==
  /\ ColumnsOf(Latest, "claim_tokens", "null") =
       {"consumed_at"}
  /\ ColumnsOf(Latest, "claim_tokens", "default") =
       {"created_at"}
  /\ ColumnsOf(Latest, "claim_tokens", "given") =
       {"id", "user_id", "prefix", "token_hash", "expires_at"}
<1> DEFINE Here == Up4
<1>1. \A f \in Latest : f[1] = "claim_tokens" => f \in Here
  BY UpgradesTouch DEF Latest
<1>2. Here \subseteq Latest
  BY DEF Latest
<1> HIDE DEF Here
<1>3. \A c, what : c \in ColumnsOf(Latest, "claim_tokens", what)
                   <=> \E f \in Here : f[1] = "claim_tokens" /\ f[3] = what /\ c \in f[2]
  BY <1>1, <1>2, ColumnsAre
<1> USE DEF Here, Up4, PrimaryKey, Columns, UniqueFact, Ref
<1>4. \A c : c \in ColumnsOf(Latest, "claim_tokens", "null")
             <=> c \in {"consumed_at"}
  BY <1>3
<1>5. \A c : c \in ColumnsOf(Latest, "claim_tokens", "default")
             <=> c \in {"created_at"}
  BY <1>3
<1>6. \A c : c \in ColumnsOf(Latest, "claim_tokens", "given")
             <=> c \in {"id", "user_id", "prefix", "token_hash", "expires_at"}
  BY <1>3
<1> QED BY <1>4, <1>5, <1>6, Zenon

\* What the revisions say of nodes.
LEMMA HeadNodes ==
  /\ ColumnsOf(Latest, "nodes", "null") =
       {"last_seen_at", "agent_token_hash", "agent_token_prefix"}
  /\ ColumnsOf(Latest, "nodes", "default") =
       {"status", "created_at"}
  /\ ColumnsOf(Latest, "nodes", "given") =
       {"id", "user_id", "name", "gpu_model", "gpu_memory_gb", "gpu_count"}
<1> DEFINE Here == Up4 \cup Up6
<1>1. \A f \in Latest : f[1] = "nodes" => f \in Here
  BY UpgradesTouch DEF Latest
<1>2. Here \subseteq Latest
  BY DEF Latest
<1> HIDE DEF Here
<1>3. \A c, what : c \in ColumnsOf(Latest, "nodes", what)
                   <=> \E f \in Here : f[1] = "nodes" /\ f[3] = what /\ c \in f[2]
  BY <1>1, <1>2, ColumnsAre
<1> USE DEF Here, Up4, Up6, PrimaryKey, Columns, UniqueFact, Ref
<1>4. \A c : c \in ColumnsOf(Latest, "nodes", "null")
             <=> c \in {"last_seen_at", "agent_token_hash", "agent_token_prefix"}
  BY <1>3
<1>5. \A c : c \in ColumnsOf(Latest, "nodes", "default")
             <=> c \in {"status", "created_at"}
  BY <1>3
<1>6. \A c : c \in ColumnsOf(Latest, "nodes", "given")
             <=> c \in {"id", "user_id", "name", "gpu_model", "gpu_memory_gb",
                          "gpu_count"}
  BY <1>3
<1> QED BY <1>4, <1>5, <1>6, Zenon

\* What the revisions say of jobs.
LEMMA HeadJobs ==
  /\ ColumnsOf(Latest, "jobs", "null") =
       {"exit_code", "error_message", "assigned_node_id", "started_at",
        "completed_at", "cancel_requested_at", "preferred_node_id"}
  /\ ColumnsOf(Latest, "jobs", "default") =
       {"status", "created_at"}
  /\ ColumnsOf(Latest, "jobs", "given") =
       {"id", "user_id", "docker_image", "command", "gpu_count",
        "max_duration_seconds"}
<1> DEFINE Here == Up5 \cup Up9 \cup Up10
<1>1. \A f \in Latest : f[1] = "jobs" => f \in Here
  BY UpgradesTouch DEF Latest
<1>2. Here \subseteq Latest
  BY DEF Latest
<1> HIDE DEF Here
<1>3. \A c, what : c \in ColumnsOf(Latest, "jobs", what)
                   <=> \E f \in Here : f[1] = "jobs" /\ f[3] = what /\ c \in f[2]
  BY <1>1, <1>2, ColumnsAre
<1> USE DEF Here, Up5, Up9, Up10, PrimaryKey, Columns, UniqueFact, Ref
<1>4. \A c : c \in ColumnsOf(Latest, "jobs", "null")
             <=> c \in {"exit_code", "error_message", "assigned_node_id",
                          "started_at", "completed_at", "cancel_requested_at",
                          "preferred_node_id"}
  BY <1>3
<1>5. \A c : c \in ColumnsOf(Latest, "jobs", "default")
             <=> c \in {"status", "created_at"}
  BY <1>3
<1>6. \A c : c \in ColumnsOf(Latest, "jobs", "given")
             <=> c \in {"id", "user_id", "docker_image", "command", "gpu_count",
                          "max_duration_seconds"}
  BY <1>3
<1> QED BY <1>4, <1>5, <1>6, Zenon

\* What the revisions say of node_metrics.
LEMMA HeadNodeMetrics ==
  /\ ColumnsOf(Latest, "node_metrics", "null") =
       {}
  /\ ColumnsOf(Latest, "node_metrics", "default") =
       {"recorded_at"}
  /\ ColumnsOf(Latest, "node_metrics", "given") =
       {"node_id", "gpu_index", "utilization_pct", "memory_used_bytes",
        "memory_total_bytes", "temperature_c"}
<1> DEFINE Here == Up7
<1>1. \A f \in Latest : f[1] = "node_metrics" => f \in Here
  BY UpgradesTouch DEF Latest
<1>2. Here \subseteq Latest
  BY DEF Latest
<1> HIDE DEF Here
<1>3. \A c, what : c \in ColumnsOf(Latest, "node_metrics", what)
                   <=> \E f \in Here : f[1] = "node_metrics" /\ f[3] = what /\ c \in f[2]
  BY <1>1, <1>2, ColumnsAre
<1> USE DEF Here, Up7, PrimaryKey, Columns, UniqueFact, Ref
<1>4. \A c : c \in ColumnsOf(Latest, "node_metrics", "null")
             <=> c \in {}
  BY <1>3
<1>5. \A c : c \in ColumnsOf(Latest, "node_metrics", "default")
             <=> c \in {"recorded_at"}
  BY <1>3
<1>6. \A c : c \in ColumnsOf(Latest, "node_metrics", "given")
             <=> c \in {"node_id", "gpu_index", "utilization_pct",
                          "memory_used_bytes", "memory_total_bytes", "temperature_c"}
  BY <1>3
<1> QED BY <1>4, <1>5, <1>6, Zenon

\* What the revisions say of job_logs.
LEMMA HeadJobLogs ==
  /\ ColumnsOf(Latest, "job_logs", "null") =
       {}
  /\ ColumnsOf(Latest, "job_logs", "default") =
       {"received_at"}
  /\ ColumnsOf(Latest, "job_logs", "given") =
       {"id", "job_id", "stream", "content", "sequence"}
<1> DEFINE Here == Up8
<1>1. \A f \in Latest : f[1] = "job_logs" => f \in Here
  BY UpgradesTouch DEF Latest
<1>2. Here \subseteq Latest
  BY DEF Latest
<1> HIDE DEF Here
<1>3. \A c, what : c \in ColumnsOf(Latest, "job_logs", what)
                   <=> \E f \in Here : f[1] = "job_logs" /\ f[3] = what /\ c \in f[2]
  BY <1>1, <1>2, ColumnsAre
<1> USE DEF Here, Up8, PrimaryKey, Columns, UniqueFact, Ref
<1>4. \A c : c \in ColumnsOf(Latest, "job_logs", "null")
             <=> c \in {}
  BY <1>3
<1>5. \A c : c \in ColumnsOf(Latest, "job_logs", "default")
             <=> c \in {"received_at"}
  BY <1>3
<1>6. \A c : c \in ColumnsOf(Latest, "job_logs", "given")
             <=> c \in {"id", "job_id", "stream", "content", "sequence"}
  BY <1>3
<1> QED BY <1>4, <1>5, <1>6, Zenon

\* What is looked up by is unique at the last revision.
LEMMA HeadUnique == \A l \in Lookups \cup Upserts : <<l[1], l[2], "unique">> \in Latest
<1> USE DEF Latest, PrimaryKey, Columns, UniqueFact, Ref
<1>1. \A l \in Lookups : <<l[1], l[2], "unique">> \in Latest
  BY DEF Lookups, Up1, Up3, Up4, Up6
<1>2. \A l \in Upserts : <<l[1], l[2], "unique">> \in Latest
  BY DEF Upserts, Up7, Up8
<1> QED BY <1>1, <1>2

\* Each model has the columns of its table, and an INSERT names those it must.
LEMMA HeadHasTheModels ==
  ASSUME NEW t \in Tables
  PROVE  /\ ColumnsOf(Latest, t, "null") = Model[t].null
         /\ Model[t].left \subseteq ColumnsOf(Latest, t, "default")
         /\ ColumnsOf(Latest, t, "given") \subseteq Model[t].named
         /\ Model[t].left \cup Model[t].named
              = ColumnsOf(Latest, t, "default") \cup ColumnsOf(Latest, t, "given")
<1> USE DEF Model, Tables
<1>1. CASE t = "users"         BY <1>1, HeadUsers
<1>2. CASE t = "audit_log"     BY <1>2, HeadAuditLog
<1>3. CASE t = "api_keys"      BY <1>3, HeadApiKeys
<1>4. CASE t = "claim_tokens"  BY <1>4, HeadClaimTokens
<1>5. CASE t = "nodes"         BY <1>5, HeadNodes
<1>6. CASE t = "jobs"          BY <1>6, HeadJobs
<1>7. CASE t = "node_metrics"  BY <1>7, HeadNodeMetrics
<1>8. CASE t = "job_logs"      BY <1>8, HeadJobLogs
<1> HIDE DEF Model
<1> QED BY <1>1, <1>2, <1>3, <1>4, <1>5, <1>6, <1>7, <1>8

-----------------------------------------------------------------------------
(* Up and down *)

\* Undoing the last revision leaves the schema of the one before.
LEMMA Undone ==
  ASSUME NEW r \in 1 .. 10
  PROVE  Downgrade(r, Made(r)) = Made(r - 1)
<1>1. Downgrade(r, Made(r)) = {f \in Made(r) : ~Goes(r, f)}
  BY DowngradeDrops
<1>2. \A f : f \in Made(r) <=> \E i \in 1 .. r : f \in Upgrades[i]
  BY DEF Made
<1>3. \A f : f \in Made(r - 1) <=> \E i \in 1 .. r - 1 : f \in Upgrades[i]
  BY DEF Made
<1>4. \A i \in 1 .. r : i = r \/ (i \in 1 .. r - 1 /\ i \in 1 .. 10 /\ i < r)
  OBVIOUS
<1>5. \A i \in 1 .. r - 1 : i \in 1 .. r /\ i \in 1 .. 10 /\ i < r
  OBVIOUS
<1> HIDE DEF Upgrades
<1>6. \A f : f \in Made(r) /\ ~Goes(r, f) <=> f \in Made(r - 1)
  BY <1>2, <1>3, <1>4, <1>5, UpgradesGo
<1> QED BY <1>1, <1>6

\* An upgrade ends at the last revision, wherever it starts.
LEMMA UpgradeEnds ==
  ASSUME NEW r \in 0 .. 10
  PROVE  Made(r) \cup UNION {Upgrades[i] : i \in r + 1 .. 10} = Made(10)
<1>1. (1 .. r) \cup (r + 1 .. 10) = 1 .. 10
  OBVIOUS
<1> QED BY <1>1, Zenon DEF Made

\* A database is at a revision to begin with, and every migration leaves it at one.
LEMMA SchemaStep ==
  /\ ViewsInit => SchemaInv
  /\ SchemaInv /\ [ViewsNext]_<<view, deploymentVars, nodeVars, pageVars, tableVars>>
       => SchemaInv'
<1>1. ViewsInit => SchemaInv
  <2>1. ViewsInit => revision \in 0 .. 10 /\ schema = SchemaAt[revision]
    BY DEF ViewsInit, DeploymentInit, SchemaInit
  <2> QED BY <2>1, SchemaAtMade DEF SchemaInv
<1>2. ASSUME SchemaInv, SchemaNext
      PROVE  SchemaInv'
  <2>1. CASE UpgradeHead
    BY <1>2, <2>1, UpgradeEnds DEF SchemaInv, UpgradeHead
  <2>2. CASE DowngradeOne
    <3>1. revision \in 1 .. 10 /\ revision - 1 \in 0 .. 10
      BY <1>2, <2>2 DEF SchemaInv, DowngradeOne
    <3> QED BY <1>2, <2>2, <3>1, Undone DEF SchemaInv, DowngradeOne
  <2> QED BY <1>2, <2>1, <2>2 DEF SchemaNext
<1>3. ASSUME SchemaInv, [ViewsNext]_<<view, deploymentVars, nodeVars, pageVars, tableVars>>
      PROVE  SchemaNext \/ UNCHANGED <<revision, schema>>
  BY <1>3 DEF ViewsNext, DeploymentNext, Migrate, Serve, deploymentVars
<1>4. ASSUME SchemaInv, UNCHANGED <<revision, schema>>
      PROVE  SchemaInv'
  BY <1>4 DEF SchemaInv
<1> QED BY <1>1, <1>2, <1>3, <1>4

\* What each revision asks of a database.
LEMMA UpgradesNeed ==
  /\ \A f \in Up2 \cup Up6 \cup Up9 \cup Up10 : f[3] # "given"
  /\ \A f \in Up1 \cup Up3 \cup Up4 : f[3] \in Tables => f[3] = "users"
  /\ \A f \in Up2 \cup Up6 \cup Up9 : f[3] \notin Tables
  /\ \A f \in Up5 \cup Up7 \cup Up10 : f[3] \in Tables => f[3] \in {"users", "nodes"}
  /\ \A f \in Up8 : f[3] \in Tables => f[3] = "jobs"
  /\ \E g \in Up1 : g[1] = "users"
  /\ \E g \in Up4 : g[1] = "nodes"
  /\ \E g \in Up5 : g[1] = "jobs"
<1> USE DEF PrimaryKey, Columns, UniqueFact, Ref, Tables
<1>1. \A f \in Up2 \cup Up6 \cup Up9 \cup Up10 : f[3] # "given"
  BY DEF Up2, Up6, Up9, Up10
<1>2. \A f \in Up1 \cup Up3 \cup Up4 : f[3] \in Tables => f[3] = "users"
  BY DEF Up1, Up3, Up4
<1>3. \A f \in Up2 \cup Up6 \cup Up9 : f[3] \notin Tables
  BY DEF Up2, Up6, Up9
<1>4. \A f \in Up5 \cup Up7 \cup Up10 : f[3] \in Tables => f[3] \in {"users", "nodes"}
  BY DEF Up5, Up7, Up10
<1>5. \A f \in Up8 : f[3] \in Tables => f[3] = "jobs"
  BY DEF Up8
<1>6. (\E g \in Up1 : g[1] = "users") /\ (\E g \in Up4 : g[1] = "nodes")
        /\ (\E g \in Up5 : g[1] = "jobs")
  <2>1. /\ <<"users", {"id"}, "given">> \in Up1
        /\ <<"nodes", {"id"}, "given">> \in Up4
        /\ <<"jobs", {"id"}, "given">> \in Up5
    BY DEF Up1, Up4, Up5
  <2> QED BY <2>1
<1> QED BY <1>1, <1>2, <1>3, <1>4, <1>5, <1>6

\* A revision adds a column that an INSERT must name to a new table only, and refers
\* to tables that are there.
LEMMA RevisionsApply ==
  ASSUME NEW r \in 0 .. 9, NEW f \in Upgrades[r + 1]
  PROVE  /\ f[3] = "given" => \A g \in Made(r) : g[1] # f[1]
         /\ f[3] \in Tables => \E g \in Made(r) \cup Upgrades[r + 1] : g[1] = f[3]
<1>1. \A g : g \in Made(r) <=> \E i \in 1 .. r : g \in Upgrades[i]
  BY DEF Made
<1>2. r + 1 \in {1, 2, 3, 4, 5, 6, 7, 8, 9, 10}
  OBVIOUS
<1>3. ASSUME f[3] = "given", NEW i \in 1 .. r, NEW g \in Upgrades[i]
      PROVE  g[1] # f[1]
  <2>1. i \in {1, 2, 3, 4, 5, 6, 7, 8, 9} /\ i < r + 1
    OBVIOUS
  <2> QED BY <1>2, <1>3, <2>1, UpgradesAre, UpgradesTouch, UpgradesNeed
<1>4. ASSUME f[3] \in Tables
      PROVE  \E i \in 1 .. r + 1 : \E g \in Upgrades[i] : g[1] = f[3]
  BY <1>2, <1>4, UpgradesAre, UpgradesNeed
<1>5. \A i \in 1 .. r + 1 : i \in 1 .. r \/ i = r + 1
  OBVIOUS
<1> HIDE DEF Upgrades
<1> QED BY <1>1, <1>3, <1>4, <1>5

-----------------------------------------------------------------------------
(* The theorems *)

\* However often the database went up and down, the last revision serves the code.
THEOREM MigratedServesTheCode == ViewsSpec => []HeadServesTheCode
<1>1. SchemaInv => HeadServesTheCode
  BY HeadIsMade, HeadUnique, HeadHasTheModels DEF SchemaInv, HeadServesTheCode
<1> QED BY <1>1, SchemaStep, PTL DEF ViewsSpec

\* Each revision applies to a database that has rows.
THEOREM MigrationsApply == ViewsSpec => []RowsSurvive
<1>1. SchemaInv => RowsSurvive
  <2> SUFFICES ASSUME SchemaInv, revision < 10, NEW f \in Upgrades[revision + 1]
               PROVE  /\ f[3] = "given" => \A g \in schema : g[1] # f[1]
                      /\ f[3] \in Tables =>
                           \E g \in schema \cup Upgrades[revision + 1] : g[1] = f[3]
    BY DEF RowsSurvive
  <2>1. revision \in 0 .. 9
    BY DEF SchemaInv
  <2> QED BY <2>1, RevisionsApply DEF SchemaInv
<1> QED BY <1>1, SchemaStep, PTL DEF ViewsSpec
=============================================================================
