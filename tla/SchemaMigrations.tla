--------------------------- MODULE SchemaMigrations ---------------------------
(***************************************************************************)
(* libs/data-plane/migrations: the upgrade and downgrade functions of the  *)
(* eleven steps, as the statements they execute.  engine.apply_all calls   *)
(* none of them, so a caller runs them one by one, in any order, each in a *)
(* transaction (PostgreSQL rolls the whole step back when it raises).      *)
(*                                                                         *)
(* Of the database the model keeps what one statement needs of another:    *)
(* tables with the columns that are referred to or added later, foreign    *)
(* keys, enum types and policies.  Indexes, which are named after their    *)
(* tables, functions (CREATE OR REPLACE) and rows are left out.            *)
(***************************************************************************)
EXTENDS Integers, Sequences, SequencesExt, FiniteSets

VARIABLES
  schema,     \* the database
  applied     \* steps whose upgrade has been committed and whose downgrade has not

schemaVars == <<schema, applied>>

\* registry.STEPS
Steps == 1 .. 11

-----------------------------------------------------------------------------
(* Statements.  t: table, c: its columns of interest, r: the <<table, column>>
   its foreign keys refer to, e: the enum types of its columns. *)
Table(t, c, r, e) == [op |-> "table", t |-> t, c |-> c, r |-> r, e |-> e]
Plain(t) == Table(t, {}, {}, {})
AddColumn(t, c) == [op |-> "column", t |-> t, c |-> c]
Policy(p, t) == [op |-> "policy", t |-> t, c |-> p]
Partition(t) == [op |-> "partition", t |-> t]
Like(t) == [op |-> "like", t |-> t]
Raise == [op |-> "raise", t |-> "none"]
Drop(t) == [op |-> "drop", t |-> t]
DropCascade(t) == [op |-> "cascade", t |-> t]
DropPolicy(p, t) == [op |-> "unpolicy", t |-> t, c |-> p]
DropType(e) == [op |-> "untype", t |-> e]

Failed == [failed |-> TRUE]
IsFailed(db) == "failed" \in DOMAIN db
Names(db) == DOMAIN db.tables

Possible(s, db) ==
  CASE s.op = "table" -> /\ s.t \notin Names(db) /\ s.e \cap db.types = {}
                         /\ \A r \in s.r : r[1] \in Names(db) /\ r[2] \in db.tables[r[1]]
    [] s.op = "column" -> s.t \in Names(db) /\ s.c \notin db.tables[s.t]
    [] s.op = "policy" -> s.t \in Names(db) /\ <<s.c, s.t>> \notin db.policies
    [] s.op = "partition" -> FALSE      \* create_table made no partitioned table
    [] s.op = "like" -> s.t \in Names(db)
    [] s.op = "raise" -> FALSE
    [] s.op = "drop" -> /\ s.t \in Names(db)
                        /\ ~\E f \in db.refs : f[2] = s.t /\ f[1] # s.t
    [] OTHER -> TRUE                    \* DROP ... IF EXISTS

WithoutTable(db, t) ==
  [db EXCEPT !.tables = [x \in Names(db) \ {t} |-> db.tables[x]],
             !.refs = {f \in @ : t \notin {f[1], f[2]}},
             !.policies = {p \in @ : p[2] # t}]

Effect(s, db) ==
  CASE s.op = "table" ->
         [db EXCEPT !.tables = [x \in Names(db) \cup {s.t} |->
                                  IF x = s.t THEN s.c ELSE db.tables[x]],
                    !.refs = @ \cup {<<s.t, r[1]>> : r \in s.r},
                    !.types = @ \cup s.e]
    [] s.op = "column" -> [db EXCEPT !.tables[s.t] = @ \cup {s.c}]
    [] s.op = "policy" -> [db EXCEPT !.policies = @ \cup {<<s.c, s.t>>}]
    [] s.op \in {"drop", "cascade"} -> WithoutTable(db, s.t)
    [] s.op = "unpolicy" -> [db EXCEPT !.policies = @ \ {<<s.c, s.t>>}]
    [] s.op = "untype" -> [db EXCEPT !.types = @ \ {s.t}]
    [] OTHER -> db

\* What a sequence of statements makes of a database.
Run(stmts, db) ==
  FoldLeft(LAMBDA d, s : IF IsFailed(d) \/ ~Possible(s, d) THEN Failed ELSE Effect(s, d),
           db, stmts)

-----------------------------------------------------------------------------
\* The six tables with the policy tenant_isolation in 001 and in 005.
TenantTables ==
  <<"tenants", "users", "api_keys", "usage_counters", "agent_runs", "audit_logs">>
Each(op(_), ts) == [i \in DOMAIN ts |-> op(ts[i])]

\* 001: the types of its enum columns are created with the tables...
Tables001 ==
  LET tenant == {<<"tenants", "tenant_id">>}
  IN  << Table("tenants", {"tenant_id"}, {}, {"tenant_status"}), Plain("plans"),
         Table("users", {"tenant_id", "role"}, tenant, {"user_role", "user_status"}),
         Table("api_keys", {}, tenant, {}), Table("usage_counters", {}, tenant, {}),
         Table("agent_runs", {}, tenant, {"run_status"}),
         Table("audit_logs", {"tenant_id"}, tenant, {}) >>
Policies001 == Each(LAMBDA t : Policy("tenant_isolation", t), TenantTables)
\* ... and stay when the tables are dropped.
Downgrade001 ==
  Each(LAMBDA t : DropPolicy("tenant_isolation", t), Reverse(TenantTables))
  \o Each(Drop, <<"audit_logs", "agent_runs", "usage_counters", "api_keys", "users",
                  "plans", "tenants">>)

Tables002 ==
  LET customer == {<<"customers", "id">>}
  IN  << Table("users", {"id", "role"}, {}, {"userrole"}),
         Table("customers", {"id"}, {}, {}), Table("products", {"id"}, {}, {}),
         Table("orders", {"id"}, customer, {"orderstatus"}),
         Table("order_items", {}, {<<"orders", "id">>, <<"products", "id">>}, {}),
         Table("service_packages", {"id"}, {}, {}),
         Table("user_subscriptions", {}, {<<"service_packages", "id">>, <<"users", "id">>}, {}) >>
MoreTables002 ==
  LET customer == {<<"customers", "id">>}
  IN  << Table("messages", {}, customer, {}), Plain("faq_entries"),
         Table("leads", {}, customer, {}), Table("audit_logs", {}, {<<"users", "id">>}, {}),
         Policy("tenant_isolation_users", "users"),
         Policy("tenant_isolation_customers", "customers") >>
Downgrade002 ==
  Each(Drop, <<"audit_logs", "leads", "faq_entries", "messages", "user_subscriptions",
               "service_packages", "order_items", "orders", "products", "customers", "users">>)
  \o <<DropType("userrole"), DropType("orderstatus")>>

\* 003 adds a column role to users, which both 001 and 002 have created with one.
Upgrade003 ==
  << Table("tenants", {"id"}, {}, {}), AddColumn("users", "tenant_id"),
     AddColumn("users", "role") >>
\* 004 names sa.Timestamp, which SQLAlchemy does not have, in its first table.
Upgrade004 == <<Raise>>
\* 005 makes partitions of tables that it has created without PARTITION BY.
Upgrade005 ==
  LET tenant == {<<"tenants", "id">>}
  IN  << Table("tenants", {"id"}, {}, {}), Table("users", {}, tenant, {}),
         Table("api_keys", {}, tenant, {}), Plain("plans"),
         Table("usage_counters", {}, tenant, {}), Table("agent_runs", {}, tenant, {}),
         Table("audit_logs", {}, tenant, {}) >>
      \o Each(LAMBDA t : Policy("tenant_isolation", t), TenantTables)
      \o <<Partition("usage_counters")>>
\* 006 copies analytics_events, which no step creates.
Upgrade006 == <<Plain("regional_providers"), Like("analytics_events")>>

Tables007 == <<"tenant_budgets", "billing_events", "request_metrics",
               "drift_analysis_summaries", "budget_alerts", "cost_optimization_events">>
Downgrade007 == Each(Drop, Reverse(Tables007))
Tables008 == <<"sensitivity_tags", "encryption_keys", "encrypted_fields", "privacy_policies",
               "pii_detections", "privacy_violations", "data_access_logs",
               "key_rotation_logs">>
Downgrade008 == Each(Drop, Reverse(Tables008))
Upgrade009 ==
  LET tenant == {<<"tenants", "tenant_id">>}
  IN  << Plain("plan_configurations"),
         Table("webhook_endpoints", {"endpoint_id"}, tenant, {}),
         Table("webhook_deliveries", {}, {<<"webhook_endpoints", "endpoint_id">>}, {}),
         Table("tenant_onboarding_tracking", {}, tenant, {}),
         Table("plan_upgrade_history", {}, tenant, {}), Plain("admin_users") >>
\* Seeded fault: golden_tasks is forgotten.
Downgrade010_Keeps ==
  Each(DropCascade, <<"evaluation_results", "replay_executions", "replay_requests",
                      "episode_states", "episodes", "task_executions">>)
Downgrade009 ==
  Each(Drop, <<"admin_users", "plan_upgrade_history", "tenant_onboarding_tracking",
               "webhook_deliveries", "webhook_endpoints", "plan_configurations">>)
Upgrade010 ==
  LET task == <<"golden_tasks", "task_id">>
      episode == <<"episodes", "episode_id">>
  IN  << Table("golden_tasks", {"task_id"}, {}, {}),
         Table("task_executions", {"execution_id"}, {task}, {}),
         Table("episodes", {"episode_id"}, {}, {}), Table("episode_states", {}, {episode}, {}),
         Table("replay_requests", {"replay_id"}, {episode}, {}),
         Table("replay_executions", {}, {<<"replay_requests", "replay_id">>, episode}, {}),
         Table("evaluation_results", {}, {<<"task_executions", "execution_id">>, task}, {}) >>
Downgrade010 ==
  Each(DropCascade, <<"evaluation_results", "replay_executions", "replay_requests",
                      "episode_states", "episodes", "task_executions", "golden_tasks">>)
Upgrade011 ==
  LET baseline == {<<"performance_baselines", "baseline_id">>}
      ceiling == {<<"cost_ceilings", "ceiling_id">>}
  IN  << Table("performance_baselines", {"baseline_id"}, {}, {}),
         Table("performance_metrics", {}, baseline, {}),
         Table("baseline_calculations", {}, baseline, {}),
         Table("performance_alerts", {}, baseline, {}),
         Table("cost_ceilings", {"ceiling_id"}, {}, {}),
         Table("cost_records", {}, ceiling, {}), Table("cost_alerts", {}, ceiling, {}),
         Table("cost_optimization_recommendations", {}, ceiling, {}) >>
Downgrade011 ==
  Each(DropCascade, <<"cost_optimization_recommendations", "cost_alerts", "cost_records",
                      "cost_ceilings", "performance_alerts", "baseline_calculations",
                      "performance_metrics", "performance_baselines">>)

UpgradeOf ==
  << Tables001 \o Policies001, Tables002 \o MoreTables002, Upgrade003, Upgrade004, Upgrade005,
     Upgrade006, Each(Plain, Tables007), Each(Plain, Tables008), Upgrade009, Upgrade010,
     Upgrade011 >>
\* Steps 3 to 6 cannot be applied, so their downgrades are never due.
DowngradeOf ==
  << Downgrade001, Downgrade002, <<>>, <<>>, <<>>, <<>>, Downgrade007, Downgrade008,
     Downgrade009, Downgrade010, Downgrade011 >>

-----------------------------------------------------------------------------
SchemaInit ==
  /\ schema = [tables |-> <<>>, refs |-> {}, types |-> {}, policies |-> {}]
  /\ applied = {}

(* upgrade of a step, committed *)
Upgrade(n) ==
  /\ n \notin applied
  /\ ~IsFailed(Run(UpgradeOf[n], schema))
  /\ schema' = Run(UpgradeOf[n], schema)
  /\ applied' = applied \cup {n}

(* downgrade of a step that is applied, committed *)
Downgrade(n) ==
  /\ n \in applied
  /\ ~IsFailed(Run(DowngradeOf[n], schema))
  /\ schema' = Run(DowngradeOf[n], schema)
  /\ applied' = applied \ {n}

SchemaNext == \E n \in Steps : Upgrade(n) \/ Downgrade(n)
SchemaSpec == SchemaInit /\ [][SchemaNext]_schemaVars

-----------------------------------------------------------------------------
Created(n) == {s \in ToSet(UpgradeOf[n]) : s.op = "table"}

(* Whatever the order in which steps are applied and taken back, the database holds
   exactly the tables, foreign keys and policies of the applied steps: no downgrade
   leaves a table behind, takes one of another step along or cuts a foreign key. *)
SchemaMatchesSteps ==
  /\ Names(schema) = {s.t : s \in UNION {Created(n) : n \in applied}}
  /\ schema.refs = UNION {{<<s.t, r[1]>> : r \in s.r} : s \in UNION {Created(n) : n \in applied}}
  /\ \A f \in schema.refs : f[2] \in Names(schema)
  /\ schema.policies = UNION {{<<s.c, s.t>> : s \in {x \in ToSet(UpgradeOf[n]) : x.op = "policy"}}
                                : n \in applied}
=============================================================================
