------------------------------- MODULE Schema -------------------------------
(***************************************************************************)
(* The tables, twice: as the classes of db/models.py declare them, and as  *)
(* the migration 0001_initial creates them, in its order.  Of a table we   *)
(* keep the tables it refers to, by columns that must be set or may be     *)
(* null, and its unique constraints.  A column that refers to a table goes *)
(* by the name of that table: no table refers to another twice.            *)
(***************************************************************************)
EXTENDS Sequences, TLC

Table(required, optional, keys) == [required |-> required, optional |-> optional, keys |-> keys]

-----------------------------------------------------------------------------
(* db/models.py. *)
TenancyClasses ==
    "orgs" :> Table({}, {}, {{"slug"}}) @@
    "users" :> Table({}, {}, {{"email"}}) @@
    "roles" :> Table({}, {}, {{"name"}}) @@
    "permissions" :> Table({}, {}, {{"name"}}) @@
    "role_permissions" :> Table({"permissions", "roles"}, {}, {{"roles", "permissions"}}) @@
    "memberships" :> Table({"orgs", "roles", "users"}, {}, {{"orgs", "users"}}) @@
    "audit_events" :> Table({}, {"orgs", "users"}, {})

DatasetClasses ==
    "projects" :> Table({"orgs"}, {}, {}) @@
    "project_settings" :> Table({"projects"}, {}, {{"projects"}}) @@
    "datasets" :> Table({"orgs"}, {"projects"}, {}) @@
    "dataset_versions" :> Table({"datasets"}, {}, {{"datasets", "version"}}) @@
    "dataset_assets" :> Table({"dataset_versions"}, {}, {})

RunClasses ==
    "runs" :> Table({"orgs"}, {"dataset_versions", "domain_pack_versions", "projects"}, {}) @@
    "run_stages" :> Table({"runs"}, {}, {}) @@
    "scenarios" :> Table({"runs"}, {}, {{"scenario_hash"}}) @@
    "scenario_instances" :> Table({"runs", "scenarios"}, {}, {{"scenarios", "instance_index"}}) @@
    "simulation_jobs" :> Table({"scenario_instances"}, {}, {})

ResultClasses ==
    "metric_results" :> Table({"scenario_instances"}, {}, {}) @@
    "uncertainty_results" :> Table({"scenario_instances"}, {}, {}) @@
    "artifacts" :> Table({"runs"}, {"scenario_instances"}, {}) @@
    "optimizer_steps" :> Table({"runs"}, {}, {{"runs", "step_index"}})

DocumentClasses ==
    "documents" :> Table({"orgs"}, {}, {}) @@
    "doc_chunks" :> Table({"documents"}, {}, {{"documents", "chunk_index"}}) @@
    "embeddings_meta" :> Table({"doc_chunks", "documents"}, {}, {}) @@
    "evidence_packs" :> Table({"orgs"}, {}, {}) @@
    "evidence_pack_items" :> Table({"evidence_packs"}, {"doc_chunks", "documents"}, {})

RubricClasses ==
    "benchmark_sources" :> Table({}, {"domain_packs", "orgs"}, {}) @@
    "benchmarks" :> Table({}, {"benchmark_sources", "domain_packs"}, {}) @@
    "rubrics" :> Table({}, {"domain_packs", "orgs"}, {}) @@
    "rubric_versions" :> Table({"rubrics"}, {"users"}, {{"rubrics", "version"}}) @@
    "rubric_weights" :> Table({"rubric_versions"}, {}, {}) @@
    "judge_scores" :> Table({}, {"rubric_versions", "runs", "scenario_instances"}, {}) @@
    "judge_breakdowns" :> Table({"judge_scores"}, {}, {})

PackClasses ==
    "domain_packs" :> Table({}, {}, {{"name"}}) @@
    "domain_pack_versions" :> Table({"domain_packs"}, {}, {{"domain_packs", "version"}}) @@
    "pack_certifications" :> Table({"domain_pack_versions"}, {"users"}, {})

ModelClasses ==
    "models" :> Table({}, {}, {}) @@
    "model_versions" :> Table({"models"}, {}, {{"models", "version"}}) @@
    "router_policies" :> Table({}, {}, {}) @@
    "prompt_versions" :> Table({}, {}, {{"name", "version"}})

OrmTables ==
    TenancyClasses @@ DatasetClasses @@ RunClasses @@ ResultClasses @@
    DocumentClasses @@ RubricClasses @@ PackClasses @@ ModelClasses

-----------------------------------------------------------------------------
(* upgrade(). *)
TenancyTables == <<
    <<"orgs", Table({}, {}, {{"slug"}})>>,
    <<"users", Table({}, {}, {{"email"}})>>,
    <<"roles", Table({}, {}, {{"name"}})>>,
    <<"permissions", Table({}, {}, {{"name"}})>>,
    <<"role_permissions", Table({"permissions", "roles"}, {}, {{"roles", "permissions"}})>>,
    <<"memberships", Table({"orgs", "roles", "users"}, {}, {{"orgs", "users"}})>>,
    <<"audit_events", Table({}, {"orgs", "users"}, {})>> >>

DatasetTables == <<
    <<"projects", Table({"orgs"}, {}, {})>>,
    <<"project_settings", Table({"projects"}, {}, {{"projects"}})>>,
    <<"datasets", Table({"orgs"}, {"projects"}, {})>>,
    <<"dataset_versions", Table({"datasets"}, {}, {{"datasets", "version"}})>>,
    <<"dataset_assets", Table({"dataset_versions"}, {}, {})>> >>

PackTables == <<
    <<"domain_packs", Table({}, {}, {{"name"}})>>,
    <<"domain_pack_versions", Table({"domain_packs"}, {}, {{"domain_packs", "version"}})>>,
    <<"pack_certifications", Table({"domain_pack_versions"}, {"users"}, {})>> >>

RunTables == <<
    <<"runs", Table({"orgs"}, {"dataset_versions", "domain_pack_versions", "projects"}, {})>>,
    <<"run_stages", Table({"runs"}, {}, {})>>,
    <<"scenarios", Table({"runs"}, {}, {{"scenario_hash"}})>>,
    <<"scenario_instances", Table({"runs", "scenarios"}, {}, {{"scenarios", "instance_index"}})>>,
    <<"simulation_jobs", Table({"scenario_instances"}, {}, {})>> >>

ResultTables == <<
    <<"metric_results", Table({"scenario_instances"}, {}, {})>>,
    <<"uncertainty_results", Table({"scenario_instances"}, {}, {})>>,
    <<"artifacts", Table({"runs"}, {"scenario_instances"}, {})>>,
    <<"optimizer_steps", Table({"runs"}, {}, {{"runs", "step_index"}})>> >>

DocumentTables == <<
    <<"documents", Table({"orgs"}, {}, {})>>,
    <<"doc_chunks", Table({"documents"}, {}, {{"documents", "chunk_index"}})>>,
    <<"embeddings_meta", Table({"doc_chunks", "documents"}, {}, {})>>,
    <<"evidence_packs", Table({"orgs"}, {}, {})>>,
    <<"evidence_pack_items", Table({"evidence_packs"}, {"doc_chunks", "documents"}, {})>> >>

RubricTables == <<
    <<"benchmark_sources", Table({}, {"domain_packs", "orgs"}, {})>>,
    <<"benchmarks", Table({}, {"benchmark_sources", "domain_packs"}, {})>>,
    <<"rubrics", Table({}, {"domain_packs", "orgs"}, {})>>,
    <<"rubric_versions", Table({"rubrics"}, {"users"}, {{"rubrics", "version"}})>>,
    <<"rubric_weights", Table({"rubric_versions"}, {}, {})>> >>

JudgeTables == <<
    <<"judge_scores", Table({}, {"rubric_versions", "runs", "scenario_instances"}, {})>>,
    <<"judge_breakdowns", Table({"judge_scores"}, {}, {})>> >>

ModelTables == <<
    <<"models", Table({}, {}, {})>>,
    <<"model_versions", Table({"models"}, {}, {{"models", "version"}})>>,
    <<"router_policies", Table({}, {}, {})>>,
    <<"prompt_versions", Table({}, {}, {{"name", "version"}})>> >>

(* Variant: the table of runs comes before those of packs. *)
UpgradeRunsFirst ==
    TenancyTables \o DatasetTables \o RunTables \o PackTables \o ResultTables \o
    DocumentTables \o RubricTables \o JudgeTables \o ModelTables

UpgradeSteps ==
    TenancyTables \o DatasetTables \o PackTables \o RunTables \o ResultTables \o
    DocumentTables \o RubricTables \o JudgeTables \o ModelTables

(* downgrade(). *)
DowngradeSteps == <<
    "prompt_versions", "router_policies", "model_versions", "models",
    "judge_breakdowns", "judge_scores", "rubric_weights", "rubric_versions",
    "rubrics", "benchmarks", "benchmark_sources", "evidence_pack_items",
    "evidence_packs", "embeddings_meta", "doc_chunks", "documents",
    "optimizer_steps", "artifacts", "uncertainty_results", "metric_results",
    "simulation_jobs", "scenario_instances", "scenarios", "run_stages",
    "runs", "pack_certifications", "domain_pack_versions", "domain_packs",
    "dataset_assets", "dataset_versions", "datasets", "project_settings",
    "projects", "audit_events", "memberships", "role_permissions",
    "permissions", "roles", "users", "orgs" >>
=============================================================================
