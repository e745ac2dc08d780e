----------------------------- MODULE Migrations -----------------------------
(***************************************************************************)
(* The migrations of the database (src/apps/*/migrations): what each one   *)
(* depends on, which tables and columns it adds, which views of the schema *)
(* bi it creates and what those read.  A column is kept when it references *)
(* a table or is read by a view and younger than its table; the others     *)
(* come and go with the column "id" of their table.  A migration is named  *)
(* by its app and its number.  Changes of choices, indexes and constraints *)
(* touch no column and appear as a migration that adds nothing.            *)
(***************************************************************************)
EXTENDS Naturals, Sequences

Column(table, column, target) == [table |-> table, column |-> column, target |-> target]

\* A new table, with its foreign keys as pairs of a column and the table it references
Table(t, keys) == {Column(t, "id", "")} \cup {Column(t, k[1], k[2]) : k \in keys}
AddKey(t, column, target) == {Column(t, column, target)}
AddField(t, column) == {Column(t, column, "")}
\* The table of a many-to-many field
PairTable(t, left, right) == Table(t, {<<"left", left>>, <<"right", right>>})

MadeBy == {<<"created_by", "User">>, <<"updated_by", "User">>}

\* Columns a view reads
Of(t, cs) == {<<t, c>> : c \in {"id"} \cup cs}
\* A view another view reads
From(view) == {<<view, "view">>}
View(name, reads) == [name |-> name, reads |-> reads]

\* What a migration does: its dependencies outside its app, the columns and the views it
\* adds, the views it drops first, and the views its reversal puts back
Migration(after, adds) == [after |-> after, adds |-> adds, views |-> {}, restores |-> {}]
SqlMigration(after, creates, restores) == [after |-> after, adds |-> {}, views |-> creates, restores |-> restores]

---------------------------------------------------------------------------
\* accounts

accounts_0001 ==
    Migration({}, Table("APIKey", {}) \cup Table("EmailToken", {}) \cup Table("PasswordHistory", {})
                  \cup Table("User", {}) \cup PairTable("UserGroups", "User", "Group"))

accounts_0002 ==
    Migration({<<"ref", 1>>},
              AddKey("User", "party", "Party") \cup PairTable("UserPermissions", "User", "Permission")
              \cup AddKey("APIKey", "user", "User") \cup AddKey("EmailToken", "user", "User")
              \cup AddKey("PasswordHistory", "user", "User"))

accounts_0003 == Migration({}, Table("Unit", {}) \cup AddKey("User", "unit", "Unit"))

---------------------------------------------------------------------------
\* catalog

catalog_0001_versions == Table("CategoryVersion", {<<"published_by", "User">>})
                         \cup Table("CategoryRule", {<<"version", "CategoryVersion">>})

catalog_0001_fields == Table("CategoryField", {<<"version", "CategoryVersion">>})

catalog_0001_categories == Table("DataCategory", {}) \cup PairTable("DataCategoryGroups", "DataCategory", "Group")

catalog_0001 ==
    Migration({<<"accounts", 1>>}, catalog_0001_versions \cup catalog_0001_fields \cup catalog_0001_categories)

catalog_0002 ==
    Migration({<<"workflow", 1>>},
              AddKey("DataCategory", "workflow", "WorkflowDefinition")
              \cup AddKey("CategoryVersion", "category", "DataCategory"))

\* The section of a field; its values are filled in from the names of the fields
catalog_0003 == Migration({}, AddField("CategoryField", "section"))
catalog_0004 == Migration({}, {})
catalog_0005 == Migration({}, {})
catalog_0006 == Migration({<<"accounts", 3>>}, AddKey("DataCategory", "owning_unit", "Unit"))

---------------------------------------------------------------------------
\* console, core, governance, integrations, maps, opendata

console_0001_signoffs == Table("AdoptionSignoff", {<<"signed_by", "User">>, <<"unit", "Unit">>})
console_0001_issues == Table("CleansingIssue", {<<"decided_by", "User">>, <<"unit", "Unit">>})
console_0001 == Migration({<<"accounts", 3>>}, console_0001_signoffs \cup console_0001_issues)

core_0001 ==
    Migration({<<"accounts", 1>>},
              Table("AuditLog", {<<"actor", "User">>, <<"content_type", "ContentType">>})
              \cup Table("Notification", {<<"user", "User">>, <<"content_type", "ContentType">>}))
core_0002 == Migration({}, Table("SiteBranding", {}))
core_0003 == Migration({}, {})
core_0004 == Migration({<<"accounts", 1>>}, Table("RecentView", {<<"user", "User">>}))

governance_0001 == Migration({<<"accounts", 1>>}, Table("Milestone", {<<"decided_by", "User">>}))
integrations_0001 == Migration({}, Table("IntegrationRun", {}))
maps_0001 == Migration({}, Table("WraFeature", {}))
maps_0002 == Migration({}, Table("WraSync", {}))
opendata_0001 ==
    Migration({<<"accounts", 3>>}, Table("PublishedDocument", {<<"published_by", "User">>, <<"unit", "Unit">>}))

---------------------------------------------------------------------------
\* lic

lic_0001_licence ==
    Table("Licence", MadeBy \cup {<<"issued_by", "User">>, <<"licensee", "Party">>, <<"parish", "Parish">>, <<"well", "Well">>})

lic_0001_application_head ==
    Table("LicenceApplication", {<<"applicant", "Party">>, <<"applicant_user", "User">>, <<"created_by", "User">>})

lic_0001_application_sites ==
    AddKey("LicenceApplication", "parish", "Parish") \cup AddKey("LicenceApplication", "renewal_of", "Licence")
    \cup AddKey("LicenceApplication", "updated_by", "User") \cup AddKey("LicenceApplication", "well", "Well")
    \cup AddKey("Licence", "application", "LicenceApplication")

lic_0001_documents == Table("ApplicationDocument", MadeBy \cup {<<"application", "LicenceApplication">>})

lic_0001_notes ==
    Table("Sequence", {}) \cup Table("TimeStampedNote", {<<"application", "LicenceApplication">>, <<"author", "User">>})

lic_0001 ==
    Migration({<<"ref", 1>>, <<"accounts", 1>>},
              lic_0001_licence \cup lic_0001_application_head \cup lic_0001_application_sites
              \cup lic_0001_documents \cup lic_0001_notes)

lic_0002 == Migration({}, {})

lic_0003_conditions ==
    Table("LicenceCondition", {}) \cup AddField("Licence", "conditions")
    \cup AddKey("Licence", "wmu", "WMU") \cup AddKey("LicenceApplication", "wmu", "WMU")

lic_0003_assessment ==
    Table("TechnicalAssessment",
          MadeBy \cup {<<"application", "LicenceApplication">>, <<"aquifer", "Aquifer">>,
                       <<"assessed_by", "User">>, <<"wmu", "WMU">>})
    \cup PairTable("AssessmentConditions", "TechnicalAssessment", "LicenceCondition")

lic_0003 == Migration({<<"ref", 4>>, <<"accounts", 1>>}, lic_0003_conditions \cup lic_0003_assessment)

---------------------------------------------------------------------------
\* obs: the keys of the three series and of the samples come in the second migration

obs_0001_readings == Table("StationReading", {})
obs_0001_samples_head == Table("WaterQualitySample", {})
obs_0001_levels == Table("WellWaterLevel", {})
obs_0001_abstraction ==
    Table("AbstractionRecord",
          MadeBy \cup {<<"licence", "Licence">>, <<"station", "StreamflowStation">>, <<"well", "Well">>})
obs_0001_history ==
    Table("RecordHistory", {<<"approved_by", "User">>, <<"content_type", "ContentType">>, <<"corrected_by", "User">>})

obs_0001 ==
    Migration({<<"lic", 1>>, <<"ref", 1>>, <<"accounts", 1>>},
              obs_0001_readings \cup obs_0001_samples_head \cup obs_0001_levels
              \cup obs_0001_abstraction \cup obs_0001_history)

obs_0002_keys ==
    AddKey("RecordHistory", "submission", "Submission")
    \cup {Column(t, k[1], k[2]) : t \in {"StationReading", "WaterQualitySample", "WellWaterLevel"}, k \in MadeBy}
    \cup AddKey("StationReading", "station", "StreamflowStation") \cup AddKey("WellWaterLevel", "well", "Well")
    \cup AddKey("WaterQualitySample", "laboratory", "Party") \cup AddKey("WaterQualitySample", "spring", "Spring")
    \cup AddKey("WaterQualitySample", "station", "StreamflowStation") \cup AddKey("WaterQualitySample", "well", "Well")

obs_0002 == Migration({<<"ref", 1>>, <<"submissions", 1>>, <<"accounts", 1>>}, obs_0002_keys)

\* grade, graded_at, graded_by and qualifiers of the four observation tables
obs_0003_grades ==
    UNION {AddField(t, "grade") \cup AddKey(t, "graded_by", "User") :
           t \in {"AbstractionRecord", "StationReading", "WaterQualitySample", "WellWaterLevel"}}

obs_0003_periods ==
    Table("ApprovalPeriod",
          {<<"approved_by", "User">>, <<"reopened_by", "User">>, <<"station", "StreamflowStation">>, <<"well", "Well">>})

obs_0003 == Migration({<<"ref", 2>>, <<"accounts", 1>>}, obs_0003_grades \cup obs_0003_periods)
obs_0004 == Migration({}, {})

obs_0005_run ==
    Table("ModelRun", {<<"basin", "Basin">>, <<"calibration_station", "StreamflowStation">>, <<"wmu", "WMU">>})

obs_0005_output == Table("ModelOutput", {})
obs_0005_output_keys ==
    {Column("ModelOutput", k[1], k[2]) :
     k \in MadeBy \cup {<<"graded_by", "User">>, <<"station", "StreamflowStation">>, <<"well", "Well">>, <<"run", "ModelRun">>}}

obs_0005 ==
    Migration({<<"ref", 3>>, <<"accounts", 1>>}, obs_0005_run \cup obs_0005_output \cup obs_0005_output_keys)

---------------------------------------------------------------------------
\* ref

ref_0001_lookups ==
    Table("Basin", {}) \cup Table("HydrostratUnit", {}) \cup Table("Parish", {})
    \cup Table("River", {}) \cup Table("SubWMU", {})
ref_0001_party == Table("Party", MadeBy \cup {<<"merged_into", "Party">>})
ref_0001_spring == Table("Spring", MadeBy \cup {<<"parish", "Parish">>})
ref_0001_well == Table("Well", {})
ref_0001_well_keys ==
    {Column("Well", k[1], k[2]) :
     k \in MadeBy \cup {<<"basin", "Basin">>, <<"current_owner", "Party">>, <<"driller", "Party">>,
                         <<"hydrostrat_unit", "HydrostratUnit">>, <<"parish", "Parish">>, <<"replaces", "Well">>,
                         <<"sub_wmu", "SubWMU">>}}
ref_0001_well_logs ==
    Table("WellCasing", MadeBy \cup {<<"well", "Well">>}) \cup Table("WellLithology", MadeBy \cup {<<"well", "Well">>})
ref_0001_well_owners == Table("WellOwnershipHistory", MadeBy \cup {<<"owner", "Party">>, <<"well", "Well">>})
ref_0001_well_tests == Table("WellPumpTest", MadeBy \cup {<<"well", "Well">>})
ref_0001_wmu == Table("WMU", {<<"basin", "Basin">>}) \cup AddKey("Well", "wmu", "WMU") \cup AddKey("SubWMU", "wmu", "WMU")
ref_0001_station == Table("StreamflowStation", {})
ref_0001_station_keys ==
    {Column("StreamflowStation", k[1], k[2]) :
     k \in MadeBy \cup {<<"basin", "Basin">>, <<"parish", "Parish">>, <<"river", "River">>, <<"wmu", "WMU">>}}

ref_0001 ==
    Migration({<<"accounts", 1>>},
              ref_0001_lookups \cup ref_0001_party \cup ref_0001_spring \cup ref_0001_well \cup ref_0001_well_keys
              \cup ref_0001_well_logs \cup ref_0001_well_owners \cup ref_0001_well_tests \cup ref_0001_wmu
              \cup ref_0001_station \cup ref_0001_station_keys)

\* The tables of the instruments, reference points and visits of a site, and of a well's status events
ref_0002_tables ==
    UNION {Table(t, {}) : t \in {"Instrument", "InstrumentInstallation", "Qualifier", "ReferencePoint", "SiteVisit"}}
ref_0002_events == Table("WellStatusEvent", {}) \cup AddField("WellCasing", "is_screen") \cup AddKey("WellPumpTest", "tested_by", "Party")

SiteKeys(t) ==
    {Column(t, k[1], k[2]) : k \in MadeBy \cup {<<"station", "StreamflowStation">>, <<"well", "Well">>}}

ref_0002_site_keys ==
    {Column("Instrument", k[1], k[2]) : k \in MadeBy}
    \cup SiteKeys("InstrumentInstallation") \cup AddKey("InstrumentInstallation", "instrument", "Instrument")
    \cup SiteKeys("ReferencePoint")
ref_0002_visit_keys ==
    SiteKeys("SiteVisit") \cup AddKey("SiteVisit", "instrument", "Instrument") \cup AddKey("SiteVisit", "visited_by", "User")
\* Fault: the other well of an event is forgotten
ref_0002_event_well_only ==
    {Column("WellStatusEvent", k[1], k[2]) : k \in MadeBy \cup {<<"well", "Well">>}}
ref_0002_event_keys ==
    {Column("WellStatusEvent", k[1], k[2]) : k \in MadeBy \cup {<<"related_well", "Well">>, <<"well", "Well">>}}

ref_0002 ==
    Migration({<<"accounts", 1>>},
              ref_0002_tables \cup ref_0002_events \cup ref_0002_site_keys \cup ref_0002_visit_keys \cup ref_0002_event_keys)

ref_0003 ==
    Migration({}, AddField("StreamflowStation", "is_public_supply") \cup AddField("Well", "is_public_supply"))

ref_0004 ==
    Migration({}, AddField("WMU", "safe_yield_m3_d")
                  \cup Table("Aquifer", {<<"basin", "Basin">>, <<"hydrostrat_unit", "HydrostratUnit">>, <<"wmu", "WMU">>})
                  \cup AddKey("Well", "aquifer", "Aquifer"))

ref_0005 == Migration({}, {})

---------------------------------------------------------------------------
\* submissions and workflow

submissions_0001_generic ==
    Table("GenericRecord",
          MadeBy \cup {<<"category_version", "CategoryVersion">>, <<"licence", "Licence">>,
                       <<"station", "StreamflowStation">>, <<"well", "Well">>})
submissions_0001_submission ==
    Table("Submission",
          MadeBy \cup {<<"category_version", "CategoryVersion">>, <<"party", "Party">>, <<"submitter", "User">>})
submissions_0001_records ==
    Table("ImportRun", {<<"submission", "Submission">>})
    \cup Table("SubmissionRecord", {<<"promoted_content_type", "ContentType">>, <<"submission", "Submission">>,
                                    <<"target_content_type", "ContentType">>})

submissions_0001 ==
    Migration({<<"catalog", 1>>, <<"lic", 1>>, <<"ref", 1>>, <<"accounts", 1>>},
              submissions_0001_generic \cup submissions_0001_submission \cup submissions_0001_records)
submissions_0002 == Migration({}, {})

workflow_0001_stages ==
    Table("WorkflowDefinition", {})
    \cup Table("WorkflowStage", {<<"approver_group", "Group">>, <<"definition", "WorkflowDefinition">>})
    \cup PairTable("StageReturns", "WorkflowStage", "WorkflowStage")
workflow_0001_instance ==
    Table("WorkflowInstance", {<<"content_type", "ContentType">>, <<"definition", "WorkflowDefinition">>,
                               <<"submitter", "User">>, <<"current_stage", "WorkflowStage">>})
workflow_0001_action ==
    Table("WorkflowAction", {<<"actor", "User">>, <<"instance", "WorkflowInstance">>,
                             <<"from_stage", "WorkflowStage">>, <<"to_stage", "WorkflowStage">>})

workflow_0001 ==
    Migration({<<"accounts", 1>>}, workflow_0001_stages \cup workflow_0001_instance \cup workflow_0001_action)
workflow_0002 == Migration({<<"accounts", 3>>}, AddKey("WorkflowStage", "owning_unit", "Unit"))

---------------------------------------------------------------------------
\* reports: the views of the schema bi

reports_0001_materialised ==
    {View("licensing_monthly", Of("Licence", {"parish"}) \cup Of("Parish", {})),
     View("abstraction_vs_granted", Of("AbstractionRecord", {"licence"}) \cup Of("Licence", {"parish"}) \cup Of("Parish", {})),
     View("water_quality_by_parish",
          Of("WaterQualitySample", {"well", "station", "spring"}) \cup Of("Well", {"parish"})
          \cup Of("StreamflowStation", {"parish"}) \cup Of("Spring", {"parish"}) \cup Of("Parish", {})),
     View("application_turnaround",
          Of("LicenceApplication", {"parish"}) \cup Of("Parish", {}) \cup Of("WorkflowAction", {"instance"})
          \cup Of("WorkflowInstance", {"content_type"})),
     View("well_inventory", Of("Well", {"parish", "basin"}) \cup Of("Parish", {}) \cup Of("Basin", {}))}

PublicWells == View("public_wells", Of("Well", {"parish", "basin", "wmu"}))

reports_0001_public ==
    {PublicWells,
     View("public_well_water_levels", Of("WellWaterLevel", {"well"})),
     View("public_water_quality", Of("WaterQualitySample", {"well", "spring", "station"})),
     View("public_station_readings", Of("StationReading", {"station"}))}

reports_0001 ==
    SqlMigration({<<"lic", 1>>, <<"obs", 1>>, <<"workflow", 1>>}, reports_0001_materialised \cup reports_0001_public, {})

reports_0002_views ==
    {View("licensing_pipeline", Of("LicenceApplication", {})),
     View("applications_monthly", Of("LicenceApplication", {})),
     View("licence_expiry", Of("Licence", {})),
     View("licence_active_by_parish", Of("Licence", {"parish"}) \cup Of("Parish", {})),
     View("licensing_kpis", Of("Licence", {}) \cup Of("LicenceApplication", {}) \cup Of("AbstractionRecord", {"licence"}))}

reports_0002 == SqlMigration({<<"obs", 3>>}, reports_0002_views, {})

\* The public views again, coarsened where a site serves the public supply
reports_0003_public ==
    {View("public_wells", Of("Well", {"is_public_supply", "parish", "basin", "wmu"})),
     View("public_stations", Of("StreamflowStation", {"is_public_supply", "river", "parish", "basin", "wmu"}))}

StageOfApplication ==
    Of("LicenceApplication", {}) \cup Of("WorkflowInstance", {"content_type", "current_stage"}) \cup Of("WorkflowStage", {})

reports_0003_licensing ==
    {View("application_stage_counts", StageOfApplication),
     View("open_applications_by_parish", Of("LicenceApplication", {"parish"}) \cup Of("Parish", {})),
     View("longest_waiting_applications", StageOfApplication \cup Of("LicenceApplication", {"parish"}) \cup Of("Parish", {}))}

reports_0003_monitoring ==
    {View("well_level_status",
          Of("WellWaterLevel", {"well", "grade"}) \cup Of("Well", {"parish", "basin"}) \cup Of("Parish", {}) \cup Of("Basin", {})),
     View("station_flow_status",
          Of("StationReading", {"station"}) \cup Of("StreamflowStation", {"river", "parish"}) \cup Of("River", {}) \cup Of("Parish", {})),
     View("groundwater_index_by_basin", Of("WellWaterLevel", {"well"}) \cup Of("Well", {"basin"}) \cup Of("Basin", {})),
     View("station_flow_recent", Of("StationReading", {"station"}) \cup Of("StreamflowStation", {}))}

reports_0003_shares ==
    {View("abstraction_share_latest", Of("AbstractionRecord", {"licence"}) \cup Of("Licence", {"parish"}) \cup Of("Parish", {})),
     View("wq_exceedances_90d", Of("WaterQualitySample", {})),
     View("monitoring_kpis",
          From("well_level_status") \cup From("abstraction_share_latest") \cup Of("StreamflowStation", {}) \cup Of("Well", {})
          \cup Of("StationReading", {"station"}) \cup Of("WellWaterLevel", {"well"}) \cup Of("WaterQualitySample", {}))}

reports_0003_submissions ==
    {View("submissions_monthly",
          Of("Submission", {"category_version"}) \cup Of("CategoryVersion", {"category"}) \cup Of("DataCategory", {})),
     View("review_backlog_age", Of("WorkflowInstance", {"definition"}) \cup Of("WorkflowDefinition", {})),
     View("observation_grades",
          UNION {Of(t, {"grade"}) : t \in {"WellWaterLevel", "StationReading", "AbstractionRecord", "WaterQualitySample"}}),
     View("validation_failures", Of("SubmissionRecord", {"submission"}) \cup Of("Submission", {})),
     View("submissions_kpis", Of("Submission", {}) \cup Of("WorkflowInstance", {}))}

GovernanceKpis == View("governance_kpis", Of("AuditLog", {}) \cup Of("AccessAttempt", {}) \cup Of("RecordHistory", {}))

reports_0003_executive ==
    {View("licences_by_status", Of("Licence", {})),
     View("service_standard_monthly", Of("LicenceApplication", {})),
     View("expiries_next_12m", Of("Licence", {}) \cup Of("LicenceApplication", {"renewal_of"})),
     GovernanceKpis,
     View("executive_kpis", From("abstraction_share_latest") \cup Of("Licence", {}) \cup Of("LicenceApplication", {}))}

reports_0003 ==
    SqlMigration({<<"ref", 3>>, <<"submissions", 2>>},
                 reports_0003_public \cup reports_0003_licensing \cup reports_0003_monitoring \cup reports_0003_shares
                 \cup reports_0003_submissions \cup reports_0003_executive,
                 {PublicWells})

reports_0004 == Migration({}, Table("DisplaySettings", {}))

\* The same view over other names of actions
reports_0005 == SqlMigration({<<"obs", 5>>}, {GovernanceKpis}, {GovernanceKpis})

reports_0006 ==
    SqlMigration({<<"ref", 4>>, <<"lic", 3>>},
                 {View("wmu_balance",
                       Of("WMU", {"basin", "safe_yield_m3_d"}) \cup Of("Basin", {}) \cup Of("Licence", {"well", "wmu"})
                       \cup Of("Well", {"wmu"}) \cup Of("AbstractionRecord", {"licence", "well"})
                       \cup Of("LicenceApplication", {"well", "wmu"}))},
                 {})

---------------------------------------------------------------------------

Apps == <<"accounts", "catalog", "console", "core", "governance", "integrations", "lic", "maps", "obs",
          "opendata", "ref", "reports", "submissions", "workflow">>

\* The migrations of each app, in order
History ==
    [accounts |-> <<accounts_0001, accounts_0002, accounts_0003>>,
     catalog |-> <<catalog_0001, catalog_0002, catalog_0003, catalog_0004, catalog_0005, catalog_0006>>,
     console |-> <<console_0001>>,
     core |-> <<core_0001, core_0002, core_0003, core_0004>>,
     governance |-> <<governance_0001>>,
     integrations |-> <<integrations_0001>>,
     lic |-> <<lic_0001, lic_0002, lic_0003>>,
     maps |-> <<maps_0001, maps_0002>>,
     obs |-> <<obs_0001, obs_0002, obs_0003, obs_0004, obs_0005>>,
     opendata |-> <<opendata_0001>>,
     ref |-> <<ref_0001, ref_0002, ref_0003, ref_0004, ref_0005>>,
     reports |-> <<reports_0001, reports_0002, reports_0003, reports_0004, reports_0005, reports_0006>>,
     submissions |-> <<submissions_0001, submissions_0002>>,
     workflow |-> <<workflow_0001, workflow_0002>>]

\* The materialised views that reports/services.py refreshes
BIViews ==
    <<"licensing_monthly", "abstraction_vs_granted", "water_quality_by_parish", "application_turnaround",
      "well_inventory", "licensing_pipeline", "applications_monthly", "licence_expiry", "licence_active_by_parish",
      "licensing_kpis", "application_stage_counts", "open_applications_by_parish", "longest_waiting_applications",
      "well_level_status", "station_flow_status", "groundwater_index_by_basin", "station_flow_recent",
      "abstraction_share_latest", "wq_exceedances_90d", "monitoring_kpis", "submissions_monthly",
      "review_backlog_age", "observation_grades", "validation_failures", "submissions_kpis", "licences_by_status",
      "wmu_balance", "service_standard_monthly", "expiries_next_12m", "governance_kpis", "executive_kpis">>
=============================================================================
