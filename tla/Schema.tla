------------------------------- MODULE Schema -------------------------------
(***************************************************************************)
(* What the model classes declare of the tables of the database: for every *)
(* table its foreign keys, each with the table it references and what the  *)
(* deletion of the referenced row does (src/apps/*/models.py).  A table is *)
(* named by its class; a many-to-many field is the table of its pairs.     *)
(* Columns that reference nothing are left out: no property here reads one.*)
(***************************************************************************)
EXTENDS TLC

Key(column, target, rule) == [column |-> column, target |-> target, rule |-> rule]

\* What a foreign key does when the row it references is deleted
Cascades(column, target) == Key(column, target, "CASCADE")
Protects(column, target) == Key(column, target, "PROTECT")
Clears(column, target) == Key(column, target, "SET_NULL")

\* AuditedModel: who made the row and who changed it last
Audited == {Clears("created_by", "User"), Clears("updated_by", "User")}
\* QualityMixin, over an audited and published row
Graded == Audited \cup {Clears("graded_by", "User")}

Pairs(left, right) == {Cascades("left", left), Cascades("right", right)}

AccountTables ==
    [Unit |-> {},
     User |-> {Clears("party", "Party"), Clears("unit", "Unit")},
     UserGroups |-> Pairs("User", "Group"),
     UserPermissions |-> Pairs("User", "Permission"),
     PasswordHistory |-> {Cascades("user", "User")},
     EmailToken |-> {Cascades("user", "User")},
     APIKey |-> {Cascades("user", "User")}]

CoreTables ==
    [AuditLog |-> {Clears("actor", "User"), Clears("content_type", "ContentType")},
     Notification |-> {Cascades("user", "User"), Clears("content_type", "ContentType")},
     RecentView |-> {Cascades("user", "User")}]

\* CodedLookup: parishes, basins, WMUs, aquifers, rivers
LookupTables ==
    [Parish |-> {}, Basin |-> {}, River |-> {}, HydrostratUnit |-> {}, Qualifier |-> {},
     WMU |-> {Protects("basin", "Basin")},
     SubWMU |-> {Protects("wmu", "WMU")},
     Aquifer |-> {Protects("hydrostrat_unit", "HydrostratUnit"), Protects("wmu", "WMU"), Protects("basin", "Basin")}]

PartyTables == [Party |-> Audited \cup {Clears("merged_into", "Party")}]

WellTables ==
    [Well |-> Audited \cup
        {Clears("current_owner", "Party"), Clears("driller", "Party"), Protects("parish", "Parish"),
         Protects("basin", "Basin"), Protects("wmu", "WMU"), Protects("sub_wmu", "SubWMU"),
         Protects("hydrostrat_unit", "HydrostratUnit"), Protects("aquifer", "Aquifer"), Clears("replaces", "Well")}]

\* The lithology, casings, tests, owners and status events of a well
WellLogTables ==
    [WellLithology |-> Audited \cup {Cascades("well", "Well")},
     WellCasing |-> Audited \cup {Cascades("well", "Well")},
     WellPumpTest |-> Audited \cup {Cascades("well", "Well"), Clears("tested_by", "Party")},
     WellOwnershipHistory |-> Audited \cup {Cascades("well", "Well"), Protects("owner", "Party")},
     WellStatusEvent |-> Audited \cup {Cascades("well", "Well"), Clears("related_well", "Well")}]

StationTables ==
    [StreamflowStation |-> Audited \cup {Protects("river", "River"), Protects("parish", "Parish"),
                                         Protects("basin", "Basin"), Protects("wmu", "WMU")},
     Spring |-> Audited \cup {Protects("parish", "Parish")}]

\* SiteLinkMixin: the row of one well or one station
AtSite == Audited \cup {Cascades("well", "Well"), Cascades("station", "StreamflowStation")}

SiteTables ==
    [Instrument |-> Audited,
     InstrumentInstallation |-> AtSite \cup {Protects("instrument", "Instrument")},
     ReferencePoint |-> AtSite,
     SiteVisit |-> AtSite \cup {Clears("visited_by", "User"), Clears("instrument", "Instrument")}]

LicensingTables ==
    [Sequence |-> {},
     LicenceApplication |-> Audited \cup
        {Clears("applicant_user", "User"), Protects("applicant", "Party"), Protects("parish", "Parish"),
         Protects("well", "Well"), Protects("wmu", "WMU"), Clears("renewal_of", "Licence")},
     ApplicationDocument |-> Audited \cup {Cascades("application", "LicenceApplication")}]

LicenceTables ==
    [Licence |-> Audited \cup
        {Protects("application", "LicenceApplication"), Protects("licensee", "Party"), Protects("parish", "Parish"),
         Protects("well", "Well"), Protects("wmu", "WMU"), Clears("issued_by", "User")},
     TimeStampedNote |-> {Cascades("application", "LicenceApplication"), Clears("author", "User")}]

AssessmentTables ==
    [LicenceCondition |-> {},
     TechnicalAssessment |-> Audited \cup
        {Cascades("application", "LicenceApplication"), Clears("assessed_by", "User"),
         Protects("wmu", "WMU"), Protects("aquifer", "Aquifer")},
     AssessmentConditions |-> Pairs("TechnicalAssessment", "LicenceCondition")]

SeriesTables ==
    [WellWaterLevel |-> Graded \cup {Protects("well", "Well")},
     StationReading |-> Graded \cup {Protects("station", "StreamflowStation")},
     AbstractionRecord |-> Graded \cup
        {Protects("licence", "Licence"), Protects("well", "Well"), Protects("station", "StreamflowStation")}]

SampleTables ==
    [WaterQualitySample |-> Graded \cup
        {Protects("well", "Well"), Protects("spring", "Spring"), Protects("station", "StreamflowStation"),
         Clears("laboratory", "Party")}]

ApprovalTables ==
    [RecordHistory |-> {Cascades("content_type", "ContentType"), Protects("corrected_by", "User"),
                        Protects("approved_by", "User"), Clears("submission", "Submission")},
     ApprovalPeriod |-> {Cascades("well", "Well"), Cascades("station", "StreamflowStation"),
                         Clears("approved_by", "User"), Clears("reopened_by", "User")}]

ModelTables ==
    [ModelRun |-> {Clears("basin", "Basin"), Clears("wmu", "WMU"), Clears("calibration_station", "StreamflowStation")},
     ModelOutput |-> Graded \cup
        {Cascades("run", "ModelRun"), Protects("station", "StreamflowStation"), Protects("well", "Well")}]

CatalogTables ==
    [DataCategory |-> {Protects("workflow", "WorkflowDefinition"), Protects("owning_unit", "Unit")},
     DataCategoryGroups |-> Pairs("DataCategory", "Group"),
     CategoryVersion |-> {Cascades("category", "DataCategory"), Clears("published_by", "User")},
     CategoryField |-> {Cascades("version", "CategoryVersion")},
     CategoryRule |-> {Cascades("version", "CategoryVersion")}]

WorkflowTables ==
    [WorkflowDefinition |-> {},
     WorkflowStage |-> {Cascades("definition", "WorkflowDefinition"), Protects("approver_group", "Group"),
                        Protects("owning_unit", "Unit")},
     StageReturns |-> Pairs("WorkflowStage", "WorkflowStage"),
     WorkflowInstance |-> {Protects("definition", "WorkflowDefinition"), Protects("current_stage", "WorkflowStage"),
                           Cascades("content_type", "ContentType"), Clears("submitter", "User")},
     WorkflowAction |-> {Cascades("instance", "WorkflowInstance"), Clears("actor", "User"),
                         Protects("from_stage", "WorkflowStage"), Protects("to_stage", "WorkflowStage")}]

SubmissionTables ==
    [Submission |-> Audited \cup {Protects("category_version", "CategoryVersion"), Clears("submitter", "User"), Clears("party", "Party")},
     SubmissionRecord |-> {Cascades("submission", "Submission"), Clears("target_content_type", "ContentType"),
                           Clears("promoted_content_type", "ContentType")},
     GenericRecord |-> Audited \cup {Protects("category_version", "CategoryVersion"), Protects("well", "Well"),
                                     Protects("station", "StreamflowStation"), Protects("licence", "Licence")},
     ImportRun |-> {Clears("submission", "Submission")}]

OfficeTables ==
    [CleansingIssue |-> {Protects("unit", "Unit"), Clears("decided_by", "User")},
     AdoptionSignoff |-> {Protects("unit", "Unit"), Protects("signed_by", "User")}]

MilestoneTables == [Milestone |-> {Clears("decided_by", "User")}]

PublicationTables == [PublishedDocument |-> {Clears("unit", "Unit"), Clears("published_by", "User")}]

\* Tables of their own, with no foreign key: site branding, feeds, map layers, display settings
PlainTables == [SiteBranding |-> {}, IntegrationRun |-> {}, WraFeature |-> {}, WraSync |-> {}, DisplaySettings |-> {}]

\* Tables of Django and of its packages
External == {"Group", "Permission", "ContentType", "AccessAttempt"}

Declared ==
    AccountTables @@ CoreTables @@ LookupTables @@ PartyTables @@ WellTables @@ WellLogTables @@ StationTables
    @@ SiteTables @@ LicensingTables @@ LicenceTables @@ AssessmentTables @@ SeriesTables @@ SampleTables
    @@ ApprovalTables @@ ModelTables @@ CatalogTables @@ WorkflowTables @@ SubmissionTables @@ OfficeTables
    @@ MilestoneTables @@ PublicationTables @@ PlainTables
=============================================================================
