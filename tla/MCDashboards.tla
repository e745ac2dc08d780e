---------------------------- MODULE MCDashboards ----------------------------
\* A small instance of Dashboards: a view, and one that is computed from it.
EXTENDS Dashboards

Views2 == <<"well_level_status", "monitoring_kpis">>
Reads2 == [v \in {"well_level_status", "monitoring_kpis"} |->
              IF v = "monitoring_kpis" THEN {"well_level_status"} ELSE {}]

=============================================================================
