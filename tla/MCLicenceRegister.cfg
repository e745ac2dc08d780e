SPECIFICATION FairSpec
CONSTANTS
  old = old
  new = new
  Apps = {old, new, other}
  NoApp = none
  RenewalOf <- MCRenewalOf
  WellOf <- MCWellOf
  Wells = {"well"}
  NoWell = "no_well"
  Grants = {"granted"}
  Terms = {1}
  LeadTimes <- MCLeadTimes
  Jobs = {j1, j2}
  NoLicence = no_licence
  MaxDay = 2
  MaxCrashes = 1
INVARIANTS WellShowsLatest NumberedInOrder WarnedMeansAlerted
PROPERTIES Lapses RenewalLasts
CHECK_DEADLOCK FALSE
