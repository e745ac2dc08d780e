------------------------- MODULE MCLicenceRegister -------------------------
(***************************************************************************)
(* A licence, its renewal and another on one well, with a lead time and a  *)
(* term of one day, so that the warning, the last day and the day after    *)
(* fall inside the days that pass; two deliveries of the task at once.     *)
(***************************************************************************)
EXTENDS LicenceRegister

CONSTANTS old, new

MCRenewalOf == [i \in Apps |-> IF i = new THEN old ELSE NoApp]
MCWellOf    == [i \in Apps |-> "well"]
MCLeadTimes == <<1>>
=============================================================================
