CONSTANTS
  Key = {"citation_verification", "upl_check"}
  SafetyWord = {"required", "enforced", "advisory", "disabled", "not-applicable"}
  TierWord = {"low", "medium", "high", "unlisted"}
  Unstated = Unstated
  SizeLimit = 3
  MaxSize = 4
SPECIFICATION GatesSpec
INVARIANTS NamedNeverWeakens
