SPECIFICATION Spec
CONSTANTS
    Actors = {"operator", "provider"}
    Readiness = {"blocked", "publish_ready"}
    GateSets = {{}, {"operator_approval"}, {"probe", "provider_input", "payment_setup", "dry_run", "risk_review", "operator_approval", "readiness"}}
    Times = {1, 2}
    NotADate = NotADate
    MaxEvents = 3
INVARIANT TimesNeverRegress
CHECK_DEADLOCK FALSE
