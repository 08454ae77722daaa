SPECIFICATION Spec
CONSTANTS
    Platforms = {"sgx", "oe", "snp", "aci"}
    Vias = {"prepared", "direct"}
    Roots = {Vendor, Other}
    Vendor = Vendor
    NoRoot = NoRoot
    Qualities = {"good", "empty", "junk", "failed"}
INVARIANTS TypeOK PreparedIsEnough FreshIsHonoured AnswersPresent CustomRootIsAnchor
