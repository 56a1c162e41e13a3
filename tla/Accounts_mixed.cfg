SPECIFICATION Spec
CONSTANTS
    Users = {a, b, c}
    Founders = {a, b}
    Requests = {r1, r2}
    MaxTokens = 2
    Operations = {"role", "deactivate", "activate", "resend"}
    Granted = {"administrator", "operator"}
INVARIANT
    AnAdministratorRemains
CHECK_DEADLOCK FALSE
