\* Every part.  The controller's counter runs out after MaxNumber - 1 requests: enough
\* for a connect, the rollback of an operation given up half way, and a second attempt
\* that meets its answer.
CONSTANTS
    Parts = {"controller", "projection", "cli", "link", "store", "gui"}
    MaxNumber = 5
    p1 = p1
    p2 = p2
    BrowserTls = TRUE
    H3Build = TRUE
SPECIFICATION ProductSpec
INVARIANTS ControllerIsHonest ShownIsTrue PoliciesAgree DocumentsSurvive
PROPERTIES ErrorsAreReported NothingIsSilentlyLost
