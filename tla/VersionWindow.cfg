\* Deploys, rollbacks, TTL and retention of an environment whose operator
\* pointed the fleet at a registered build before the first deploy, or not.
CONSTANTS
    Versions = {v1, v2, v3, v4}
    NoVersion = NoVersion
    Features = {"bootstrap", "retention"}
SPECIFICATION Spec
INVARIANTS OneActive OneDeprecated
PROPERTIES RunningVersionKeepsWindow DisabledIsFinal
CHECK_DEADLOCK FALSE
