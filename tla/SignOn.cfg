SPECIFICATION Spec
CONSTANTS
    None = None
    Attempts = 4
    Styles = {{}, {"parts"}, {"drops"}, {"parts", "drops"}}
INVARIANTS HandlerIsTruthful
PROPERTIES CredentialsAreSafe NobodyWaitsForEver
