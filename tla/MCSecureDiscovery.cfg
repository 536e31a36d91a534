CONSTANTS
    p = p
    q = q
    NoMessage = NoMessage
    MaxOut = 1
    Situations <- SomeSituations
    RuleTexts <- InOrderElements
    Handles <- SomePermissions
SPECIFICATION FairSpec
INVARIANTS
    HandshakeMirrored
    SecretsAgree
    RefusedGetsNoKeys
    MatchedIsPermitted
    DecisionsAgree
PROPERTIES
    KeysAreExchanged
CHECK_DEADLOCK FALSE
