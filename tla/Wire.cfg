SPECIFICATION Spec
CONSTANTS
    Imsis <- MCImsis
    Policies <- MCPolicies
    Payloads <- MCPayloads
    MaxCommands = 2
CHECK_DEADLOCK FALSE
INVARIANTS TypeOK IdentityKept BearerKept RulesKept Echoed LateNotServed UplinkAnswered AttachTold
