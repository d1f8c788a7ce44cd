-------------------------- MODULE MCRiskAcceptance --------------------------
EXTENDS RiskAcceptance, TLC

CONSTANTS ian, olga, ada

MCRole == (ian :> "iso") @@ (olga :> "ao") @@ (ada :> "admin")
AdminOnly == (ada :> "admin")

=============================================================================
