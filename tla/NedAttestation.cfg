CONSTANTS
    MaxQueue = 2
    MaxLogins = 2
SPECIFICATION FairSpec
CHECK_DEADLOCK FALSE
INVARIANT OneWarningPerLogin
INVARIANT LabelSettles
INVARIANT NoForgottenTunnel
PROPERTY UntrustedIsShown
PROPERTY TunnelIsRaised
