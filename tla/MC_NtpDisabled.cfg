CONSTANTS
    NumServers = 2
    MinPollInterval = 6
    MaxPollInterval = 7
    MaxDatagrams = 2
SPECIFICATION NtpSpec
INVARIANT DisabledWhenAllRefuse
