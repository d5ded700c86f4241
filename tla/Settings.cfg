\* Every setting alone with everything else that can be wrong, and those compared.
SPECIFICATION SettingsSpec
CONSTANTS
    Topics <- MCTopics
    Former = {"otlp"}
    Unset = Unset
    Blank = Blank
    Missing = Missing
    Null = Null
    Bad = Bad
    Redacted = Redacted
    Flag = Flag
INVARIANTS
    OriginTrue
    RoundTrip
    NothingIgnored
    RunsAsPrinted
