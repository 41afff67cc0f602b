CONSTANTS
    Unset = Unset
    Given = Given
    Bad = Bad
    Default = Default
    RunConfigs <- MCInputs
    FlagConfigs <- MCInputs

SPECIFICATION Spec
INVARIANT LogSettingsPerField
CHECK_DEADLOCK FALSE
