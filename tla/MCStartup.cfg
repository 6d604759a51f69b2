\* Configurations of every kind; one rotation, one revocation, one deletion.
SPECIFICATION Spec
CONSTANT Configs <- MCConfigs
INVARIANTS FailsForReason JoinsRightTopic
PROPERTIES JoinsOrFails Reconnects
