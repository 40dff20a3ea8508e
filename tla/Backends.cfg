SPECIFICATION Spec
CONSTANT
    Versions = {v1, v2}
INVARIANTS
    FilesAreWhole
    NeverStale
PROPERTIES
    InstallsOnlyAgreed
