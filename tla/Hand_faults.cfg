\* A late start, a killed worker and Ctrl-C, together.
SPECIFICATION HandFairSpec
INVARIANT ResultIsTrue
PROPERTIES ImplementsRemoteRun Returns
