\* Four threads on one machine, every installation able to fail.
SPECIFICATION DepSpec
CONSTANTS
  Service <- Services
  Tool <- Tools
  Required <- Requires
  Optional <- Options
  Primary <- Primaries
  Spare <- Spares
  Registered <- Tools
  InRepository <- Offered
  Release <- Downloads
  Installs = TRUE
  Workers = 4
  Failures = TRUE
INVARIANTS StartsEquipped SkippedForCause
CHECK_DEADLOCK FALSE
