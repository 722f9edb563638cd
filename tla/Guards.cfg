SPECIFICATION MCSpec
CONSTANTS
  MaxFailures = 3
  Quarantine = 4
  Cooldown = 2
  Idle = 6
  MaxRunning = 3
  MaxCount = 6
  MaxAge = 7
  Tiers <- MCTiers
  DefaultTier = "free"
  TierLimits <- MCTierLimits
  Minute = 3
  Hour = 5
  MaxJobTime = 2
  Handlers = 2
  Sizes = {1, 2}
  Files = {toc, bbl}
  Hashes = {h1, h2}
  MaxPasses = 5
INVARIANTS
  QuarantineCountsFromLastFailure
  QuotaOvershootIsBounded
  NoRepeatGoesUnnoticed
  PassesAreBounded
  OscillationIsReal
PROPERTIES
  NoAdmissionInQuarantine
  QuarantineEnds
  RefusedUserIsAdmittedAgain
