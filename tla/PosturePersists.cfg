SPECIFICATION Spec
CONSTANTS
  None = None
  T <- MCT
  Window = 4
  Lookback = 1
  HeadlineBacks <- MCBacks
  Sessions <- MCFullSessions
  HEALTH_MIN_CLASSIFIED_DAYS = 2
  REPAIR_WINDOW_DAYS = 3
  REPAIR_REQUIRED_CLEAN_DAYS = 2
  SEVERE_LOOKBACK_DAYS = 1
  ROBUST_MAX_DAMAGED_DAYS = 1
  ROBUST_MAX_EPISODES = 1
  DAMAGED_MIN_DAYS = 3
  DAMAGED_RECENT_WINDOW = 2
  DAMAGED_MIN_RECENT = 2
INVARIANT ActivePersists
