CONSTANTS
  PROMOTE_AFTER_SCROLLED_FRAMES = 2
  DEMOTE_AFTER_CHANGED_FRAMES = 2
  HISTORY = 3
  REPROMOTE_AFTER_STABLE_FRAMES = 3
  MAX_COOLDOWN_DOUBLINGS = 1
  RETRY_AFTER_INELIGIBLE_FRAMES = 2
  DROP_AFTER_FRAMES = 4
  WINDOW = 3
  RECENT = 2
  REFRESH_SPIKE_FRAMES = 4
  WORKS <- MCWorks
SPECIFICATION Spec
INVARIANTS CooldownIsServed ChurnIsDemoted BudgetIsRecent
PROPERTIES TriedAgain
