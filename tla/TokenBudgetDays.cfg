SPECIFICATION Spec
CONSTANTS
  N = 2
  Days = {1, 2}
  FirstDay = 1
  Asked = {"urgent", "event"}
  Amounts = {4}
  Usages = {2, 5}
  Limits = {8, 12}
  StartShare <- EarlyShares
  FullShare <- FullShares
  URGENT_PART = 2
  SLOTS = 2
  OVERRUN = 1
INVARIANTS LanePace UrgentTenth DailyLimit ReservationBacked
