\* Two firms, two people, two keys, two requests at a time.
CONSTANTS
  Firms = {acme, beta}
  Emails = {ann, bob}
  Threads = {t1, t2}
  ViewNames = {v}
  Keys = {k1, k2}
  NoFirm = NoFirm
  Nobody = Nobody
  MaxViews = 2
  MaxVersions = 2
SPECIFICATION Spec
SYMMETRY Symmetry
INVARIANTS TypeOK OneActiveProfile ReportsHaveViews OwnFirmOnly Contained AuditIsTrue
PROPERTY ProfilesAreHistory
