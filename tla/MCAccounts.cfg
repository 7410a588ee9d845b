SPECIFICATION Spec
CHECK_DEADLOCK FALSE
CONSTANTS
  boss = boss
  q1 = q1
  q2 = q2
  i1 = i1
  i2 = i2
  Emails = {boss}
  Founder = boss
  Generations = 2
  GrantedRoles = {"viewer", "admin"}
  DefaultRole = "viewer"
  JitEnabled = TRUE
  Requests = {q1, q2}
  Invites = {i1, i2}
  AccessTtl = 1
  RefreshTtl = 2
  InviteTtl = 1
  MaxClock = 3
  MaxChanges = 2
INVARIANTS
  WithdrawnWithinTtl
  OverlapsAccounted
SYMMETRY Interchangeable
