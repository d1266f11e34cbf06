SPECIFICATION Spec
CONSTANTS
  s1 = s1
  s2 = s2
  hq = hq
  m1 = m1
  m2 = m2
  c1 = c1
  c2 = c2
  mh = mh
  None = None
  ch = ch
  ad = ad
  HeadUsers = {ch, ad}
  Admins = {ad}
  Corporate = hq
  Supplying = {hq}
  Stores = {s1, s2, hq}
  Users = {m1, c1, m2, c2, mh, ch, ad}
  Contents = {x, y}
  Workers = {w1, w2}
  Assignments <- Changing
  MaxVersion = 7
SYMMETRY Symmetry
INVARIANTS AuditTrailIsComplete TypeOK ApprovedWasReviewed CheckerBelongsToStore WaitingRequestIsOffered
PROPERTIES VersionNamesContent ContentFrozenInReview TheNextActorIsTold
