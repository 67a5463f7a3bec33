\* Two registrations check one invitation before either commits.
SPECIFICATION Spec
CONSTANTS
  Emails = {e1, e2}
  Invites = {i1}
  Codes = {c1, c2, c3}
  Threads = {t1, t2, t3}
  Later = {TRUE}
  Nobody = Nobody
  Founder = Founder
  NoCode = NoCode
SYMMETRY Symmetry
INVARIANT
  InviteAdmitsOne
