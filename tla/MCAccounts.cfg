\* Two addresses for one invitation, three overlapping requests, three codes; SMTP
\* settings may be missing at first and come with a later deployment.
SPECIFICATION Spec
CONSTANTS
  Emails = {e1, e2}
  Invites = {i1}
  Codes = {c1, c2, c3}
  Threads = {t1, t2, t3}
  Later = {TRUE}
  Nobody = Nobody
  Founder = Founder
  NoCode = NoCode
SYMMETRY Symmetry
INVARIANTS
  TypeOK
  SpentCodesStayDead
  InvitesAccountForMembers
PROPERTIES
  RevokedAdmitsNobody
  AccountsAreGenuine
