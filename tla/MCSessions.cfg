\* Two users, three tokens, and two requests that overlap at every query.
SPECIFICATION Spec
CONSTANTS
  Users = {u1, u2}
  Tokens = {k1, k2, k3}
  Threads = {t1, t2}
  Nobody = Nobody
SYMMETRY Symmetry
INVARIANTS
  TypeOK
  ListIsHonest
PROPERTIES
  KeepsBook
