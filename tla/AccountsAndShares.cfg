\* Four requests of any kind, two emails, two usernames, two passwords.
SPECIFICATION Spec
CONSTANTS
  r1 = r1
  r2 = r2
  r3 = r3
  r4 = r4
  e1 = e1
  e2 = e2
  n1 = n1
  n2 = n2
  p1 = p1
  p2 = p2
  x1 = x1
  x2 = x2
  Requests <- MCRequests
  Emails <- MCEmails
  Names <- MCNames
  Passwords <- MCPasswords
  DocIds <- MCDocIds
  NoForm = NoForm
  NoToken = NoToken
  NoList = NoList
  Paging <- MCPaging
  IntBound = 4
  Faults = TRUE
INVARIANTS
  TypeOK
  TokensEarned
  SharedAsNamed
  ListsFaithful
SYMMETRY Symmetry
