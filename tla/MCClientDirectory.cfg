\* Two chats that may share the same or different phones, one admin, one restart.
CONSTANTS
  Chats = {c1, c2}
  Phones = {p1, p2}
  Admins = {a1}
  None = None
  EarlyBot = TRUE
  Faults = {"read", "write"}
  MaxIds = 2
  MaxRestarts = 1
SPECIFICATION Spec
SYMMETRY Symmetry
INVARIANTS DirectoryTypeOK BidsInOwnName
PROPERTIES BlockIsFirm IdIsFirm
