\* Two sessions; four inserts let a removed user's name come back under a new id.
SPECIFICATION Spec
CONSTANTS
  MaxId = 4
  Names = {bob}
  Subjects = {sub}
  SeedName = admin
  Sessions = {s1, s2}
INVARIANTS
  TypeOK
  UsernamesAreUnique
PROPERTIES
  FreshSavesKeepAnAdmin
