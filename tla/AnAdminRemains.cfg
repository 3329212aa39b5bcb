\* Two administrators' pages, no identity provider.
SPECIFICATION Spec
CONSTANTS
  MaxId = 2
  Names = {bob}
  Subjects = {}
  SeedName = admin
  Sessions = {s1, s2}
INVARIANTS
  AnAdminRemains
