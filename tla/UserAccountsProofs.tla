-------------------------- MODULE UserAccountsProofs --------------------------
(***************************************************************************)
(* What holds of the Users table for every number of sessions, rows and    *)
(* names.                                                                  *)
(***************************************************************************)
EXTENDS UserAccounts, TLAPS

TableType ==
  /\ nextId \in Nat \ {0}
  /\ Present \subseteq 1 .. (nextId - 1)
  /\ users \in [Present -> User]

SessionType ==
  /\ stage \in [Sessions -> {"idle", "guarding", "saving"}]
  /\ \A s \in Sessions : op[s] \in IF stage[s] = "idle" THEN {NoOp} ELSE Ops
  /\ DOMAIN op = Sessions
  /\ stale \in [Sessions -> BOOLEAN]

LEMMA TypeParts == TypeOK <=> TableType /\ SessionType
BY DEF TypeOK, TableType, SessionType

LEMMA TypeInit == Init => TypeOK
<1> SUFFICES ASSUME Init PROVE TypeOK
  OBVIOUS
<1>1. Present = {1} /\ users \in [Present -> User]
  BY DEF Init, Present, SeedAdmin, User, Usernames, Roles
<1>2. QED
  BY <1>1 DEF Init, TypeOK, Present

(* An operation starts with something to write. *)
LEMMA BeginKeepsType ==
  ASSUME TypeOK, NEW s \in Sessions, NEW w \in Ops, NEW guarding \in BOOLEAN,
         Begin(s, w, guarding)
  PROVE  TypeOK'
BY DEF TypeOK, Begin, table, Present

(* A session that has finished has nothing to write. *)
LEMMA ReleaseKeepsType ==
  ASSUME SessionType, NEW s \in Sessions, Release(s), stale' \in [Sessions -> BOOLEAN]
  PROVE  SessionType'
BY DEF SessionType, Release

(* An added row takes the next id and leaves the others as they are. *)
LEMMA AddedRow ==
  ASSUME TableType, NEW user \in User, Add(user)
  PROVE  /\ TableType'
         /\ nextId \notin Present /\ Present' = Present \union {nextId}
         /\ users'[nextId] = user
         /\ \A u \in Present : users'[u] = users[u]
<1>1. nextId \in Nat \ {0} /\ Present \subseteq 1 .. (nextId - 1)
  BY DEF TableType
<1>2. nextId \notin Present
  BY <1>1
<1>3. Present' = Present \union {nextId} /\ nextId' = nextId + 1
  BY DEF Add, Present
<1>4. Present' \subseteq 1 .. (nextId' - 1) /\ nextId' \in Nat \ {0}
  BY <1>1, <1>3
<1>5. \A u \in Present : users[u] \in User
  BY DEF TableType
<1>6. users'[nextId] = user /\ \A u \in Present : users'[u] = users[u]
  BY <1>2 DEF Add
<1>7. users' \in [Present' -> User]
  BY <1>3, <1>5 DEF Add
<1>8. QED
  BY <1>2, <1>3, <1>4, <1>6, <1>7 DEF TableType

(* What each kind of write does to the rows. *)
LEMMA InsertedRow ==
  ASSUME TableType, NEW w \in Ops, Insert(w)
  PROVE  /\ TableType'
         /\ nextId \notin Present /\ Present' = Present \union {nextId}
         /\ users'[nextId].name = w.name
         /\ \A u \in Present : users'[u] = users[u]
<1>1. w \in [kind : {"insert"}, name : Usernames, role : Roles]
  BY DEF Insert, Ops
<1> DEFINE user == [name |-> w.name, role |-> w.role, enabled |-> TRUE]
<1>2. user \in User
  BY <1>1 DEF User
<1>3. Add(user)
  BY DEF Insert
<1>4. QED
  BY <1>2, <1>3, AddedRow

LEMMA RoleSet ==
  ASSUME TableType, NEW w \in Ops, SetRole(w)
  PROVE  /\ TableType'
         /\ w.id \in Present /\ Present' = Present
         /\ \A u \in Present \ {w.id} : users'[u] = users[u]
         /\ users'[w.id] = [users[w.id] EXCEPT !.role = w.role]
<1>1. w.role \in Roles
  BY DEF SetRole, Ops
<1>2. users[w.id] \in User /\ w.id \in Present
  BY DEF SetRole, TableType
<1>3. [users[w.id] EXCEPT !.role = w.role] \in User
  BY <1>1, <1>2 DEF User
<1>4. QED
  BY <1>2, <1>3 DEF SetRole, TableType, Present

LEMMA FlagSet ==
  ASSUME TableType, NEW w \in Ops, SetFlag(w)
  PROVE  /\ TableType'
         /\ w.id \in Present /\ Present' = Present
         /\ \A u \in Present \ {w.id} : users'[u] = users[u]
         /\ users'[w.id] = [users[w.id] EXCEPT !.enabled = w.enabled]
<1>1. w.enabled \in BOOLEAN
  BY DEF SetFlag, Ops
<1>2. users[w.id] \in User /\ w.id \in Present
  BY DEF SetFlag, TableType
<1>3. [users[w.id] EXCEPT !.enabled = w.enabled] \in User
  BY <1>1, <1>2 DEF User
<1>4. QED
  BY <1>2, <1>3 DEF SetFlag, TableType, Present

LEMMA RowRemoved ==
  ASSUME TableType, NEW w \in Ops, Remove(w)
  PROVE  /\ TableType'
         /\ Present' = Present \ {w.id}
         /\ \A u \in Present' : users'[u] = users[u]
<1>1. Present' = Present \ {w.id} /\ \A u \in Present' : users'[u] = users[u]
  BY DEF Remove, Present
<1>2. \A u \in Present : users[u] \in User
  BY DEF TableType
<1>3. users' \in [Present' -> User]
  BY <1>1, <1>2 DEF Remove
<1>4. QED
  BY <1>1, <1>3 DEF TableType, Remove

LEMMA SaveKeepsTable ==
  ASSUME TableType, NEW w \in Ops, Insert(w) \/ SetRole(w) \/ SetFlag(w) \/ Remove(w)
  PROVE  TableType'
BY InsertedRow, RoleSet, FlagSet, RowRemoved

LEMMA TypeStep == TypeOK /\ [Next]_vars => TypeOK'
<1> SUFFICES ASSUME TypeOK, [Next]_vars PROVE TypeOK'
  OBVIOUS
<1>1. TableType /\ SessionType
  BY TypeParts
<1>2. CASE EnsureUsersTableAndSeed
  <2>1. SessionType'
    BY <1>2 DEF EnsureUsersTableAndSeed, SessionType
  <2>2. TableType'
    <3>1. SeedAdmin \in User
      BY DEF SeedAdmin, User, Usernames, Roles
    <3>2. CASE Add(SeedAdmin)
      BY <1>1, <3>1, <3>2, AddedRow
    <3>3. CASE UNCHANGED table
      BY <1>1, <3>3 DEF TableType, Present, table
    <3>4. QED
      BY <1>2, <3>2, <3>3 DEF EnsureUsersTableAndSeed
  <2>3. QED
    BY <2>1, <2>2 DEF TypeOK, TableType, SessionType
<1>3. ASSUME NEW s \in Sessions, SessionStep(s) PROVE TypeOK'
  <2>1. CASE CreateAsync(s)
    <3>1. PICK n \in Names, r \in Roles :
            Begin(s, [kind |-> "insert", name |-> n, role |-> r], FALSE)
      BY <2>1 DEF CreateAsync
    <3>2. QED
      BY <3>1, BeginKeepsType DEF Ops, Usernames
  <2>2. CASE UpdateAsync(s)
    <3>1. PICK u \in Present, r \in Roles :
            Begin(s, [kind |-> "role", id |-> u, role |-> r], users[u].role = "Admin")
      BY <2>2 DEF UpdateAsync
    <3>2. u \in Nat
      BY <1>1 DEF TableType
    <3>3. QED
      BY <3>1, <3>2, BeginKeepsType DEF Ops
  <2>3. CASE SetEnabledAsync(s)
    <3>1. PICK u \in Present, b \in BOOLEAN :
            Begin(s, [kind |-> "enabled", id |-> u, enabled |-> b],
                  ~b /\ users[u].role = "Admin")
      BY <2>3 DEF SetEnabledAsync
    <3>2. u \in Nat
      BY <1>1 DEF TableType
    <3>3. QED
      BY <3>1, <3>2, BeginKeepsType DEF Ops
  <2>4. CASE DeleteAsync(s)
    <3>1. PICK u \in Present :
            Begin(s, [kind |-> "remove", id |-> u], users[u].role = "Admin")
      BY <2>4 DEF DeleteAsync
    <3>2. u \in Nat
      BY <1>1 DEF TableType
    <3>3. QED
      BY <3>1, <3>2, BeginKeepsType DEF Ops
  <2>5. CASE EnsureExternalUserAsync(s)
    <3>1. PICK n \in Subjects, r \in Roles :
            \/ \E u \in Present : Begin(s, [kind |-> "grant", id |-> u, role |-> r], FALSE)
            \/ Begin(s, [kind |-> "insert", name |-> n, role |-> r], FALSE)
      BY <2>5 DEF EnsureExternalUserAsync
    <3>2. \A u \in Present : u \in Nat
      BY <1>1 DEF TableType
    <3>3. QED
      BY <3>1, <3>2, BeginKeepsType DEF Ops, Usernames
  <2>6. CASE GuardLastAdminAsync(s)
    BY <2>6 DEF TypeOK, GuardLastAdminAsync, table, Present
  <2>7. CASE Throw(s)
    <3>1. SessionType'
      BY <1>1, <2>7, ReleaseKeepsType DEF Throw, SessionType
    <3>2. TableType'
      BY <1>1, <2>7 DEF Throw, TableType, table, Present
    <3>3. QED
      BY <3>1, <3>2 DEF TypeOK, TableType, SessionType
  <2>8. CASE SaveChangesAsync(s)
    <3>1. op[s] \in Ops
      BY <1>1, <2>8 DEF SaveChangesAsync, SessionType
    <3>2. TableType'
      BY <1>1, <2>8, <3>1, SaveKeepsTable DEF SaveChangesAsync
    <3>3. stale' \in [Sessions -> BOOLEAN]
      BY <2>8, Zenon DEF SaveChangesAsync
    <3>4. SessionType'
      BY <1>1, <2>8, <3>3, ReleaseKeepsType DEF SaveChangesAsync
    <3>5. QED
      BY <3>2, <3>4 DEF TypeOK, TableType, SessionType
  <2>9. QED
    BY <1>3, <2>1, <2>2, <2>3, <2>4, <2>5, <2>6, <2>7, <2>8 DEF SessionStep
<1>4. CASE UNCHANGED vars
  BY <1>4 DEF TypeOK, vars, table, Present
<1>5. QED
  BY <1>2, <1>3, <1>4 DEF Next

(* Every row has its type and an id the sequence has passed, and every session has
   something to write exactly while its operation is under way. *)
THEOREM TypeCorrect == Spec => []TypeOK
<1>1. QED
  BY TypeInit, TypeStep, PTL DEF Spec

-----------------------------------------------------------------------------
LEMMA UniqueStep ==
  ASSUME TypeOK, UsernamesAreUnique, [Next]_vars
  PROVE  UsernamesAreUnique'
<1>1. TableType /\ SessionType
  BY TypeParts
<1>2. ASSUME UNCHANGED table PROVE UsernamesAreUnique'
  BY <1>2 DEF UsernamesAreUnique, table, Present
<1>3. CASE EnsureUsersTableAndSeed
  <2>1. CASE UNCHANGED table
    BY <1>2, <2>1
  <2>2. CASE Present = {} /\ Add(SeedAdmin)
    <3>1. Present' = {nextId}
      BY <2>2 DEF Add, Present
    <3>2. QED
      BY <3>1 DEF UsernamesAreUnique
  <2>3. QED
    BY <1>3, <2>1, <2>2 DEF EnsureUsersTableAndSeed
<1>4. ASSUME NEW s \in Sessions, SessionStep(s) PROVE UsernamesAreUnique'
  <2>1. CASE SaveChangesAsync(s)
    <3>1. op[s] \in Ops
      BY <1>1, <2>1 DEF SaveChangesAsync, SessionType
    <3>2. CASE Insert(op[s])
      <4>1. \A u \in Present : users[u].name # op[s].name
        BY <3>2 DEF Insert, IndexAllows, NameIsFree
      <4>2. QED
        BY <1>1, <3>1, <3>2, <4>1, InsertedRow DEF UsernamesAreUnique
    <3>3. CASE SetRole(op[s])
      <4>1. \A u \in Present : users[u] \in User
        BY <1>1 DEF TableType
      <4>2. users'[op[s].id].name = users[op[s].id].name
        BY <1>1, <3>1, <3>3, <4>1, RoleSet DEF User
      <4>3. Present' = Present /\ \A u \in Present : users'[u].name = users[u].name
        BY <1>1, <3>1, <3>3, <4>2, RoleSet
      <4>4. QED
        BY <4>3 DEF UsernamesAreUnique
    <3>4. CASE SetFlag(op[s])
      <4>1. \A u \in Present : users[u] \in User
        BY <1>1 DEF TableType
      <4>2. users'[op[s].id].name = users[op[s].id].name
        BY <1>1, <3>1, <3>4, <4>1, FlagSet DEF User
      <4>3. Present' = Present /\ \A u \in Present : users'[u].name = users[u].name
        BY <1>1, <3>1, <3>4, <4>2, FlagSet
      <4>4. QED
        BY <4>3 DEF UsernamesAreUnique
    <3>5. CASE Remove(op[s])
      BY <1>1, <3>1, <3>5, RowRemoved DEF UsernamesAreUnique
    <3>6. QED
      BY <2>1, <3>2, <3>3, <3>4, <3>5 DEF SaveChangesAsync
  <2>2. CASE UNCHANGED table
    BY <1>2, <2>2
  <2>3. QED
    BY <1>4, <2>1, <2>2 DEF SessionStep, CreateAsync, UpdateAsync, SetEnabledAsync,
       DeleteAsync, EnsureExternalUserAsync, GuardLastAdminAsync, Throw, Begin
<1>5. CASE UNCHANGED vars
  BY <1>2, <1>5 DEF vars
<1>6. QED
  BY <1>3, <1>4, <1>5 DEF Next

(* Whatever the sessions interleave, the index keeps usernames unique. *)
THEOREM NamesAreUnique == Spec => []UsernamesAreUnique
<1>1. Init => UsernamesAreUnique
  BY DEF Init, UsernamesAreUnique, Present
<1>2. QED
  BY <1>1, TypeInit, TypeStep, UniqueStep, PTL DEF Spec

-----------------------------------------------------------------------------
(* A write that takes the administrator it is about out of the enabled ones. *)
Removing(w) ==
  \/ w.kind = "role" /\ w.role # "Admin"
  \/ w.kind = "enabled" /\ ~w.enabled
  \/ w.kind = "remove"

(* What the guard found is still so as long as nobody else has saved. *)
GuardHolds ==
  \A s \in Sessions :
    stage[s] = "saving" /\ ~stale[s] /\ Removing(op[s])
      => users[op[s].id].role # "Admin" \/ EnabledAdmins \ {op[s].id} # {}

AccountInv == TypeOK /\ GuardHolds

LEMMA GuardInit == Init => GuardHolds
BY DEF Init, GuardHolds

(* An operation that goes straight to its save takes no administrator out. *)
LEMMA BeginKeepsGuard ==
  ASSUME AccountInv, NEW s \in Sessions, NEW w \in Ops, NEW guarding \in BOOLEAN,
         Begin(s, w, guarding),
         ~guarding /\ Removing(w) => users[w.id].role # "Admin"
  PROVE  GuardHolds'
<1>1. /\ stage \in [Sessions -> {"idle", "guarding", "saving"}]
      /\ DOMAIN op = Sessions
  BY DEF AccountInv, TypeOK
<1>2. UNCHANGED <<users, stale>>
  BY DEF Begin, table
<1>3. op'[s] = w /\ stage'[s] = IF guarding THEN "guarding" ELSE "saving"
  BY <1>1 DEF Begin, AccountInv, TypeOK
<1>4. \A t \in Sessions \ {s} : op'[t] = op[t] /\ stage'[t] = stage[t]
  BY <1>1 DEF Begin
<1>5. ASSUME NEW t \in Sessions, stage'[t] = "saving", ~stale'[t], Removing(op'[t])
      PROVE  users'[op'[t].id].role # "Admin" \/ EnabledAdmins' \ {op'[t].id} # {}
  <2>1. CASE t = s
    BY <1>2, <1>3, <1>5, <2>1
  <2>2. CASE t # s
    <3>1. EnabledAdmins' = EnabledAdmins
      BY <1>2 DEF EnabledAdmins, Present
    <3>2. QED
      BY <1>2, <1>4, <1>5, <2>2, <3>1 DEF AccountInv, GuardHolds
  <2>3. QED
    BY <2>1, <2>2
<1>6. QED
  BY <1>5 DEF GuardHolds, Removing


LEMMA GuardStep == AccountInv /\ [Next]_vars => GuardHolds'
<1> SUFFICES ASSUME AccountInv, [Next]_vars PROVE GuardHolds'
  OBVIOUS
<1>1. TypeOK /\ TableType /\ SessionType /\ GuardHolds
  BY TypeParts DEF AccountInv
<1>2. CASE EnsureUsersTableAndSeed
  BY <1>2 DEF EnsureUsersTableAndSeed, GuardHolds
<1>3. ASSUME NEW s \in Sessions, SessionStep(s) PROVE GuardHolds'
  <2>0. \A u \in Present : u \in Nat
    BY <1>1 DEF TableType
  <2>1. CASE CreateAsync(s)
    <3>1. PICK n \in Names, r \in Roles :
            Begin(s, [kind |-> "insert", name |-> n, role |-> r], FALSE)
      BY <2>1 DEF CreateAsync
    <3>2. QED
      BY <3>1, BeginKeepsGuard DEF Ops, Usernames, Removing
  <2>2. CASE UpdateAsync(s)
    <3>1. PICK u \in Present, r \in Roles :
            Begin(s, [kind |-> "role", id |-> u, role |-> r], users[u].role = "Admin")
      BY <2>2 DEF UpdateAsync
    <3>2. QED
      BY <2>0, <3>1, BeginKeepsGuard DEF Ops
  <2>3. CASE SetEnabledAsync(s)
    <3>1. PICK u \in Present, b \in BOOLEAN :
            Begin(s, [kind |-> "enabled", id |-> u, enabled |-> b],
                  ~b /\ users[u].role = "Admin")
      BY <2>3 DEF SetEnabledAsync
    <3> DEFINE w == [kind |-> "enabled", id |-> u, enabled |-> b]
    <3>2. w \in Ops
      BY <2>0, <3>1 DEF Ops
    <3>3. Removing(w) => ~b
      BY DEF Removing
    <3>4. QED
      BY <3>1, <3>2, <3>3, BeginKeepsGuard
  <2>4. CASE DeleteAsync(s)
    <3>1. PICK u \in Present :
            Begin(s, [kind |-> "remove", id |-> u], users[u].role = "Admin")
      BY <2>4 DEF DeleteAsync
    <3>2. QED
      BY <2>0, <3>1, BeginKeepsGuard DEF Ops
  <2>5. CASE EnsureExternalUserAsync(s)
    <3>1. PICK n \in Subjects, r \in Roles :
            \/ \E u \in Present : Begin(s, [kind |-> "grant", id |-> u, role |-> r], FALSE)
            \/ Begin(s, [kind |-> "insert", name |-> n, role |-> r], FALSE)
      BY <2>5 DEF EnsureExternalUserAsync
    <3>2. QED
      BY <2>0, <3>1, BeginKeepsGuard DEF Ops, Usernames, Removing
  <2>6. CASE GuardLastAdminAsync(s)
    <3>1. UNCHANGED <<users, op, stale>> /\ EnabledAdmins' = EnabledAdmins
      BY <2>6 DEF GuardLastAdminAsync, table, EnabledAdmins, Present
    <3>2. EnabledAdmins \ {op[s].id} # {}
      BY <2>6 DEF GuardLastAdminAsync, OtherAdmins
    <3>3. \A t \in Sessions \ {s} : stage'[t] = stage[t]
      BY <1>1, <2>6 DEF GuardLastAdminAsync, SessionType
    <3>4. QED
      BY <1>1, <3>1, <3>2, <3>3 DEF GuardHolds, Removing
  <2>7. CASE Throw(s)
    <3>1. UNCHANGED users /\ EnabledAdmins' = EnabledAdmins
      BY <2>7 DEF Throw, table, EnabledAdmins, Present
    <3>2. stage'[s] = "idle"
      BY <1>1, <2>7 DEF Throw, Release, SessionType
    <3>3. \A t \in Sessions \ {s} :
            stage'[t] = stage[t] /\ op'[t] = op[t] /\ stale'[t] = stale[t]
      BY <1>1, <2>7 DEF Throw, Release, SessionType
    <3>4. QED
      BY <1>1, <3>1, <3>2, <3>3 DEF GuardHolds, Removing
  <2>8. CASE SaveChangesAsync(s)
    <3>1. stage'[s] = "idle"
      BY <1>1, <2>8 DEF SaveChangesAsync, Release, SessionType
    <3>2. \A t \in Sessions \ {s} : stage'[t] = stage[t]
      BY <1>1, <2>8 DEF SaveChangesAsync, Release, SessionType
    <3>3. \A t \in Sessions \ {s} : stage[t] = "saving" => stale'[t]
      BY <2>8 DEF SaveChangesAsync
    <3>4. QED
      BY <3>1, <3>2, <3>3 DEF GuardHolds
  <2>9. QED
    BY <1>3, <2>1, <2>2, <2>3, <2>4, <2>5, <2>6, <2>7, <2>8 DEF SessionStep
<1>4. CASE UNCHANGED vars
  BY <1>1, <1>4 DEF GuardHolds, Removing, vars, table, EnabledAdmins, Present
<1>5. QED
  BY <1>2, <1>3, <1>4 DEF Next

(* A row a write leaves alone is the administrator it was. *)
LEMMA SaveKeepsAnAdmin ==
  ASSUME AccountInv, NEW s \in Sessions, SaveChangesAsync(s), ~stale[s],
         op[s].kind # "grant", EnabledAdmins # {}
  PROVE  EnabledAdmins' # {}
<1>1. TableType /\ SessionType /\ GuardHolds
  BY TypeParts DEF AccountInv
<1>2. op[s] \in Ops
  BY <1>1 DEF SaveChangesAsync, SessionType
<1>3. \A u \in Present : users[u] \in User
  BY <1>1 DEF TableType
<1>4. ASSUME NEW u \in EnabledAdmins, u \in Present', users'[u] = users[u]
      PROVE  EnabledAdmins' # {}
  BY <1>4 DEF EnabledAdmins
<1>5. Removing(op[s]) => users[op[s].id].role # "Admin" \/ EnabledAdmins \ {op[s].id} # {}
  BY <1>1 DEF GuardHolds, SaveChangesAsync
<1>6. PICK a \in EnabledAdmins : TRUE
  OBVIOUS
<1>7. CASE Insert(op[s])
  BY <1>1, <1>2, <1>4, <1>6, <1>7, InsertedRow DEF EnabledAdmins
<1>8. ASSUME Removing(op[s]),
             \A u \in Present \ {op[s].id} : u \in Present' /\ users'[u] = users[u]
      PROVE  EnabledAdmins' # {}
  <2>1. PICK b \in EnabledAdmins : b # op[s].id
    BY <1>5, <1>6, <1>8 DEF EnabledAdmins
  <2>2. QED
    BY <1>4, <1>8, <2>1 DEF EnabledAdmins
<1>9. CASE SetRole(op[s])
  <2>1. CASE Removing(op[s])
    BY <1>1, <1>2, <1>8, <1>9, <2>1, RoleSet
  <2>2. CASE ~Removing(op[s])
    <3>1. op[s].role = "Admin"
      BY <1>9, <2>2 DEF SetRole, SaveChangesAsync, Removing
    <3>2. CASE a # op[s].id
      BY <1>1, <1>2, <1>4, <1>6, <1>9, <3>2, RoleSet DEF EnabledAdmins
    <3>3. CASE a = op[s].id
      <4>1. users[a] \in User /\ users'[a] = [users[a] EXCEPT !.role = "Admin"]
        BY <1>1, <1>2, <1>3, <1>9, <3>1, <3>3, RoleSet
      <4>2. users'[a] = users[a]
        BY <1>6, <4>1 DEF User, EnabledAdmins
      <4>3. QED
        BY <1>1, <1>2, <1>4, <1>6, <1>9, <4>2, RoleSet DEF EnabledAdmins
    <3>4. QED
      BY <3>2, <3>3
  <2>3. QED
    BY <2>1, <2>2
<1>10. CASE SetFlag(op[s])
  <2>1. CASE Removing(op[s])
    BY <1>1, <1>2, <1>8, <1>10, <2>1, FlagSet
  <2>2. CASE ~Removing(op[s])
    <3>1. op[s].enabled
      BY <1>10, <2>2 DEF SetFlag, Removing
    <3>2. CASE a # op[s].id
      BY <1>1, <1>2, <1>4, <1>6, <1>10, <3>2, FlagSet DEF EnabledAdmins
    <3>3. CASE a = op[s].id
      <4>1. users[a] \in User /\ users'[a] = [users[a] EXCEPT !.enabled = op[s].enabled]
        BY <1>1, <1>2, <1>3, <1>10, <3>3, FlagSet
      <4>2. users'[a].role = "Admin"
        BY <1>6, <4>1 DEF User, EnabledAdmins
      <4>3. users'[a].enabled
        BY <3>1, <4>1 DEF User
      <4>4. a \in Present'
        BY <1>1, <1>2, <1>6, <1>10, FlagSet DEF EnabledAdmins
      <4>5. QED
        BY <4>2, <4>3, <4>4 DEF EnabledAdmins
    <3>4. QED
      BY <3>2, <3>3
  <2>3. QED
    BY <2>1, <2>2
<1>11. CASE Remove(op[s])
  <2>1. Removing(op[s])
    BY <1>11 DEF Remove, Removing
  <2>2. QED
    BY <1>1, <1>2, <1>8, <1>11, <2>1, RowRemoved
<1>12. QED
  BY <1>7, <1>9, <1>10, <1>11 DEF SaveChangesAsync

(* Nobody but the identity provider, or two operations that overlap, takes the last
   enabled administrator away. *)
THEOREM SequentialSavesKeepAnAdmin == Spec => FreshSavesKeepAnAdmin
<1>1. Init => AccountInv
  BY TypeInit, GuardInit DEF AccountInv
<1>2. AccountInv /\ [Next]_vars => AccountInv'
  BY TypeStep, GuardStep DEF AccountInv
<1>3. AccountInv =>
        [\A s \in Sessions :
           SaveChangesAsync(s) /\ op[s].kind # "grant" /\ ~stale[s] /\ EnabledAdmins # {}
             => EnabledAdmins' # {}]_vars
  BY SaveKeepsAnAdmin
<1>4. QED
  BY <1>1, <1>2, <1>3, PTL DEF Spec, FreshSavesKeepAnAdmin

-----------------------------------------------------------------------------
(* Whether the table is touched at all: only a save, and the seeding of an empty one. *)
LEMMA OnlySavesWrite ==
  ASSUME [Next]_vars, \A s \in Sessions : ~SaveChangesAsync(s)
  PROVE  UNCHANGED table \/ (Present = {} /\ Add(SeedAdmin))
<1>1. ASSUME NEW s \in Sessions, SessionStep(s) PROVE UNCHANGED table
  BY <1>1 DEF SessionStep, CreateAsync, UpdateAsync, SetEnabledAsync, DeleteAsync,
     EnsureExternalUserAsync, GuardLastAdminAsync, Throw, Begin
<1>2. CASE EnsureUsersTableAndSeed
  BY <1>2 DEF EnsureUsersTableAndSeed
<1>3. CASE UNCHANGED vars
  BY <1>3 DEF vars
<1>4. QED
  BY <1>1, <1>2, <1>3 DEF Next

(* If every operation saved on what it had read, and no sign-in took a role away, an
   enabled administrator would always remain: AnAdminRemains is lost to nothing else. *)
THEOREM AnAdminRemainsOnFreshSaves ==
  Spec /\ [][\A s \in Sessions :
               SaveChangesAsync(s) => ~stale[s] /\ op[s].kind # "grant"]_vars
    => []AnAdminRemains
<1> DEFINE Fresh == \A s \in Sessions :
                      SaveChangesAsync(s) => ~stale[s] /\ op[s].kind # "grant"
<1>1. Init => AnAdminRemains
  BY DEF Init, AnAdminRemains, EnabledAdmins, Present, SeedAdmin
<1>2. AccountInv /\ AnAdminRemains /\ [Next]_vars /\ [Fresh]_vars => AnAdminRemains'
  <2> SUFFICES ASSUME AccountInv, AnAdminRemains, [Next]_vars, [Fresh]_vars
               PROVE  AnAdminRemains'
    OBVIOUS
  <2>1. ASSUME UNCHANGED table PROVE AnAdminRemains'
    BY <2>1 DEF AnAdminRemains, EnabledAdmins, Present, table
  <2>2. ASSUME NEW s \in Sessions, SaveChangesAsync(s), Fresh PROVE AnAdminRemains'
    BY <2>2, SaveKeepsAnAdmin DEF AnAdminRemains
  <2>3. Present # {}
    BY DEF AnAdminRemains, EnabledAdmins
  <2>4. UNCHANGED vars => UNCHANGED table
    BY DEF vars
  <2>5. QED
    BY <2>1, <2>2, <2>3, <2>4, OnlySavesWrite
<1>3. Init => AccountInv
  BY TypeInit, GuardInit DEF AccountInv
<1>4. AccountInv /\ [Next]_vars => AccountInv'
  BY TypeStep, GuardStep DEF AccountInv
<1>5. QED
  BY <1>1, <1>2, <1>3, <1>4, PTL DEF Spec

-----------------------------------------------------------------------------
(* A step keeps the names of the rows it keeps, and a row it adds has the next id. *)
RowsKept == \A u \in Present \intersect Present' : users'[u].name = users[u].name
RowsAdded == \A u \in Present' \ Present : u = nextId /\ nextId' = nextId + 1

LEMMA AddMoves ==
  ASSUME TableType, NEW user \in User, Add(user)
  PROVE  RowsKept /\ RowsAdded
<1>1. RowsAdded
  BY AddedRow DEF RowsAdded, Add
<1>2. RowsKept
  BY AddedRow DEF RowsKept
<1>3. QED
  BY <1>1, <1>2

LEMMA TableMoves ==
  ASSUME TypeOK, [Next]_vars
  PROVE  RowsKept /\ RowsAdded /\ nextId' >= nextId
<1>1. TableType /\ SessionType /\ nextId \in Nat
  BY TypeParts DEF TableType
<1>2. ASSUME UNCHANGED table PROVE RowsKept /\ RowsAdded /\ nextId' >= nextId
  BY <1>1, <1>2 DEF RowsKept, RowsAdded, table, Present
<1>3. CASE Add(SeedAdmin)
  <2>1. SeedAdmin \in User
    BY DEF SeedAdmin, User, Usernames, Roles
  <2>2. QED
    BY <1>1, <1>3, <2>1, AddMoves DEF Add
<1>4. ASSUME NEW s \in Sessions, SaveChangesAsync(s)
      PROVE  RowsKept /\ RowsAdded /\ nextId' >= nextId
  <2>1. op[s] \in Ops
    BY <1>1, <1>4 DEF SaveChangesAsync, SessionType
  <2>2. \A u \in Present : users[u] \in User
    BY <1>1 DEF TableType
  <2>3. CASE Insert(op[s])
    <3>1. [name |-> op[s].name, role |-> op[s].role, enabled |-> TRUE] \in User
      BY <2>1, <2>3 DEF Insert, Ops, User
    <3>2. \E user \in User : Add(user)
      BY <2>3, <3>1 DEF Insert
    <3>3. RowsKept /\ RowsAdded
      BY <1>1, <3>2, AddMoves
    <3>4. nextId' = nextId + 1
      BY <3>2 DEF Add
    <3>5. QED
      BY <1>1, <3>3, <3>4
  <2>4. CASE SetRole(op[s])
    <3>1. users'[op[s].id].name = users[op[s].id].name
      BY <1>1, <2>1, <2>2, <2>4, RoleSet DEF User
    <3>2. Present' = Present /\ \A u \in Present : users'[u].name = users[u].name
      BY <1>1, <2>1, <2>4, <3>1, RoleSet
    <3>3. QED
      BY <1>1, <2>4, <3>2 DEF SetRole, RowsKept, RowsAdded
  <2>5. CASE SetFlag(op[s])
    <3>1. users'[op[s].id].name = users[op[s].id].name
      BY <1>1, <2>1, <2>2, <2>5, FlagSet DEF User
    <3>2. Present' = Present /\ \A u \in Present : users'[u].name = users[u].name
      BY <1>1, <2>1, <2>5, <3>1, FlagSet
    <3>3. QED
      BY <1>1, <2>5, <3>2 DEF SetFlag, RowsKept, RowsAdded
  <2>6. CASE Remove(op[s])
    BY <1>1, <2>1, <2>6, RowRemoved DEF Remove, RowsKept, RowsAdded
  <2>7. QED
    BY <1>4, <2>3, <2>4, <2>5, <2>6 DEF SaveChangesAsync
<1>5. QED
  BY <1>2, <1>3, <1>4, OnlySavesWrite

(* A deleted account's id is never given out again (the AUTOINCREMENT of
   AuthBootstrapper), so a session cookie that outlives its account, which
   CookieRevalidatingAuthStateProvider looks up by id, is never taken for another's. *)
THEOREM DeletedIdsStayDeleted ==
  ASSUME NEW u \in Nat
  PROVE  Spec => [](u < nextId /\ u \notin Present => [](u \notin Present))
<1> DEFINE Gone == u < nextId /\ u \notin Present
           There == u \in Present
<1>1. TypeOK /\ [Next]_vars /\ Gone => Gone'
  <2> SUFFICES ASSUME TypeOK, [Next]_vars, Gone PROVE Gone'
    OBVIOUS
  <2>1. nextId \in Nat /\ nextId' \in Nat
    BY TypeStep DEF TypeOK
  <2>2. QED
    BY <2>1, TableMoves DEF RowsAdded
<1>2. Gone => u \notin Present
  OBVIOUS
<1>3. QED
  BY <1>1, <1>2, TypeInit, TypeStep, PTL DEF Spec

(* An id is the same user for as long as it is in the table. *)
THEOREM IdsKeepTheirNames ==
  ASSUME NEW u \in Nat, NEW n \in Usernames
  PROVE  Spec => [](u \in Present /\ users[u].name = n
                      => [](u \in Present => users[u].name = n))
<1> DEFINE Named == u \in Present /\ users[u].name = n
           Gone == u < nextId /\ u \notin Present
           Fits == u \in Present => users[u].name = n
<1>1. TypeOK /\ [Next]_vars /\ (Named \/ Gone) => Named' \/ Gone'
  <2> SUFFICES ASSUME TypeOK, [Next]_vars, Named \/ Gone PROVE Named' \/ Gone'
    OBVIOUS
  <2>1. /\ nextId \in Nat /\ nextId' \in Nat
        /\ Present \subseteq 1 .. (nextId - 1)
    BY TypeStep DEF TypeOK
  <2>2. CASE Gone
    BY <2>1, <2>2, TableMoves DEF RowsAdded
  <2>3. CASE Named
    BY <2>1, <2>3, TableMoves DEF RowsKept
  <2>4. QED
    BY <2>2, <2>3
<1>2. Named \/ Gone => Fits
  OBVIOUS
<1>3. QED
  BY <1>1, <1>2, TypeInit, TypeStep, PTL DEF Spec

=============================================================================
