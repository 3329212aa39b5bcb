----------------------------- MODULE UserAccounts -----------------------------
(***************************************************************************)
(* The Users table under the operations of UserAuthService, called at the  *)
(* same time from several administrators' pages and from OIDC sign-ins.    *)
(*                                                                         *)
(* Every operation reads the row it works on, some then count the other    *)
(* enabled administrators, and all end with a SaveChangesAsync that writes *)
(* the columns the operation changed: three statements, between which the  *)
(* other sessions' saves can come.  Passwords, contact details and the     *)
(* notification preference are left out; an operation that changes nothing *)
(* else is no step.                                                        *)
(***************************************************************************)
EXTENDS Naturals

CONSTANTS
  MaxId,      \* bound on the rows ever inserted
  Names,      \* usernames an administrator may create
  Subjects,   \* usernames of OIDC users, their "sub" claim
  SeedName,   \* Auth:DefaultAdmin:Username
  Sessions    \* pages and sign-ins that work on the table

ASSUME MaxIdAssumption == MaxId \in Nat

Roles == {"Admin", "Viewer"}
Usernames == Names \union Subjects \union {SeedName}
User == [name : Usernames, role : Roles, enabled : BOOLEAN]

VARIABLES
  users,     \* the table: users[id] for every id in it
  nextId,    \* the AUTOINCREMENT sequence: an id is never used again
  op,        \* op[s]: what session s is about to write
  stage,     \* stage[s]: "idle", "guarding" before the count, "saving" after it
  stale      \* stale[s]: another session saved since s read its row

table == <<users, nextId>>
vars == <<table, op, stage, stale>>

Present == DOMAIN users

(* What SaveChangesAsync will write.  "grant" is the identity provider's role,
   "role" an administrator's. *)
NoOp == [kind |-> "none"]
Ops ==
       [kind : {"insert"}, name : Usernames, role : Roles]
  \cup [kind : {"role", "grant"}, id : Nat, role : Roles]
  \cup [kind : {"enabled"}, id : Nat, enabled : BOOLEAN]
  \cup [kind : {"remove"}, id : Nat]

(* A row in the table has an id the sequence has passed, and a session has something
   to write exactly while its operation is under way. *)
TypeOK ==
  /\ nextId \in Nat \ {0}
  /\ Present \subseteq 1 .. (nextId - 1)
  /\ users \in [Present -> User]
  /\ stage \in [Sessions -> {"idle", "guarding", "saving"}]
  /\ \A s \in Sessions : op[s] \in IF stage[s] = "idle" THEN {NoOp} ELSE Ops
  /\ DOMAIN op = Sessions
  /\ stale \in [Sessions -> BOOLEAN]

EnabledAdmins == {u \in Present : users[u].role = "Admin" /\ users[u].enabled}

(* The web application has started on an empty database and seeded the default
   administrator. *)
SeedAdmin == [name |-> SeedName, role |-> "Admin", enabled |-> TRUE]

Init ==
  /\ users = [u \in {1} |-> SeedAdmin]
  /\ nextId = 2
  /\ op = [s \in Sessions |-> NoOp]
  /\ stage = [s \in Sessions |-> "idle"]
  /\ stale = [s \in Sessions |-> FALSE]

-----------------------------------------------------------------------------
(* The first statement of an operation: the row is read. *)

NameIsFree(n) == \A u \in Present : users[u].name # n

Begin(s, write, guarding) ==
  /\ stage[s] = "idle"
  /\ op' = [op EXCEPT ![s] = write]
  /\ stage' = [stage EXCEPT ![s] = IF guarding THEN "guarding" ELSE "saving"]
  /\ UNCHANGED <<table, stale>>

CreateAsync(s) ==
  \E n \in Names, r \in Roles :
    /\ NameIsFree(n)
    /\ Begin(s, [kind |-> "insert", name |-> n, role |-> r], FALSE)

UpdateAsync(s) ==
  \E u \in Present, r \in Roles :
    /\ r # users[u].role
    /\ Begin(s, [kind |-> "role", id |-> u, role |-> r], users[u].role = "Admin")

SetEnabledAsync(s) ==
  \E u \in Present, b \in BOOLEAN :
    /\ b # users[u].enabled
    /\ Begin(s, [kind |-> "enabled", id |-> u, enabled |-> b],
             ~b /\ users[u].role = "Admin")

DeleteAsync(s) ==
  \E u \in Present :
    Begin(s, [kind |-> "remove", id |-> u], users[u].role = "Admin")

(* The role the identity provider grants wins at every sign-in, unguarded. *)
EnsureExternalUserAsync(s) ==
  \E n \in Subjects, r \in Roles :
    \/ \E u \in Present :
         /\ users[u].name = n /\ users[u].role # r
         /\ Begin(s, [kind |-> "grant", id |-> u, role |-> r], FALSE)
    \/ /\ NameIsFree(n)
       /\ Begin(s, [kind |-> "insert", name |-> n, role |-> r], FALSE)

-----------------------------------------------------------------------------
(* The second: the guard counts the other enabled administrators. *)

OtherAdminsCountSelf(u) == EnabledAdmins
OtherAdmins(u) == EnabledAdmins \ {u}

GuardLastAdminAsync(s) ==
  /\ stage[s] = "guarding"
  /\ OtherAdmins(op[s].id) # {}
  /\ stage' = [stage EXCEPT ![s] = "saving"]
  /\ UNCHANGED <<table, op, stale>>

(* The operation is over and its context disposed of. *)
ReleaseStage(s) ==
  /\ stage' = [stage EXCEPT ![s] = "saving"]
  /\ op' = [op EXCEPT ![s] = NoOp]
Release(s) ==
  /\ stage' = [stage EXCEPT ![s] = "idle"]
  /\ op' = [op EXCEPT ![s] = NoOp]

(* The guard throws, the row is not there any more, the unique index refuses the
   name, or the database is locked: nothing is written. *)
Throw(s) ==
  /\ stage[s] # "idle"
  /\ Release(s)
  /\ stale' = [stale EXCEPT ![s] = FALSE]
  /\ UNCHANGED table

-----------------------------------------------------------------------------
(* The third: what the operation changed is written.  The unique index looks at the
   name again. *)

IndexAllowsAll(n) == TRUE
IndexAllows(n) == NameIsFree(n)

Add(user) ==
  /\ nextId <= MaxId
  /\ users' = [u \in Present \union {nextId} |->
                 IF u = nextId THEN user ELSE users[u]]
  /\ nextId' = nextId + 1

Insert(w) ==
  /\ w.kind = "insert" /\ IndexAllows(w.name)
  /\ Add([name |-> w.name, role |-> w.role, enabled |-> TRUE])

SetRole(w) ==
  /\ w.kind \in {"role", "grant"} /\ w.id \in Present
  /\ users' = [users EXCEPT ![w.id].role = w.role]
  /\ nextId' = nextId

SetFlag(w) ==
  /\ w.kind = "enabled" /\ w.id \in Present
  /\ users' = [users EXCEPT ![w.id].enabled = w.enabled]
  /\ nextId' = nextId

Remove(w) ==
  /\ w.kind = "remove" /\ w.id \in Present
  /\ users' = [u \in Present \ {w.id} |-> users[u]]
  /\ nextId' = nextId

SaveChangesAsync(s) ==
  /\ stage[s] = "saving"
  /\ Insert(op[s]) \/ SetRole(op[s]) \/ SetFlag(op[s]) \/ Remove(op[s])
  /\ Release(s)
  /\ stale' = [t \in Sessions |-> t # s /\ stage[t] # "idle"]

(* A new web process, in which no operation is under way; it seeds the default
   administrator only into an empty table. *)
EnsureUsersTableAndSeed ==
  /\ IF Present = {} THEN Add(SeedAdmin) ELSE UNCHANGED table
  /\ op' = [s \in Sessions |-> NoOp]
  /\ stage' = [s \in Sessions |-> "idle"]
  /\ stale' = [s \in Sessions |-> FALSE]

-----------------------------------------------------------------------------
SessionStep(s) ==
  \/ CreateAsync(s)
  \/ UpdateAsync(s)
  \/ SetEnabledAsync(s)
  \/ DeleteAsync(s)
  \/ EnsureExternalUserAsync(s)
  \/ GuardLastAdminAsync(s)
  \/ Throw(s)
  \/ SaveChangesAsync(s)

Next == EnsureUsersTableAndSeed \/ \E s \in Sessions : SessionStep(s)

Spec == Init /\ [][Next]_vars

-----------------------------------------------------------------------------
(* A username names one account (FirstOrDefaultAsync by name, in
   EnsureExternalUserAsync and at sign-in, counts on it), although every operation
   that adds one looks for the name in one statement and inserts it in another. *)
UsernamesAreUnique ==
  \A u, v \in Present : users[u].name = users[v].name => u = v

(* The last enabled administrator is lost only to the identity provider or to a
   guard whose answer another session's save had made stale: no sequence of
   operations that do not overlap gets there. *)
FreshSavesKeepAnAdmin ==
  [][\A s \in Sessions :
       SaveChangesAsync(s) /\ op[s].kind # "grant" /\ ~stale[s] /\ EnabledAdmins # {}
         => EnabledAdmins' # {}]_vars

(* What UserAuthService promises of each operation by itself: it "throws if this
   would remove the last enabled admin". *)
AnAdminRemains == EnabledAdmins # {}

=============================================================================
