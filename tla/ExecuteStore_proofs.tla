-------------------------- MODULE ExecuteStore_proofs --------------------------
(***************************************************************************)
(* Theorems about the schema of the execute domain, for any transactions,  *)
(* any rows and any values: uniqueness and references hold at READ         *)
(* COMMITTED because of what a statement waits for, not because a          *)
(* transaction sees everything.                                            *)
(***************************************************************************)
EXTENDS ExecuteStore, FiniteSetTheorems, TLAPS

(***************************************************************************)
(* The inductive invariant.                                                *)
(***************************************************************************)

Version(r) == {Absent} \cup Contents[Table[r]]
Written(t, r) == r \in DOMAIN new[t]

Typed ==
    /\ db \in [Row -> {Absent} \cup UNION {Contents[s] : s \in Tables}]
    /\ \A r \in Row : db[r] \in Version(r)
    /\ DOMAIN new = Transactions /\ DOMAIN shared = Transactions
    /\ \A t \in Transactions :
         /\ DOMAIN new[t] \subseteq Row /\ shared[t] \subseteq Row
         /\ \A r \in DOMAIN new[t] : new[t][r] \in Version(r)
    /\ count \in [Transactions -> 0..MaxStatements]

\* A row has one writer.
OneWriter == \A t, u \in Transactions : \A r \in Row : Written(t, r) /\ Written(u, r) => t = u

\* Two versions of two rows collide in a unique index.
Collide(r, v, s, w) ==
    /\ r # s /\ Table[r] = Table[s] /\ v # Absent /\ w # Absent
    /\ \E k \in Schema[Table[r]].unique : SameKey(k, v, w)

\* Whoever commits first, nothing collides: committed rows, the rows a transaction
\* writes, those with the committed rows it leaves alone, and those of two writers.
NoCollision ==
    /\ \A r, s \in Row : ~Collide(r, db[r], s, db[s])
    /\ \A t \in Transactions : \A r \in DOMAIN new[t], s \in Row :
          ~Collide(r, new[t][r], s, View(t)[s])
    /\ \A t, u \in Transactions : \A r \in DOMAIN new[t], s \in DOMAIN new[u] :
          ~Collide(r, new[t][r], s, new[u][s])

\* This version of row x refers to row p.
Refers(x, v, p) == v # Absent /\ \E f \in Refs[x] : v[f.column] = p

\* References are whole in the database, in what every transaction sees, and
\* between what one writes and another deletes.
NoDangling ==
    /\ \A x, p \in Row : Refers(x, db[x], p) => db[p] # Absent
    /\ \A t \in Transactions : \A x, p \in Row :
          Refers(x, View(t)[x], p) => View(t)[p] # Absent
    /\ \A t, u \in Transactions : \A x \in DOMAIN new[t], p \in DOMAIN new[u] :
          Refers(x, new[t][x], p) => new[u][p] # Absent

\* A transaction holds the parent of a reference it has made.
HoldsParents ==
    \A t \in Transactions : \A x \in DOMAIN new[t], p \in Row :
        Refers(x, new[t][x], p) => p \in shared[t] \/ Refers(x, db[x], p)

Audit == UNION {Rows[a] : a \in AuditTables}

\* An audit row is never deleted, and never rewritten but for what a stamp sets.
AuditKept ==
    \A t \in Transactions : \A r \in Audit : Written(t, r) =>
        /\ new[t][r] # Absent
        /\ db[r] # Absent => \A f \in Refs[r] :
              f.onDelete = "RESTRICT" => new[t][r][f.column] = db[r][f.column]

SInv == Typed /\ OneWriter /\ NoCollision /\ NoDangling /\ HoldsParents /\ AuditKept

(***************************************************************************)
(* The schema.                                                             *)
(***************************************************************************)

\* What the proofs need to know of a table T, and that the nine have it.
Sound(T) ==
    /\ \E c : c \in T.columns
    /\ \A f \in T.refs :
         /\ f.column \in T.columns
         /\ f.parent \in {"roles", "permissions", "operators", "proposals", "auth_tokens"}
         /\ f.onDelete \in {"CASCADE", "RESTRICT", "SET_NULL"}
         /\ f.onDelete = "SET_NULL" => f.column \in T.nullable /\ T.unique = {}
         /\ f.onDelete = "RESTRICT" => f.column \notin T.nullable
    /\ \A f, g \in T.refs : f.column = g.column => f = g

LEMMA TablesAre ==
    /\ Tables = {"operators", "roles", "permissions", "role_permissions", "operator_roles",
                 "proposals", "auth_tokens", "approvals", "tx_attempts"}
    /\ Schema["operators"] = Operator /\ Schema["roles"] = Role
    /\ Schema["permissions"] = Permission /\ Schema["role_permissions"] = RolePermission
    /\ Schema["operator_roles"] = OperatorRole /\ Schema["proposals"] = ProposalRecord
    /\ Schema["auth_tokens"] = AuthToken /\ Schema["approvals"] = Approval
    /\ Schema["tx_attempts"] = TxAttempt
  BY DEF Tables, Schema

LEMMA TablesAreSound == \A s \in Tables : Sound(Schema[s])
<1> USE DEF Sound, Ref, Unique, UniqueWhere
<1>1. Sound(Operator) /\ Sound(Role) /\ Sound(Permission) /\ Sound(ProposalRecord)
  BY DEF Operator, Role, Permission, ProposalRecord
<1>2. Sound(RolePermission)
  BY DEF RolePermission
<1>3. Sound(OperatorRole)
  BY DEF OperatorRole
<1>4. Sound(AuthToken)
  BY DEF AuthToken
<1>5. Sound(Approval)
  BY DEF Approval
<1>6. Sound(TxAttempt)
  BY DEF TxAttempt
<1> HIDE DEF Sound
<1> QED BY <1>1, <1>2, <1>3, <1>4, <1>5, <1>6, TablesAre

\* Which tables have rows that go, or are changed, with the row they refer to.
LEMMA WhatDeletesDo ==
    \A s \in Tables : \A f \in Schema[s].refs :
        /\ f.onDelete = "CASCADE" => s \in {"role_permissions", "operator_roles"}
        /\ f.onDelete = "SET_NULL" => s = "approvals"
<1> DEFINE Plain(T) == \A f \in T.refs : f.onDelete = "RESTRICT"
<1>1. Plain(Operator) /\ Plain(Role) /\ Plain(Permission) /\ Plain(ProposalRecord)
      /\ Plain(AuthToken) /\ Plain(TxAttempt)
  BY DEF Operator, Role, Permission, ProposalRecord, AuthToken, TxAttempt, Ref
<1>2. \A f \in Approval.refs : f.onDelete # "CASCADE"
  BY DEF Approval, Ref
<1>3. \A f \in RolePermission.refs \cup OperatorRole.refs : f.onDelete = "CASCADE"
  BY DEF RolePermission, OperatorRole, Ref
<1> QED BY <1>1, <1>2, <1>3, TablesAre

\* They are referred to by none: deletes do not cascade further.
LEMMA CascadesEnd ==
    \A s, u \in Tables : \A f \in Schema[s].refs, g \in Schema[u].refs :
        f.onDelete \in {"CASCADE", "SET_NULL"} => g.parent # s
<1>1. \A u \in Tables : \A g \in Schema[u].refs :
          g.parent \in {"roles", "permissions", "operators", "proposals", "auth_tokens"}
  BY TablesAreSound DEF Sound
<1> QED BY <1>1, WhatDeletesDo

LEMMA SchemaFact ==
    /\ AuditTables \subseteq Tables /\ "auth_tokens" \in Tables /\ "tx_attempts" \in Tables
    /\ \A s \in Tables : \E c : c \in Schema[s].columns
    /\ \A s \in Tables : \A f \in Schema[s].refs :
         /\ f.column \in Schema[s].columns /\ f.parent \in Tables
         /\ f.onDelete \in {"CASCADE", "RESTRICT", "SET_NULL"}
         /\ f.onDelete = "SET_NULL" => f.column \in Schema[s].nullable /\ Schema[s].unique = {}
         /\ f.onDelete = "RESTRICT" => f.column \notin Schema[s].nullable
    /\ \A s \in Tables : \A f, g \in Schema[s].refs : f.column = g.column => f = g
    /\ \A s \in AuditTables : \A f \in Schema[s].refs : f.onDelete # "CASCADE"
<1>1. AuditTables \subseteq Tables /\ "auth_tokens" \in Tables /\ "tx_attempts" \in Tables
  BY TablesAre DEF AuditTables
<1>2. \A s \in AuditTables : \A f \in Schema[s].refs : f.onDelete # "CASCADE"
  BY <1>1, WhatDeletesDo DEF AuditTables
<1>3. {"roles", "permissions", "operators", "proposals", "auth_tokens"} \subseteq Tables
  BY TablesAre
<1> QED BY <1>1, <1>2, <1>3, TablesAreSound DEF Sound

LEMMA TableFact ==
    /\ \A s \in Tables : \A r \in Rows[s] : r \in Row /\ Table[r] = s
    /\ \A r \in Row : Table[r] \in Tables /\ r \in Rows[Table[r]]
    /\ Null \notin Row
<1>1. \A r \in Row : Table[r] \in Tables /\ r \in Rows[Table[r]]
  BY DEF Row, Table
<1>2. \A s \in Tables : \A r \in Rows[s] : r \in Row /\ Table[r] = s
  BY <1>1, ExecuteStoreAssumption DEF Row
<1> QED BY <1>1, <1>2, ExecuteStoreAssumption DEF Row

LEMMA ContentsFact ==
    ASSUME NEW r \in Row, NEW v \in Contents[Table[r]]
    PROVE  /\ v # Absent /\ DOMAIN v = Schema[Table[r]].columns
           /\ v = [c \in Schema[Table[r]].columns |-> v[c]]
           /\ \A c \in Schema[Table[r]].columns : v[c] \in Domain(Table[r], c)
<1>1. Table[r] \in Tables
  BY TableFact
<1>2. /\ v \in [Schema[Table[r]].columns ->
                  UNION {Domain(Table[r], c) : c \in Schema[Table[r]].columns}]
      /\ \A c \in Schema[Table[r]].columns : v[c] \in Domain(Table[r], c)
  BY <1>1 DEF Contents
<1>3. DOMAIN v = Schema[Table[r]].columns
  BY <1>2
<1>4. \E c : c \in DOMAIN v
  BY <1>1, <1>3, SchemaFact
<1>5. \A c : c \notin DOMAIN <<>>
  OBVIOUS
<1> QED BY <1>2, <1>3, <1>4, <1>5 DEF Absent

\* A version of the right columns and values is one of the row's contents.
LEMMA IsContents ==
    ASSUME NEW r \in Row, NEW v, v = [c \in Schema[Table[r]].columns |-> v[c]],
           \A c \in Schema[Table[r]].columns : v[c] \in Domain(Table[r], c)
    PROVE  v \in Contents[Table[r]]
<1> DEFINE C == Schema[Table[r]].columns
           All == UNION {Domain(Table[r], c) : c \in C}
<1>1. Contents[Table[r]] = {w \in [C -> All] : \A c \in C : w[c] \in Domain(Table[r], c)}
  BY TableFact DEF Contents
<1>2. \A c \in C : v[c] \in All
  OBVIOUS
<1> HIDE DEF All
<1>3. v \in [C -> All]
  BY <1>2
<1> QED BY <1>1, <1>3

\* A reference names a row of the parent table, or is NULL if it may be.
LEMMA ReferenceFact ==
    ASSUME NEW r \in Row, NEW v \in Contents[Table[r]], NEW f \in Refs[r]
    PROVE  /\ v[f.column] \in Rows[f.parent] \cup {Null}
           /\ f.onDelete = "RESTRICT" => v[f.column] \in Rows[f.parent]
           /\ f.parent \in Tables
<1>1. Table[r] \in Tables /\ f \in Schema[Table[r]].refs
  BY TableFact DEF Refs
<1>2. v[f.column] \in Domain(Table[r], f.column)
  BY <1>1, ContentsFact, SchemaFact
<1>3. \A g \in Schema[Table[r]].refs : g.column = f.column => g = f
  BY <1>1, SchemaFact
<1>4. UNION {Rows[h.parent] : h \in {g \in Schema[Table[r]].refs : g.column = f.column}} = Rows[f.parent]
  BY <1>1, <1>3
<1>5. f.column \in {g.column : g \in Schema[Table[r]].refs}
  BY <1>1
<1>6. v[f.column] \in Rows[f.parent] \cup (IF f.column \in Schema[Table[r]].nullable THEN {Null} ELSE {})
  BY <1>2, <1>4, <1>5 DEF Domain
<1> QED BY <1>1, <1>6, SchemaFact

(***************************************************************************)
(* What a statement adds.                                                  *)
(***************************************************************************)

LEMMA CollideSym ==
    ASSUME NEW r, NEW v, NEW s, NEW w, Collide(r, v, s, w)
    PROVE  Collide(s, w, r, v)
  BY DEF Collide, SameKey

LEMMA WriteFact ==
    ASSUME Typed, NEW t \in Transactions, NEW w, DOMAIN w \subseteq Row, Write(t, w), UNCHANGED db
    PROVE  /\ DOMAIN new' = Transactions
           /\ \A u \in Transactions : u # t => new'[u] = new[u] /\ View(u)' = View(u)
           /\ DOMAIN new'[t] = DOMAIN w \cup DOMAIN new[t]
           /\ \A r \in DOMAIN w : new'[t][r] = w[r]
           /\ \A r \in DOMAIN new[t] \ DOMAIN w : new'[t][r] = new[t][r]
           /\ \A r \in DOMAIN w : View(t)'[r] = w[r]
           /\ \A r \in Row \ DOMAIN w : View(t)'[r] = View(t)[r]
<1>1. /\ DOMAIN new' = Transactions
      /\ \A u \in Transactions : u # t => new'[u] = new[u]
      /\ new'[t] = [r \in DOMAIN w \cup DOMAIN new[t] |-> IF r \in DOMAIN w THEN w[r] ELSE new[t][r]]
  BY DEF Typed, Write
<1>2. \A u \in Transactions : u # t => View(u)' = View(u)
  BY <1>1 DEF View
<1>3. /\ \A r \in DOMAIN w : new'[t][r] = w[r]
      /\ \A r \in DOMAIN new[t] \ DOMAIN w : new'[t][r] = new[t][r]
      /\ DOMAIN new'[t] = DOMAIN w \cup DOMAIN new[t]
  BY <1>1
<1>4. View(t)' = [r \in Row |-> IF r \in DOMAIN new'[t] THEN new'[t][r] ELSE db[r]]
  BY DEF View
<1>5. \A r \in DOMAIN w : View(t)'[r] = w[r]
  BY <1>3, <1>4
<1>6. \A r \in Row \ DOMAIN w : View(t)'[r] = View(t)[r]
  BY <1>3, <1>4 DEF View
<1> QED BY <1>1, <1>2, <1>3, <1>5, <1>6

\* What a transaction sees of a row it has not written, and of one it has.
LEMMA ViewFact ==
    ASSUME Typed, NEW t \in Transactions
    PROVE  /\ \A r \in DOMAIN new[t] : r \in Row /\ View(t)[r] = new[t][r]
           /\ \A r \in Row \ DOMAIN new[t] : View(t)[r] = db[r]
           /\ \A r \in Row : View(t)[r] \in Version(r)
  BY DEF Typed, View

(***************************************************************************)
(* A statement keeps the invariant if what it writes is of the right type, *)
(* of rows nobody else writes, collides with nothing the indexes show,     *)
(* refers to rows that are there to stay, leaves nothing that refers to    *)
(* what it deletes, and spares the audit rows.                             *)
(***************************************************************************)

WritesTyped(t, w) ==
    DOMAIN w \subseteq Row /\ \A r \in DOMAIN w : w[r] \in Version(r) /\ Writable(t, r)

WritesUnique(t, w) ==
    \A r \in DOMAIN w :
        /\ \A s \in Row : ~Collide(r, w[r], s, IF s \in DOMAIN w THEN w[s] ELSE View(t)[s])
        /\ \A u \in Others(t) : \A s \in DOMAIN new[u] : ~Collide(r, w[r], s, new[u][s])

WritesWhole(t, w) ==
    \A x \in DOMAIN w, p \in Row : Refers(x, w[x], p) =>
        /\ (IF p \in DOMAIN w THEN w[p] ELSE View(t)[p]) # Absent
        /\ \A u \in Others(t) : p \in DOMAIN new[u] => new[u][p] # Absent
        /\ p \in shared'[t] \/ Refers(x, db[x], p)

DeletesFree(t, w) ==
    \A p \in DOMAIN w : w[p] = Absent =>
        /\ \A x \in Row \ DOMAIN w : ~Refers(x, View(t)[x], p)
        /\ \A u \in Others(t) : \A x \in DOMAIN new[u] : ~Refers(x, new[u][x], p)

SparesAudit(w) ==
    \A r \in DOMAIN w \cap Audit :
        /\ w[r] # Absent
        /\ db[r] # Absent => \A f \in Refs[r] :
              f.onDelete = "RESTRICT" => w[r][f.column] = db[r][f.column]

\* Locks are only added.
Locks(t) ==
    /\ DOMAIN shared' = Transactions
    /\ \A u \in Transactions : shared[u] \subseteq shared'[u] /\ shared'[u] \subseteq Row

LEMMA StatementKeeps ==
    ASSUME SInv, NEW t \in Transactions, NEW w, Write(t, w), UNCHANGED db, Statement(t),
           WritesTyped(t, w), WritesUnique(t, w), WritesWhole(t, w), DeletesFree(t, w),
           SparesAudit(w), Locks(t)
    PROVE  SInv'
<1>t. Typed /\ OneWriter /\ DOMAIN w \subseteq Row
  BY DEF SInv, WritesTyped
<1>w. /\ DOMAIN new' = Transactions
      /\ \A u \in Transactions : u # t => new'[u] = new[u] /\ View(u)' = View(u)
      /\ DOMAIN new'[t] = DOMAIN w \cup DOMAIN new[t]
      /\ \A r \in DOMAIN w : new'[t][r] = w[r]
      /\ \A r \in DOMAIN new[t] \ DOMAIN w : new'[t][r] = new[t][r]
      /\ \A r \in DOMAIN w : View(t)'[r] = w[r]
      /\ \A r \in Row \ DOMAIN w : View(t)'[r] = View(t)[r]
  BY <1>t, WriteFact
<1>v. /\ \A r \in DOMAIN new[t] : r \in Row /\ View(t)[r] = new[t][r]
      /\ \A u \in Transactions : DOMAIN new[u] \subseteq Row
  BY <1>t, ViewFact DEF Typed
<1>1. Typed'
  <2>1. count' \in [Transactions -> 0..MaxStatements]
    BY <1>t, ExecuteStoreAssumption DEF Typed, Statement
  <2>2. \A u \in Transactions : DOMAIN new'[u] \subseteq Row
    BY <1>w, <1>v, <1>t
  <2>3. ASSUME NEW u \in Transactions, NEW r \in DOMAIN new'[u] PROVE new'[u][r] \in Version(r)
    <3>1. CASE u # t
      BY <1>t, <1>w, <3>1 DEF Typed
    <3>2. CASE u = t /\ r \in DOMAIN w
      BY <1>w, <3>2 DEF WritesTyped
    <3>3. CASE u = t /\ r \notin DOMAIN w
      BY <1>t, <1>w, <2>3, <3>3 DEF Typed
    <3> QED BY <3>1, <3>2, <3>3
  <2> QED BY <1>t, <1>w, <2>1, <2>2, <2>3 DEF Typed, Locks, Version
<1>2. OneWriter'
  BY <1>t, <1>w DEF OneWriter, Written, WritesTyped, Writable, Others
<1>3. NoCollision'
  <2>1. \A r, s \in Row : ~Collide(r, db'[r], s, db'[s])
    BY DEF SInv, NoCollision
  <2>2. ASSUME NEW r \in DOMAIN w, NEW s \in Row PROVE ~Collide(r, w[r], s, View(t)'[s])
    BY <1>w DEF WritesUnique
  <2>3. ASSUME NEW u \in Transactions, NEW r \in DOMAIN new'[u], NEW s \in Row
        PROVE  ~Collide(r, new'[u][r], s, View(u)'[s])
    <3>1. CASE u # t
      BY <1>w, <3>1 DEF SInv, NoCollision
    <3>2. CASE u = t /\ r \in DOMAIN w
      BY <1>w, <2>2, <3>2
    <3>3. CASE u = t /\ r \notin DOMAIN w /\ s \in DOMAIN w
      <4>1. View(u)'[r] = new'[u][r] /\ r \in Row
        BY <1>w, <1>v, <2>3, <3>3
      <4>2. ~Collide(s, w[s], r, new'[u][r])
        BY <2>2, <3>3, <4>1
      <4> QED BY <1>w, <3>3, <4>2, CollideSym
    <3>4. CASE u = t /\ r \notin DOMAIN w /\ s \notin DOMAIN w
      BY <1>w, <2>3, <3>4 DEF SInv, NoCollision
    <3> QED BY <3>1, <3>2, <3>3, <3>4
  <2>4. ASSUME NEW u \in Others(t), NEW r \in DOMAIN new'[t], NEW s \in DOMAIN new[u]
        PROVE  ~Collide(r, new'[t][r], s, new[u][s])
    <3>1. CASE r \in DOMAIN w
      BY <1>w, <3>1 DEF WritesUnique
    <3>2. CASE r \notin DOMAIN w
      BY <1>w, <2>4, <3>2 DEF SInv, NoCollision, Others
    <3> QED BY <3>1, <3>2
  <2>5. ASSUME NEW u \in Transactions, NEW q \in Transactions,
               NEW r \in DOMAIN new'[u], NEW s \in DOMAIN new'[q]
        PROVE  ~Collide(r, new'[u][r], s, new'[q][s])
    <3>1. CASE u = q
      <4>1. s \in Row /\ View(u)'[s] = new'[u][s]
        BY <1>1, <2>5, <3>1 DEF Typed, View
      <4> QED BY <2>3, <3>1, <4>1
    <3>2. CASE u = t /\ q # t
      BY <1>w, <2>4, <2>5, <3>2 DEF Others
    <3>3. CASE u # t /\ q = t
      <4>1. ~Collide(s, new'[q][s], r, new'[u][r])
        BY <1>w, <2>4, <2>5, <3>3 DEF Others
      <4> QED BY <4>1, CollideSym
    <3>4. CASE u # t /\ q # t
      BY <1>w, <2>5, <3>4 DEF SInv, NoCollision
    <3> QED BY <3>1, <3>2, <3>3, <3>4
  <2> QED BY <2>1, <2>3, <2>5 DEF NoCollision
<1>4. NoDangling'
  <2>1. \A x, p \in Row : Refers(x, db'[x], p) => db'[p] # Absent
    BY DEF SInv, NoDangling
  <2>2. ASSUME NEW u \in Transactions, NEW x \in Row, NEW p \in Row, Refers(x, View(u)'[x], p)
        PROVE  View(u)'[p] # Absent
    <3>1. CASE u # t
      BY <1>w, <2>2, <3>1 DEF SInv, NoDangling
    <3>2. CASE u = t /\ x \in DOMAIN w
      BY <1>w, <2>2, <3>2 DEF WritesWhole
    <3>3. CASE u = t /\ x \notin DOMAIN w
      <4>1. Refers(x, View(t)[x], p)
        BY <1>w, <2>2, <3>3
      <4>2. CASE p \in DOMAIN w
        BY <1>w, <3>3, <4>1, <4>2 DEF DeletesFree
      <4>3. CASE p \notin DOMAIN w
        BY <1>w, <3>3, <4>1, <4>3 DEF SInv, NoDangling
      <4> QED BY <4>2, <4>3
    <3> QED BY <3>1, <3>2, <3>3
  <2>3. ASSUME NEW u \in Transactions, NEW q \in Transactions,
               NEW x \in DOMAIN new'[u], NEW p \in DOMAIN new'[q], Refers(x, new'[u][x], p)
        PROVE  new'[q][p] # Absent
    <3>r. x \in Row /\ p \in Row
      BY <1>1, <2>3 DEF Typed
    <3>1. CASE u = q
      <4>1. View(u)'[x] = new'[u][x] /\ View(u)'[p] = new'[u][p]
        BY <2>3, <3>r, <3>1 DEF View
      <4> QED BY <2>2, <2>3, <3>r, <3>1, <4>1
    <3>2. CASE u = t /\ q # t /\ x \in DOMAIN w
      BY <1>w, <2>3, <3>r, <3>2 DEF WritesWhole, Others
    <3>3. CASE q = t /\ u # t /\ p \in DOMAIN w
      BY <1>w, <2>3, <3>r, <3>3 DEF DeletesFree, Others
    <3>4. CASE (u = t => x \notin DOMAIN w) /\ (q = t => p \notin DOMAIN w)
      BY <1>w, <2>3, <3>4 DEF SInv, NoDangling
    <3> QED BY <3>1, <3>2, <3>3, <3>4
  <2> QED BY <2>1, <2>2, <2>3 DEF NoDangling
<1>5. HoldsParents'
  <2> SUFFICES ASSUME NEW u \in Transactions, NEW x \in DOMAIN new'[u], NEW p \in Row,
                      Refers(x, new'[u][x], p)
               PROVE  p \in shared'[u] \/ Refers(x, db[x], p)
    BY DEF HoldsParents
  <2>1. CASE u = t /\ x \in DOMAIN w
    BY <1>w, <2>1 DEF WritesWhole
  <2>2. CASE u = t => x \notin DOMAIN w
    BY <1>w, <2>2 DEF SInv, HoldsParents, Locks
  <2> QED BY <2>1, <2>2
<1>6. AuditKept'
  <2> SUFFICES ASSUME NEW u \in Transactions, NEW r \in Audit, r \in DOMAIN new'[u]
               PROVE  /\ new'[u][r] # Absent
                      /\ db[r] # Absent => \A f \in Refs[r] :
                            f.onDelete = "RESTRICT" => new'[u][r][f.column] = db[r][f.column]
    BY DEF AuditKept, Written
  <2>1. CASE u = t /\ r \in DOMAIN w
    BY <1>w, <2>1 DEF SparesAudit
  <2>2. CASE u = t => r \notin DOMAIN w
    BY <1>w, <2>2 DEF SInv, AuditKept, Written
  <2> QED BY <2>1, <2>2
<1> QED BY <1>1, <1>2, <1>3, <1>4, <1>5, <1>6 DEF SInv

(***************************************************************************)
(* The statements.                                                         *)
(***************************************************************************)

LEMMA NoClashFact ==
    ASSUME Typed, OneWriter, NEW t \in Transactions, NEW r \in Row, NEW v, ~Clash(t, r, v)
    PROVE  /\ \A s \in Row : ~Collide(r, v, s, View(t)[s])
           /\ \A u \in Others(t) : \A s \in DOMAIN new[u] : ~Collide(r, v, s, new[u][s])
<1>1. ASSUME NEW s \in Row, NEW w \in Versions(t, s) PROVE ~Collide(r, v, s, w)
  <2>1. Table[s] = Table[r] /\ s # r => s \in Rows[Table[r]] \ {r}
    BY TableFact
  <2> QED BY <1>1, <2>1 DEF Clash, Collide
<1>2. \A s \in Row : View(t)[s] \in Versions(t, s)
  BY DEF View, Versions
<1>3. ASSUME NEW u \in Others(t), NEW s \in DOMAIN new[u] PROVE s \in Row /\ new[u][s] \in Versions(t, s)
  <2>1. u \in Transactions /\ u # t /\ s \in Row
    BY <1>3 DEF Others, Typed
  <2>2. s \notin DOMAIN new[t]
    BY <2>1 DEF OneWriter, Written
  <2> QED BY <1>3, <2>1, <2>2 DEF Versions
<1> QED BY <1>1, <1>2, <1>3

LEMMA InsertKeeps ==
    ASSUME SInv, NEW t \in Transactions, NEW r \in Row, NEW v \in Contents[Table[r]], Insert(t, r, v)
    PROVE  SInv'
<1> DEFINE w == [s \in {r} |-> v]
<1>1. /\ Statement(t) /\ View(t)[r] = Absent /\ Writable(t, r) /\ ~Clash(t, r, v)
      /\ \A p \in Parents(r, v) : /\ View(t)[p] # Absent
                                  /\ \A u \in Others(t) : p \in DOMAIN new[u] => new[u][p] # Absent
      /\ Write(t, w)
      /\ shared' = [shared EXCEPT ![t] = @ \cup Parents(r, v)] /\ UNCHANGED db
  BY DEF Insert
<1>2. DOMAIN w = {r} /\ w[r] = v /\ v # Absent /\ v \in Version(r)
  BY ContentsFact DEF Version
<1> HIDE DEF w
<1>3. Typed /\ OneWriter
  BY DEF SInv
<1>4. \A p \in Row : Refers(r, v, p) => p \in Parents(r, v)
  BY TableFact DEF Refers, Parents
<1>5. Parents(r, v) \subseteq Row
  <2>1. \A f \in Refs[r] : v[f.column] \in Row \cup {Null}
    BY ReferenceFact, TableFact
  <2> QED BY <2>1 DEF Parents
<1>6. \A p \in Row : Refers(r, v, p) => p # r
  BY <1>1, <1>4
<1>7. WritesTyped(t, w)
  BY <1>1, <1>2 DEF WritesTyped
<1>8. WritesUnique(t, w)
  BY <1>1, <1>2, <1>3, NoClashFact DEF WritesUnique, Collide
<1>9. Locks(t)
  BY <1>1, <1>3, <1>5 DEF Locks, Typed
<1>10. WritesWhole(t, w)
  <2>1. shared'[t] = shared[t] \cup Parents(r, v)
    BY <1>1, <1>3 DEF Typed
  <2> QED BY <1>1, <1>2, <1>4, <1>6, <2>1 DEF WritesWhole
<1>11. DeletesFree(t, w)
  BY <1>2 DEF DeletesFree
<1>12. SparesAudit(w)
  <2>1. SUFFICES ASSUME r \in Audit PROVE db[r] = Absent
    BY <1>2 DEF SparesAudit
  <2>2. r \notin DOMAIN new[t]
    BY <1>1, <1>3, <2>1, ViewFact DEF SInv, AuditKept, Written
  <2> QED BY <1>1, <1>3, <2>2, ViewFact
<1> QED BY <1>1, <1>7, <1>8, <1>9, <1>10, <1>11, <1>12, StatementKeeps

LEMMA StampKeeps ==
    ASSUME SInv, NEW t \in Transactions, NEW r \in Row,
           NEW c \in Schema[Table[r]].nullable \ {f.column : f \in Schema[Table[r]].refs},
           NEW x \in Domain(Table[r], c), Stamp(t, r, c, x)
    PROVE  SInv'
<1> DEFINE old == View(t)[r]
           v == [old EXCEPT ![c] = x]
           w == [s \in {r} |-> v]
<1>1. /\ Statement(t) /\ old # Absent /\ Writable(t, r) /\ ~Clash(t, r, v)
      /\ Write(t, w) /\ UNCHANGED <<db, shared>>
  BY DEF Stamp
<1>2. Typed /\ OneWriter
  BY DEF SInv
<1>3. old \in Contents[Table[r]]
  BY <1>1, <1>2, ViewFact DEF Version
<1>4. /\ DOMAIN old = Schema[Table[r]].columns
      /\ \A d \in Schema[Table[r]].columns : old[d] \in Domain(Table[r], d)
  BY <1>3, ContentsFact
<1>5. /\ v = [d \in Schema[Table[r]].columns |-> v[d]]
      /\ \A d \in Schema[Table[r]].columns : v[d] \in Domain(Table[r], d)
      /\ \A f \in Refs[r] : v[f.column] = old[f.column]
  <2>1. \A f \in Refs[r] : f.column \in Schema[Table[r]].columns /\ f.column # c
    BY TableFact, SchemaFact DEF Refs
  <2> QED BY <1>4, <2>1
<1> HIDE DEF v
<1>6. v \in Contents[Table[r]] /\ v # Absent
  BY <1>5, IsContents, ContentsFact
<1>7. DOMAIN w = {r} /\ w[r] = v /\ v \in Version(r)
  BY <1>6 DEF Version
<1> HIDE DEF w, old
<1>8. \A p \in Row : Refers(r, v, p) => Refers(r, old, p)
  BY <1>1, <1>5 DEF Refers
<1>9. old = View(t)[r]
  BY DEF old
<1>10. WritesTyped(t, w)
  BY <1>1, <1>7 DEF WritesTyped
<1>11. WritesUnique(t, w)
  BY <1>1, <1>2, <1>7, NoClashFact DEF WritesUnique, Collide
<1>12. Locks(t)
  BY <1>1, <1>2 DEF Locks, Typed
<1>13. WritesWhole(t, w)
  <2> SUFFICES ASSUME NEW p \in Row, Refers(r, v, p)
               PROVE  /\ (IF p \in DOMAIN w THEN w[p] ELSE View(t)[p]) # Absent
                      /\ \A u \in Others(t) : p \in DOMAIN new[u] => new[u][p] # Absent
                      /\ p \in shared'[t] \/ Refers(r, db[r], p)
    BY <1>7 DEF WritesWhole
  <2>1. Refers(r, View(t)[r], p)
    BY <1>8, <1>9
  <2>2. View(t)[p] # Absent
    BY <2>1 DEF SInv, NoDangling
  <2>3. CASE r \in DOMAIN new[t]
    <3>1. Refers(r, new[t][r], p)
      BY <1>2, <2>1, <2>3, ViewFact
    <3> QED BY <1>1, <1>6, <1>7, <2>2, <2>3, <3>1 DEF SInv, NoDangling, HoldsParents, Others
  <2>4. CASE r \notin DOMAIN new[t]
    <3>1. Refers(r, db[r], p)
      BY <1>2, <2>1, <2>4, ViewFact
    <3>2. ASSUME NEW u \in Others(t), p \in DOMAIN new[u] PROVE new[u][p] # Absent
      <4>1. u \in Transactions /\ r \notin DOMAIN new[u]
        BY <1>1, <3>2 DEF Others, Writable
      <4>2. Refers(r, View(u)[r], p)
        BY <1>2, <3>1, <4>1, ViewFact
      <4>3. View(u)[p] # Absent
        BY <4>1, <4>2 DEF SInv, NoDangling
      <4> QED BY <1>2, <3>2, <4>1, <4>3, ViewFact
    <3> QED BY <1>6, <1>7, <2>2, <3>1, <3>2
  <2> QED BY <2>3, <2>4
<1>14. DeletesFree(t, w)
  BY <1>6, <1>7 DEF DeletesFree
<1>15. SparesAudit(w)
  <2> SUFFICES ASSUME r \in Audit, db[r] # Absent, NEW f \in Refs[r], f.onDelete = "RESTRICT"
               PROVE  v[f.column] = db[r][f.column]
    BY <1>6, <1>7 DEF SparesAudit
  <2>1. v[f.column] = old[f.column]
    BY <1>5
  <2>2. CASE r \in DOMAIN new[t]
    BY <1>2, <1>9, <2>1, <2>2, ViewFact DEF SInv, AuditKept, Written
  <2>3. CASE r \notin DOMAIN new[t]
    BY <1>2, <1>9, <2>1, <2>3, ViewFact
  <2> QED BY <2>2, <2>3
<1> QED BY <1>1, <1>10, <1>11, <1>12, <1>13, <1>14, <1>15, StatementKeeps

\* The parents of a row nobody else is writing are there to stay.
LEMMA ParentsStay ==
    ASSUME SInv, NEW t \in Transactions, NEW x \in Row, Writable(t, x), NEW p \in Row,
           Refers(x, View(t)[x], p)
    PROVE  /\ View(t)[p] # Absent
           /\ \A u \in Others(t) : p \in DOMAIN new[u] => new[u][p] # Absent
           /\ p \in shared[t] \/ Refers(x, db[x], p)
<1>1. Typed
  BY DEF SInv
<1>2. View(t)[p] # Absent
  BY DEF SInv, NoDangling
<1>3. CASE x \in DOMAIN new[t]
  <2>1. Refers(x, new[t][x], p)
    BY <1>1, <1>3, ViewFact
  <2> QED BY <1>2, <1>3, <2>1 DEF SInv, NoDangling, HoldsParents, Others
<1>4. CASE x \notin DOMAIN new[t]
  <2>1. Refers(x, db[x], p)
    BY <1>1, <1>4, ViewFact
  <2>2. ASSUME NEW u \in Others(t), p \in DOMAIN new[u] PROVE new[u][p] # Absent
    <3>1. u \in Transactions /\ x \notin DOMAIN new[u]
      BY <2>2 DEF Others, Writable
    <3>2. Refers(x, View(u)[x], p)
      BY <1>1, <2>1, <3>1, ViewFact
    <3>3. View(u)[p] # Absent
      BY <3>1, <3>2 DEF SInv, NoDangling
    <3> QED BY <1>1, <2>2, <3>1, <3>3, ViewFact
  <2> QED BY <1>2, <2>1, <2>2
<1> QED BY <1>3, <1>4

\* A row that cascades or is set to NULL is no parent, whatever version refers.
LEMMA NoGrandchildren ==
    ASSUME NEW q \in Row, NEW f \in Refs[q], f.onDelete \in {"CASCADE", "SET_NULL"},
           NEW x \in Row, NEW v \in Version(x)
    PROVE  ~Refers(x, v, q)
<1> SUFFICES ASSUME v \in Contents[Table[x]], NEW g \in Refs[x], v[g.column] = q PROVE FALSE
  BY DEF Refers, Version
<1>1. q \in Rows[g.parent] /\ g.parent \in Tables
  BY ReferenceFact, TableFact
<1>2. Table[q] = g.parent
  BY <1>1, TableFact
<1> QED BY <1>1, <1>2, CascadesEnd, TableFact DEF Refs

\* ON DELETE SET NULL changes that reference and nothing else.
LEMMA ForgetFact ==
    ASSUME NEW s \in Row, NEW r \in Row, NEW v \in Contents[Table[s]]
    PROVE  /\ Forget(s, r, v) \in Contents[Table[s]]
           /\ \A f \in Refs[s] :
                 Forget(s, r, v)[f.column] =
                    IF f.onDelete = "SET_NULL" /\ v[f.column] = r THEN Null ELSE v[f.column]
<1> DEFINE C == Schema[Table[s]].columns
           Nulls(c) == v[c] = r /\ \E f \in Refs[s] : f.column = c /\ f.onDelete = "SET_NULL"
           w == [c \in C |-> IF Nulls(c) THEN Null ELSE v[c]]
<1>1. DOMAIN v = C /\ \A c \in C : v[c] \in Domain(Table[s], c)
  BY ContentsFact
<1>2. Forget(s, r, v) = w
  BY <1>1 DEF Forget
<1>3. Table[s] \in Tables /\ Refs[s] = Schema[Table[s]].refs
  BY TableFact DEF Refs
<1>4. \A c \in C : Nulls(c) => c \in Schema[Table[s]].nullable
  BY <1>3, SchemaFact
<1>5. \A c \in C : c \in Schema[Table[s]].nullable => Null \in Domain(Table[s], c)
  BY DEF Domain
<1>6. \A f \in Refs[s] : f.column \in C /\ (Nulls(f.column) <=> v[f.column] = r /\ f.onDelete = "SET_NULL")
  BY <1>3, SchemaFact
<1> HIDE DEF Nulls
<1>7. w = [c \in C |-> w[c]] /\ \A c \in C : w[c] \in Domain(Table[s], c)
  BY <1>1, <1>4, <1>5
<1>8. w \in Contents[Table[s]]
  BY <1>7, IsContents
<1>9. \A f \in Refs[s] :
        w[f.column] = IF f.onDelete = "SET_NULL" /\ v[f.column] = r THEN Null ELSE v[f.column]
  BY <1>6
<1> HIDE DEF w
<1> QED BY <1>2, <1>8, <1>9

LEMMA DeleteKeeps ==
    ASSUME SInv, NEW t \in Transactions, NEW r \in Row, r \notin Audit, Delete(t, r)
    PROVE  SInv'
<1> DEFINE gone == {r} \cup Referring(t, r, "CASCADE")
           nulled == Referring(t, r, "SET_NULL")
           w == [s \in gone \cup nulled |-> IF s \in gone THEN Absent ELSE Forget(s, r, View(t)[s])]
<1>1. /\ Statement(t) /\ View(t)[r] # Absent /\ Referring(t, r, "RESTRICT") = {}
      /\ \A s \in gone : Erasable(t, s)
      /\ \A s \in nulled : Writable(t, s)
      /\ Write(t, w) /\ UNCHANGED <<db, shared>>
  BY DEF Delete
<1>2. Typed /\ OneWriter
  BY DEF SInv
<1>3. /\ gone \subseteq Row /\ nulled \subseteq Row /\ r \in gone
      /\ \A s \in gone \ {r} : \E f \in Refs[s] : f.onDelete = "CASCADE"
      /\ \A s \in nulled : View(t)[s] # Absent /\ \E f \in Refs[s] : f.onDelete = "SET_NULL"
  BY DEF Referring
<1>4. \A x \in Row : Refers(x, View(t)[x], r) => x \in gone \cup nulled
  <2> SUFFICES ASSUME NEW x \in Row, View(t)[x] # Absent, NEW f \in Refs[x], View(t)[x][f.column] = r
               PROVE  x \in gone \cup nulled
    BY DEF Refers
  <2>1. f.onDelete \in {"CASCADE", "RESTRICT", "SET_NULL"}
    BY SchemaFact, TableFact DEF Refs
  <2>2. x \in Referring(t, r, f.onDelete)
    BY DEF Referring
  <2> QED BY <1>1, <2>1, <2>2
<1>5. \A s \in nulled : View(t)[s] \in Contents[Table[s]]
  BY <1>2, <1>3, ViewFact DEF Version
<1>6. ASSUME NEW s \in nulled, s \notin gone, NEW f \in Refs[s]
      PROVE  /\ Forget(s, r, View(t)[s])[f.column] \in {View(t)[s][f.column], Null} \ {r}
             /\ f.onDelete = "RESTRICT" => Forget(s, r, View(t)[s])[f.column] = View(t)[s][f.column]
  <2>1. Forget(s, r, View(t)[s])[f.column] =
          IF f.onDelete = "SET_NULL" /\ View(t)[s][f.column] = r THEN Null ELSE View(t)[s][f.column]
    BY <1>3, <1>5, ForgetFact
  <2>2. f.onDelete \in {"CASCADE", "RESTRICT", "SET_NULL"}
    BY <1>3, SchemaFact, TableFact DEF Refs
  <2>3. View(t)[s][f.column] = r => s \in Referring(t, r, f.onDelete)
    BY <1>3 DEF Referring
  <2>4. View(t)[s][f.column] = r => f.onDelete = "SET_NULL"
    BY <1>1, <1>6, <2>2, <2>3
  <2>5. Null # r
    BY TableFact
  <2> QED BY <2>1, <2>4, <2>5
<1>7. /\ DOMAIN w = gone \cup nulled
      /\ \A s \in gone : w[s] = Absent
      /\ \A s \in nulled \ gone : /\ w[s] = Forget(s, r, View(t)[s])
                                  /\ w[s] \in Contents[Table[s]] /\ w[s] # Absent
  BY <1>3, <1>5, ForgetFact, ContentsFact
<1> HIDE DEF w, gone, nulled
<1>8. \A s \in DOMAIN w : s \in Row /\ Writable(t, s)
  BY <1>1, <1>3, <1>7 DEF Erasable
<1>9. WritesTyped(t, w)
  BY <1>7, <1>8 DEF WritesTyped, Version
<1>10. WritesUnique(t, w)
  <2>1. \A s \in nulled : Schema[Table[s]].unique = {}
    BY <1>3, SchemaFact, TableFact DEF Refs
  <2>2. \A s \in DOMAIN w : w[s] = Absent \/ Schema[Table[s]].unique = {}
    BY <1>7, <2>1
  <2> QED BY <2>2 DEF WritesUnique, Collide
<1>11. Locks(t)
  BY <1>1, <1>2 DEF Locks, Typed
<1>12. ASSUME NEW q \in DOMAIN w, q # r, NEW x \in Row, NEW v \in Version(x) PROVE ~Refers(x, v, q)
  BY <1>3, <1>7, <1>8, <1>12, NoGrandchildren
<1>13. WritesWhole(t, w)
  <2> SUFFICES ASSUME NEW x \in DOMAIN w, NEW p \in Row, Refers(x, w[x], p)
               PROVE  /\ (IF p \in DOMAIN w THEN w[p] ELSE View(t)[p]) # Absent
                      /\ \A u \in Others(t) : p \in DOMAIN new[u] => new[u][p] # Absent
                      /\ p \in shared'[t] \/ Refers(x, db[x], p)
    BY DEF WritesWhole
  <2>1. x \in nulled \ gone
    BY <1>7 DEF Refers
  <2>2. PICK f \in Refs[x] : Forget(x, r, View(t)[x])[f.column] = p
    BY <1>7, <2>1 DEF Refers
  <2>3. View(t)[x][f.column] = p /\ p # r
    BY <1>6, <2>1, <2>2, TableFact
  <2>4. Refers(x, View(t)[x], p)
    BY <1>3, <2>1, <2>3 DEF Refers
  <2>5. p \notin DOMAIN w
    BY <1>2, <1>8, <1>12, <2>3, <2>4, ViewFact
  <2> QED BY <1>1, <1>8, <2>4, <2>5, ParentsStay
<1>14. DeletesFree(t, w)
  <2> SUFFICES ASSUME NEW p \in DOMAIN w, w[p] = Absent
               PROVE  /\ \A x \in Row \ DOMAIN w : ~Refers(x, View(t)[x], p)
                      /\ \A u \in Others(t) : \A x \in DOMAIN new[u] : ~Refers(x, new[u][x], p)
    BY DEF DeletesFree
  <2>1. p \in gone
    BY <1>7
  <2>2. ASSUME NEW x \in Row \ DOMAIN w PROVE ~Refers(x, View(t)[x], p)
    BY <1>2, <1>4, <1>7, <1>12, ViewFact
  <2>3. ASSUME NEW u \in Others(t), NEW x \in DOMAIN new[u], Refers(x, new[u][x], p) PROVE FALSE
    <3>1. u \in Transactions /\ x \in Row /\ new[u][x] \in Version(x)
      BY <1>2, <2>3 DEF Others, Typed
    <3>2. p = r
      BY <1>12, <2>3, <3>1
    <3>3. p \notin shared[u]
      BY <1>1, <2>1 DEF Erasable
    <3>4. Refers(x, db[x], p)
      BY <1>8, <2>3, <3>1, <3>3 DEF SInv, HoldsParents
    <3>5. x \notin DOMAIN new[t]
      BY <1>2, <2>3, <3>1 DEF OneWriter, Written, Others
    <3>6. x \in DOMAIN w
      BY <1>2, <1>4, <1>7, <3>1, <3>2, <3>4, <3>5, ViewFact
    <3> QED BY <1>8, <2>3, <3>6 DEF Writable
  <2> QED BY <2>2, <2>3
<1>15. SparesAudit(w)
  <2> SUFFICES ASSUME NEW s \in DOMAIN w, s \in Audit
               PROVE  /\ w[s] # Absent
                      /\ db[s] # Absent => \A f \in Refs[s] :
                            f.onDelete = "RESTRICT" => w[s][f.column] = db[s][f.column]
    BY DEF SparesAudit
  <2>1. \A f \in Refs[s] : f.onDelete # "CASCADE"
    BY SchemaFact, TableFact DEF Audit, Refs
  <2>2. s \in nulled \ gone
    BY <1>3, <1>7, <2>1
  <2>3. ASSUME db[s] # Absent, NEW f \in Refs[s], f.onDelete = "RESTRICT"
        PROVE  w[s][f.column] = db[s][f.column]
    <3>1. w[s][f.column] = View(t)[s][f.column]
      BY <1>6, <1>7, <2>2, <2>3
    <3>2. CASE s \in DOMAIN new[t]
      BY <1>2, <2>3, <3>1, <3>2, ViewFact DEF SInv, AuditKept, Written
    <3>3. CASE s \notin DOMAIN new[t]
      BY <1>2, <1>8, <3>1, <3>3, ViewFact
    <3> QED BY <3>2, <3>3
  <2> QED BY <1>7, <2>2, <2>3
<1> QED BY <1>1, <1>9, <1>10, <1>11, <1>13, <1>14, <1>15, StatementKeeps

(***************************************************************************)
(* The end of a transaction.                                               *)
(***************************************************************************)

LEMMA EndFact ==
    ASSUME Typed, NEW t \in Transactions, End(t)
    PROVE  /\ DOMAIN new' = Transactions /\ DOMAIN shared' = Transactions
           /\ \A u \in Transactions : u # t => new'[u] = new[u] /\ shared'[u] = shared[u]
           /\ DOMAIN new'[t] = {} /\ shared'[t] = {}
           /\ count' \in [Transactions -> 0..MaxStatements]
  BY ExecuteStoreAssumption DEF Typed, End, Idle

LEMMA RollbackKeeps ==
    ASSUME SInv, NEW t \in Transactions, Rollback(t)
    PROVE  SInv'
<1>1. Typed /\ OneWriter /\ End(t) /\ UNCHANGED db
  BY DEF SInv, Rollback
<1>2. /\ DOMAIN new' = Transactions /\ DOMAIN shared' = Transactions
      /\ \A u \in Transactions : u # t => new'[u] = new[u] /\ shared'[u] = shared[u]
      /\ DOMAIN new'[t] = {} /\ shared'[t] = {}
      /\ count' \in [Transactions -> 0..MaxStatements]
  BY <1>1, EndFact
<1>3. /\ \A u \in Transactions : u # t => View(u)' = View(u)
      /\ \A r \in Row : View(t)'[r] = db[r]
  BY <1>1, <1>2 DEF View
<1>4. Typed'
  BY <1>1, <1>2 DEF Typed, Version
<1>5. OneWriter'
  BY <1>1, <1>2 DEF OneWriter, Written
<1>6. NoCollision'
  BY <1>1, <1>2, <1>3 DEF SInv, NoCollision
<1>7. NoDangling'
  BY <1>1, <1>2, <1>3 DEF SInv, NoDangling
<1>8. HoldsParents'
  BY <1>1, <1>2 DEF SInv, HoldsParents
<1>9. AuditKept'
  BY <1>1, <1>2 DEF SInv, AuditKept, Written
<1> QED BY <1>4, <1>5, <1>6, <1>7, <1>8, <1>9 DEF SInv

LEMMA CommitKeeps ==
    ASSUME SInv, NEW t \in Transactions, Commit(t)
    PROVE  SInv'
<1>1. Typed /\ OneWriter /\ End(t) /\ db' = View(t)
  BY DEF SInv, Commit
<1>2. /\ DOMAIN new' = Transactions /\ DOMAIN shared' = Transactions
      /\ \A u \in Transactions : u # t => new'[u] = new[u] /\ shared'[u] = shared[u]
      /\ DOMAIN new'[t] = {} /\ shared'[t] = {}
      /\ count' \in [Transactions -> 0..MaxStatements]
  BY <1>1, EndFact
<1>3. /\ \A r \in DOMAIN new[t] : r \in Row /\ db'[r] = new[t][r]
      /\ \A r \in Row \ DOMAIN new[t] : db'[r] = db[r]
      /\ \A r \in Row : db'[r] = View(t)[r] /\ db'[r] \in Version(r)
      /\ \A r \in Row : View(t)'[r] = db'[r]
  BY <1>1, <1>2, ViewFact DEF View
<1>4. ASSUME NEW u \in Transactions, u # t
      PROVE  /\ \A r \in DOMAIN new[u] : r \in Row /\ View(u)'[r] = new[u][r] /\ db'[r] = db[r]
             /\ \A r \in Row \ DOMAIN new[u] : View(u)'[r] = db'[r]
  <2>1. \A r \in DOMAIN new[u] : r \in Row /\ r \notin DOMAIN new[t]
    BY <1>1, <1>4, ViewFact DEF OneWriter, Written
  <2> QED BY <1>2, <1>3, <1>4, <2>1 DEF View
<1>5. Typed'
  <2>1. db' \in [Row -> {Absent} \cup UNION {Contents[s] : s \in Tables}]
    <3>1. \A r \in Row : View(t)[r] \in {Absent} \cup UNION {Contents[s] : s \in Tables}
      BY <1>1, ViewFact, TableFact DEF Version
    <3>2. View(t) = [r \in Row |-> View(t)[r]]
      BY DEF View
    <3> QED BY <1>1, <3>1, <3>2
  <2> QED BY <1>1, <1>2, <1>3, <2>1 DEF Typed, Version
<1>6. OneWriter'
  BY <1>1, <1>2 DEF OneWriter, Written
<1>7. NoCollision'
  <2>1. ASSUME NEW r \in Row, NEW s \in Row PROVE ~Collide(r, db'[r], s, db'[s])
    <3>1. CASE r \in DOMAIN new[t]
      BY <1>3, <3>1 DEF SInv, NoCollision
    <3>2. CASE s \in DOMAIN new[t]
      <4>1. ~Collide(s, db'[s], r, db'[r])
        BY <1>3, <3>2 DEF SInv, NoCollision
      <4> QED BY <4>1, CollideSym
    <3>3. CASE r \notin DOMAIN new[t] /\ s \notin DOMAIN new[t]
      BY <1>3, <3>3 DEF SInv, NoCollision
    <3> QED BY <3>1, <3>2, <3>3
  <2>2. ASSUME NEW u \in Transactions, NEW r \in DOMAIN new'[u], NEW s \in Row
        PROVE  ~Collide(r, new'[u][r], s, View(u)'[s])
    <3>1. u # t /\ new'[u] = new[u]
      BY <1>2, <2>2
    <3>2. CASE s \in DOMAIN new[u]
      BY <1>4, <2>2, <3>1, <3>2 DEF SInv, NoCollision
    <3>3. CASE s \notin DOMAIN new[u] /\ s \in DOMAIN new[t]
      BY <1>3, <1>4, <2>2, <3>1, <3>3 DEF SInv, NoCollision
    <3>4. CASE s \notin DOMAIN new[u] /\ s \notin DOMAIN new[t]
      <4>1. View(u)'[s] = View(u)[s]
        BY <1>1, <1>3, <1>4, <3>1, <3>4, ViewFact
      <4> QED BY <2>2, <3>1, <4>1 DEF SInv, NoCollision
    <3> QED BY <3>2, <3>3, <3>4
  <2>3. ASSUME NEW u \in Transactions, NEW q \in Transactions,
               NEW r \in DOMAIN new'[u], NEW s \in DOMAIN new'[q]
        PROVE  ~Collide(r, new'[u][r], s, new'[q][s])
    BY <1>2, <2>3 DEF SInv, NoCollision
  <2> QED BY <2>1, <2>2, <2>3 DEF NoCollision
<1>8. NoDangling'
  <2>1. ASSUME NEW x \in Row, NEW p \in Row, Refers(x, db'[x], p) PROVE db'[p] # Absent
    BY <1>3, <2>1 DEF SInv, NoDangling
  <2>2. ASSUME NEW u \in Transactions, NEW x \in Row, NEW p \in Row, Refers(x, View(u)'[x], p)
        PROVE  View(u)'[p] # Absent
    <3>1. CASE u = t
      BY <1>3, <2>1, <2>2, <3>1
    <3>2. CASE u # t /\ x \in DOMAIN new[u] /\ p \in DOMAIN new[u]
      BY <1>4, <2>2, <3>2 DEF SInv, NoDangling
    <3>3. CASE u # t /\ x \in DOMAIN new[u] /\ p \notin DOMAIN new[u]
      <4>1. Refers(x, new[u][x], p) /\ View(u)'[p] = db'[p] /\ Refers(x, View(u)[x], p)
        BY <1>1, <1>4, <2>2, <3>3, ViewFact
      <4>2. CASE p \in DOMAIN new[t]
        BY <1>3, <3>3, <4>1, <4>2 DEF SInv, NoDangling
      <4>3. CASE p \notin DOMAIN new[t]
        <5>1. View(u)[p] = db[p] /\ db'[p] = db[p]
          BY <1>1, <1>3, <3>3, <4>3, ViewFact
        <5> QED BY <4>1, <5>1 DEF SInv, NoDangling
      <4> QED BY <4>2, <4>3
    <3>4. CASE u # t /\ x \notin DOMAIN new[u] /\ p \notin DOMAIN new[u]
      BY <1>4, <2>1, <2>2, <3>4
    <3>5. CASE u # t /\ x \notin DOMAIN new[u] /\ p \in DOMAIN new[u]
      <4>1. Refers(x, db'[x], p) /\ View(u)'[p] = new[u][p] /\ View(u)[p] = new[u][p]
        BY <1>1, <1>4, <2>2, <3>5, ViewFact
      <4>2. CASE x \in DOMAIN new[t]
        BY <1>3, <3>5, <4>1, <4>2 DEF SInv, NoDangling
      <4>3. CASE x \notin DOMAIN new[t]
        <5>1. Refers(x, View(u)[x], p)
          BY <1>1, <1>3, <3>5, <4>1, <4>3, ViewFact
        <5> QED BY <4>1, <5>1 DEF SInv, NoDangling
      <4> QED BY <4>2, <4>3
    <3> QED BY <3>1, <3>2, <3>3, <3>4, <3>5
  <2>3. ASSUME NEW u \in Transactions, NEW q \in Transactions,
               NEW x \in DOMAIN new'[u], NEW p \in DOMAIN new'[q], Refers(x, new'[u][x], p)
        PROVE  new'[q][p] # Absent
    BY <1>2, <2>3 DEF SInv, NoDangling
  <2> QED BY <2>1, <2>2, <2>3 DEF NoDangling
<1>9. HoldsParents'
  <2> SUFFICES ASSUME NEW u \in Transactions, NEW x \in DOMAIN new'[u], NEW p \in Row,
                      Refers(x, new'[u][x], p)
               PROVE  p \in shared'[u] \/ Refers(x, db'[x], p)
    BY DEF HoldsParents
  <2>1. u # t /\ new'[u] = new[u] /\ shared'[u] = shared[u]
    BY <1>2
  <2> QED BY <1>4, <2>1 DEF SInv, HoldsParents
<1>10. AuditKept'
  <2> SUFFICES ASSUME NEW u \in Transactions, NEW r \in Audit, r \in DOMAIN new'[u]
               PROVE  /\ new'[u][r] # Absent
                      /\ db'[r] # Absent => \A f \in Refs[r] :
                            f.onDelete = "RESTRICT" => new'[u][r][f.column] = db'[r][f.column]
    BY DEF AuditKept, Written
  <2>1. u # t /\ new'[u] = new[u]
    BY <1>2
  <2> QED BY <1>4, <2>1 DEF SInv, AuditKept, Written
<1> QED BY <1>5, <1>6, <1>7, <1>8, <1>9, <1>10 DEF SInv

(***************************************************************************)
(* The invariant is inductive.                                             *)
(***************************************************************************)

LEMMA SInvInit == Init => SInv
<1> SUFFICES ASSUME Init PROVE SInv
  OBVIOUS
<1>1. /\ \A r \in Row : db[r] = Absent
      /\ DOMAIN new = Transactions /\ DOMAIN shared = Transactions
      /\ \A t \in Transactions : DOMAIN new[t] = {} /\ shared[t] = {}
      /\ \A t \in Transactions : \A r \in Row : View(t)[r] = Absent
  BY DEF Init, Idle, View
<1>2. Typed
  BY <1>1, ExecuteStoreAssumption DEF Init, Typed, Version
<1> QED BY <1>1, <1>2
        DEF SInv, OneWriter, Written, NoCollision, Collide, NoDangling, Refers, HoldsParents, AuditKept

LEMMA SInvNext == SInv /\ [Next]_vars => SInv'
<1> SUFFICES ASSUME SInv, [Next]_vars PROVE SInv'
  OBVIOUS
<1>1. CASE UNCHANGED vars
  <2>1. \A t \in Transactions : View(t)' = View(t)
    BY <1>1 DEF vars, View
  <2> QED BY <1>1, <2>1
          DEF vars, SInv, Typed, Version, OneWriter, Written, NoCollision, NoDangling,
              HoldsParents, AuditKept
<1>2. ASSUME NEW t \in Transactions, NEW s \in Tables, NEW r \in Rows[s],
             NEW v \in Contents[s], Insert(t, r, v)
      PROVE  SInv'
  BY <1>2, InsertKeeps, TableFact
<1>3. ASSUME NEW t \in Transactions, NEW s \in Tables, NEW r \in Rows[s],
             NEW c \in Schema[s].nullable \ {f.column : f \in Schema[s].refs},
             NEW x \in Domain(s, c), Stamp(t, r, c, x)
      PROVE  SInv'
  BY <1>3, StampKeeps, TableFact
<1>4. ASSUME NEW t \in Transactions, NEW s \in Tables, NEW r \in Rows[s], s \notin AuditTables, Delete(t, r)
      PROVE  SInv'
  <2>1. r \in Row /\ Table[r] = s
    BY <1>4, TableFact
  <2>2. r \notin Audit
    BY <1>4, <2>1, TableFact, SchemaFact DEF Audit
  <2> QED BY <1>4, <2>1, <2>2, DeleteKeeps
<1>5. ASSUME NEW t \in Transactions, Commit(t) \/ Rollback(t) PROVE SInv'
  BY <1>5, CommitKeeps, RollbackKeeps
<1> QED BY <1>1, <1>2, <1>3, <1>4, <1>5 DEF Next

LEMMA SInvInvariant == Spec => []SInv
  BY SInvInit, SInvNext, PTL DEF Spec

(***************************************************************************)
(* Theorems.                                                               *)
(***************************************************************************)

\* The columns of tables.py hold what they may hold, and no row has two writers.
THEOREM TypeCorrect == Spec => []TypeOK
<1>1. SInv => TypeOK
  BY DEF SInv, Typed, Version, OneWriter, Written, TypeOK
<1> QED BY <1>1, SInvInvariant, PTL

\* uq_auth_tokens_one_live_per_proposal: however transactions mint, consume, revive
\* and delete tokens side by side, a proposal's hash has at most one live token.
THEOREM OneLiveTokenPerProposal == Spec => []OneLiveToken
<1>1. SInv => OneLiveToken
  <2> SUFFICES ASSUME SInv, NEW h \in Values["proposal_hash"]
               PROVE  Cardinality({k \in Stored("auth_tokens") :
                          db[k].proposal_hash = h /\ db[k].consumed_at = Null}) <= 1
    BY DEF OneLiveToken
  <2> DEFINE Live == {k \in Stored("auth_tokens") :
                          db[k].proposal_hash = h /\ db[k].consumed_at = Null}
  <2>1. UniqueWhere({"proposal_hash"}, "consumed_at") \in Schema["auth_tokens"].unique
    BY TablesAre DEF AuthToken
  <2>2. h # Null
    <3>1. "auth_tokens" \in Tables
      BY SchemaFact
    <3>2. Schema["auth_tokens"].columns = {"proposal_hash", "operator_id", "consumed_at"}
          /\ {f.column : f \in Schema["auth_tokens"].refs} = {"operator_id"}
      BY TablesAre DEF AuthToken, Ref
    <3> QED BY <3>1, <3>2, ExecuteStoreAssumption
  <2>3. ASSUME NEW j \in Live, NEW k \in Live PROVE j = k
    <3>1. /\ j \in Row /\ k \in Row /\ Table[j] = "auth_tokens" /\ Table[k] = "auth_tokens"
          /\ db[j] # Absent /\ db[k] # Absent
      BY SchemaFact, TableFact DEF Stored
    <3>2. SameKey(UniqueWhere({"proposal_hash"}, "consumed_at"), db[j], db[k])
      BY <2>2, <2>3 DEF SameKey, UniqueWhere
    <3>3. ~Collide(j, db[j], k, db[k])
      BY <3>1 DEF SInv, NoCollision
    <3> QED BY <2>1, <3>1, <3>2, <3>3 DEF Collide
  <2> HIDE DEF Live
  <2>4. Live = {} => Cardinality(Live) <= 1
    BY FS_EmptySet
  <2>5. ASSUME Live # {} PROVE Cardinality(Live) <= 1
    <3>1. PICK k : Live = {k}
      BY <2>3, <2>5
    <3> QED BY <3>1, FS_Singleton
  <2> QED BY <2>4, <2>5 DEF Live
<1> QED BY <1>1, SInvInvariant, PTL

\* uq_tx_attempts_token_jti: a second attempt against the same token cannot be
\* recorded, even if the token's consumption is undone.
THEOREM OneAttempt == Spec => []OneAttemptPerToken
<1>1. SInv => OneAttemptPerToken
  <2> SUFFICES ASSUME SInv, NEW x \in Stored("tx_attempts"), NEW y \in Stored("tx_attempts"),
                      db[x].token_jti = db[y].token_jti
               PROVE  x = y
    BY DEF OneAttemptPerToken
  <2>1. /\ x \in Row /\ y \in Row /\ Table[x] = "tx_attempts" /\ Table[y] = "tx_attempts"
        /\ db[x] # Absent /\ db[y] # Absent
    BY SchemaFact, TableFact DEF Stored
  <2>2. Unique({"token_jti"}) \in Schema["tx_attempts"].unique
        /\ Ref("token_jti", "auth_tokens", "RESTRICT") \in Schema["tx_attempts"].refs
    BY TablesAre DEF TxAttempt
  <2>3. db[x].token_jti # Null
    <3>1. db[x] \in Contents[Table[x]]
      BY <2>1 DEF SInv, Typed, Version
    <3>2. Ref("token_jti", "auth_tokens", "RESTRICT") \in Refs[x]
      BY <2>1, <2>2 DEF Refs
    <3>3. db[x]["token_jti"] \in Row
      BY <2>1, <3>1, <3>2, ReferenceFact, TableFact DEF Ref
    <3> QED BY <3>3, TableFact
  <2>4. SameKey(Unique({"token_jti"}), db[x], db[y])
    BY <2>3 DEF SameKey, Unique
  <2>5. ~Collide(x, db[x], y, db[y])
    BY <2>1 DEF SInv, NoCollision
  <2> QED BY <2>1, <2>2, <2>4, <2>5 DEF Collide
<1> QED BY <1>1, SInvInvariant, PTL

\* The audit trail of tables.py: no commit removes an approval or an attempt, changes
\* the proposal, operator or attempted token it names, or removes one of these; the
\* token an approval minted is not among them (SET NULL).
THEOREM AuditTrailIsKept == Spec => TrailKept
<1> DEFINE Kept == \A a \in AuditTables : \A r \in Stored(a) :
         /\ db'[r] # Absent
         /\ \A f \in {g \in Refs[r] : g.onDelete = "RESTRICT"} :
              /\ db'[r][f.column] = db[r][f.column]
              /\ db'[db[r][f.column]] # Absent
<1>1. SInv /\ SInv' /\ [Next]_vars => [Kept]_vars
  <2> SUFFICES ASSUME SInv, SInv', [Next]_vars, NEW a \in AuditTables, NEW r \in Stored(a)
               PROVE  /\ db'[r] # Absent
                      /\ \A f \in {g \in Refs[r] : g.onDelete = "RESTRICT"} :
                           /\ db'[r][f.column] = db[r][f.column]
                           /\ db'[db[r][f.column]] # Absent
    OBVIOUS
  <2>1. r \in Audit /\ r \in Row /\ db[r] # Absent
    BY SchemaFact, TableFact DEF Stored, Audit
  <2>2. db' = db \/ \E t \in Transactions : db' = View(t)
    <3>1. CASE UNCHANGED vars
      BY <3>1 DEF vars
    <3>2. ASSUME NEW t \in Transactions, NEW q, NEW v, Insert(t, q, v) PROVE db' = db
      BY <3>2 DEF Insert
    <3>3. ASSUME NEW t \in Transactions, NEW q, NEW c, NEW x, Stamp(t, q, c, x) PROVE db' = db
      BY <3>3 DEF Stamp
    <3>4. ASSUME NEW t \in Transactions, NEW q, Delete(t, q) PROVE db' = db
      BY <3>4 DEF Delete
    <3>5. ASSUME NEW t \in Transactions, Commit(t) \/ Rollback(t)
          PROVE  db' = db \/ \E u \in Transactions : db' = View(u)
      BY <3>5 DEF Commit, Rollback
    <3> QED BY <3>1, <3>2, <3>3, <3>4, <3>5 DEF Next
  <2>3. /\ db'[r] # Absent
        /\ \A f \in Refs[r] : f.onDelete = "RESTRICT" => db'[r][f.column] = db[r][f.column]
    <3>1. CASE db' = db
      BY <2>1, <3>1
    <3>2. ASSUME NEW t \in Transactions, db' = View(t), r \in DOMAIN new[t] PROVE  /\ db'[r] # Absent
                 /\ \A f \in Refs[r] : f.onDelete = "RESTRICT" => db'[r][f.column] = db[r][f.column]
      <4>1. db'[r] = new[t][r]
        BY <3>2, ViewFact DEF SInv
      <4> QED BY <2>1, <3>2, <4>1 DEF SInv, AuditKept, Written
    <3>3. ASSUME NEW t \in Transactions, db' = View(t), r \notin DOMAIN new[t] PROVE  /\ db'[r] # Absent
                 /\ \A f \in Refs[r] : f.onDelete = "RESTRICT" => db'[r][f.column] = db[r][f.column]
      <4>1. db'[r] = db[r]
        BY <2>1, <3>3, ViewFact DEF SInv
      <4> QED BY <2>1, <4>1
    <3> QED BY <2>2, <3>1, <3>2, <3>3
  <2>4. ASSUME NEW f \in Refs[r], f.onDelete = "RESTRICT" PROVE db'[db[r][f.column]] # Absent
    <3>1. db'[r][f.column] = db[r][f.column]
      BY <2>3, <2>4
    <3>2. db'[r] \in Contents[Table[r]]
      BY <2>1, <2>3 DEF SInv, Typed, Version
    <3>3. db'[r][f.column] \in Row
      BY <2>1, <2>4, <3>2, ReferenceFact, TableFact
    <3>4. Refers(r, db'[r], db[r][f.column])
      BY <2>3, <3>1 DEF Refers
    <3> QED BY <2>1, <3>1, <3>3, <3>4 DEF SInv, NoDangling
  <2> QED BY <2>3, <2>4
<1> QED BY <1>1, SInvInvariant, PTL DEF Spec, TrailKept
================================================================================
