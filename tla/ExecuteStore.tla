----------------------------- MODULE ExecuteStore -----------------------------
(***************************************************************************)
(* The schema of the execute domain (execute store/tables.py and its       *)
(* migration 0001): what the database promises whoever writes to it.       *)
(*                                                                         *)
(* No code of this commit writes these tables yet, so the clients are any  *)
(* transactions at READ COMMITTED, in any interleaving, that insert rows,  *)
(* stamp a column that may be NULL, and delete what is no audit record.    *)
(* A statement that PostgreSQL would block or refuse is not enabled, and   *)
(* any transaction may be rolled back: refused, timed out, or the victim   *)
(* of a deadlock.                                                          *)
(*                                                                         *)
(* Columns no constraint mentions are left out.                            *)
(***************************************************************************)
EXTENDS Naturals, FiniteSets

CONSTANTS
    Transactions,
    Rows,           \* Rows[table]: the rows that may ever be in it
    Values,         \* Values[column]: the values of a column that is no reference
    MaxStatements   \* bound: statements of a transaction

Null == "null"

-----------------------------------------------------------------------------
\* The tables: which rows a row refers to, and what its uniqueness is.

Ref(column, parent, onDelete) == [column |-> column, parent |-> parent, onDelete |-> onDelete]

\* A unique constraint, and one that holds of the rows with a NULL in a column.
Unique(columns) == [columns |-> columns, whereNull |-> {}]
UniqueWhere(columns, null) == [columns |-> columns, whereNull |-> {null}]

Operator ==
    [columns |-> {"subject"}, nullable |-> {}, unique |-> {Unique({"subject"})}, refs |-> {}]

Role ==
    [columns |-> {"name"}, nullable |-> {}, unique |-> {Unique({"name"})}, refs |-> {}]

Permission ==
    [columns |-> {"name"}, nullable |-> {}, unique |-> {Unique({"name"})}, refs |-> {}]

RolePermission ==
    [columns |-> {"role_id", "permission_id"}, nullable |-> {},
     unique |-> {Unique({"role_id", "permission_id"})},
     refs |-> {Ref("role_id", "roles", "CASCADE"), Ref("permission_id", "permissions", "CASCADE")}]

OperatorRole ==
    [columns |-> {"operator_id", "role_id"}, nullable |-> {},
     unique |-> {Unique({"operator_id", "role_id"})},
     refs |-> {Ref("operator_id", "operators", "CASCADE"), Ref("role_id", "roles", "CASCADE")}]

ProposalRecord ==
    [columns |-> {"proposal_id"}, nullable |-> {}, unique |-> {Unique({"proposal_id"})},
     refs |-> {}]

\* A plausible slip: a constraint over both columns, to which NULLs all differ.
AuthToken_NotPartial ==
    [columns |-> {"proposal_hash", "operator_id", "consumed_at"}, nullable |-> {"consumed_at"},
     unique |-> {Unique({"proposal_hash", "consumed_at"})},
     refs |-> {Ref("operator_id", "operators", "RESTRICT")}]

\* The hash is no reference: a token outlives its proposal's row.
AuthToken ==
    [columns |-> {"proposal_hash", "operator_id", "consumed_at"}, nullable |-> {"consumed_at"},
     unique |-> {UniqueWhere({"proposal_hash"}, "consumed_at")},
     refs |-> {Ref("operator_id", "operators", "RESTRICT")}]

\* A plausible slip: a proposal takes its approvals with it.
Approval_Cascade ==
    [columns |-> {"proposal_row_id", "operator_id", "token_jti"}, nullable |-> {"token_jti"},
     unique |-> {},
     refs |-> {Ref("proposal_row_id", "proposals", "CASCADE"),
               Ref("operator_id", "operators", "RESTRICT"),
               Ref("token_jti", "auth_tokens", "SET_NULL")}]

Approval ==
    [columns |-> {"proposal_row_id", "operator_id", "token_jti"}, nullable |-> {"token_jti"},
     unique |-> {},
     refs |-> {Ref("proposal_row_id", "proposals", "RESTRICT"),
               Ref("operator_id", "operators", "RESTRICT"),
               Ref("token_jti", "auth_tokens", "SET_NULL")}]

\* A plausible slip: only attempts that reached the chain are told apart.
TxAttempt_HashOnly ==
    [columns |-> {"proposal_row_id", "token_jti", "tx_hash"}, nullable |-> {"tx_hash"},
     unique |-> {Unique({"tx_hash"})},
     refs |-> {Ref("proposal_row_id", "proposals", "RESTRICT"),
               Ref("token_jti", "auth_tokens", "RESTRICT")}]

TxAttempt ==
    [columns |-> {"proposal_row_id", "token_jti", "tx_hash"}, nullable |-> {"tx_hash"},
     unique |-> {Unique({"token_jti"}), Unique({"tx_hash"})},
     refs |-> {Ref("proposal_row_id", "proposals", "RESTRICT"),
               Ref("token_jti", "auth_tokens", "RESTRICT")}]

Schema ==
    [operators |-> Operator, roles |-> Role, permissions |-> Permission,
     role_permissions |-> RolePermission, operator_roles |-> OperatorRole,
     proposals |-> ProposalRecord, auth_tokens |-> AuthToken,
     approvals |-> Approval, tx_attempts |-> TxAttempt]

Tables == DOMAIN Schema
AuditTables == {"approvals", "tx_attempts"}

ASSUME ExecuteStoreAssumption ==
    /\ DOMAIN Rows = Tables
    /\ \A s, t \in Tables : s # t => Rows[s] \cap Rows[t] = {}
    /\ \A t \in Tables : Null \notin Rows[t]
    /\ \A t \in Tables : \A c \in Schema[t].columns \ {f.column : f \in Schema[t].refs} :
          c \in DOMAIN Values /\ Null \notin Values[c]
    /\ MaxStatements \in Nat

Row == UNION {Rows[t] : t \in Tables}
Table == [r \in Row |-> CHOOSE t \in Tables : r \in Rows[t]]
Refs == [r \in Row |-> Schema[Table[r]].refs]

\* A row that is not there.
Absent == <<>>

Domain(t, c) ==
    (UNION {Rows[f.parent] : f \in {g \in Schema[t].refs : g.column = c}})
      \cup (IF c \in {f.column : f \in Schema[t].refs} THEN {} ELSE Values[c])
      \cup (IF c \in Schema[t].nullable THEN {Null} ELSE {})

Contents == [t \in Tables |->
    {v \in [Schema[t].columns -> UNION {Domain(t, c) : c \in Schema[t].columns}] :
        \A c \in Schema[t].columns : v[c] \in Domain(t, c)}]

-----------------------------------------------------------------------------
VARIABLES
    db,             \* db[r]: the committed contents of row r, or Absent
    new,            \* new[t]: what transaction t has written and not committed
    shared,         \* shared[t]: the rows t holds a key-share lock on
    count           \* count[t]: its statements so far

vars == <<db, new, shared, count>>

TypeOK ==
    /\ db \in [Row -> {Absent} \cup UNION {Contents[t] : t \in Tables}]
    /\ \A r \in Row : db[r] # Absent => db[r] \in Contents[Table[r]]
    /\ \A t \in Transactions :
         /\ DOMAIN new[t] \subseteq Row /\ shared[t] \subseteq Row
         /\ \A u \in Transactions \ {t} : DOMAIN new[t] \cap DOMAIN new[u] = {}
    /\ count \in [Transactions -> 0..MaxStatements]

Idle(t) == [r \in {} |-> Absent]

\* The migration leaves every table empty.
Init ==
    /\ db = [r \in Row |-> Absent]
    /\ new = [t \in Transactions |-> Idle(t)]
    /\ shared = [t \in Transactions |-> {}]
    /\ count = [t \in Transactions |-> 0]

Others(t) == Transactions \ {t}
\* What t sees, and what a statement that writes w adds to it.
View(t) == [r \in Row |-> IF r \in DOMAIN new[t] THEN new[t][r] ELSE db[r]]
Write(t, w) ==
    new' = [new EXCEPT ![t] = [r \in DOMAIN w \cup DOMAIN new[t] |->
                                  IF r \in DOMAIN w THEN w[r] ELSE new[t][r]]]

\* Nobody else has an uncommitted version of r; r is free to be deleted if nobody
\* else has a key-share lock on it either.
Writable(t, r) == \A u \in Others(t) : r \notin DOMAIN new[u]
Erasable(t, r) == Writable(t, r) /\ \A u \in Others(t) : r \notin shared[u]

\* The versions of r that a unique index shows t: its own, or the committed one
\* and that of whoever is writing it, for whose end t would wait.
Versions(t, r) ==
    IF r \in DOMAIN new[t] THEN {new[t][r]}
    ELSE {db[r]} \cup {new[u][r] : u \in {w \in Others(t) : r \in DOMAIN new[w]}}

\* NULLs are never equal, and a partial index holds only the rows it is about.
SameKey(k, v, w) ==
    /\ \A c \in k.columns : v[c] # Null /\ v[c] = w[c]
    /\ \A c \in k.whereNull : v[c] = Null /\ w[c] = Null

Clash(t, r, v) ==
    \E s \in Rows[Table[r]] \ {r}, k \in Schema[Table[r]].unique :
        \E w \in Versions(t, s) : w # Absent /\ SameKey(k, v, w)

Parents(r, v) == {v[f.column] : f \in Refs[r]} \ {Null}

Statement(t) == count[t] < MaxStatements /\ count' = [count EXCEPT ![t] = @ + 1]

Insert(t, r, v) ==
    /\ Statement(t)
    /\ View(t)[r] = Absent /\ Writable(t, r) /\ ~Clash(t, r, v)
    /\ \A p \in Parents(r, v) : /\ View(t)[p] # Absent
                                /\ \A u \in Others(t) : p \in DOMAIN new[u] => new[u][p] # Absent
    /\ Write(t, [s \in {r} |-> v])
    /\ shared' = [shared EXCEPT ![t] = @ \cup Parents(r, v)]
    /\ UNCHANGED db

\* Sets or clears a column that may be NULL and is no reference.  That is no key
\* of another table: a key-share lock does not stand in its way.
Stamp(t, r, c, x) ==
    LET v == [View(t)[r] EXCEPT ![c] = x] IN
    /\ Statement(t)
    /\ View(t)[r] # Absent /\ View(t)[r][c] # x /\ Writable(t, r) /\ ~Clash(t, r, v)
    /\ Write(t, [s \in {r} |-> v])
    /\ UNCHANGED <<db, shared>>

\* The rows that refer to r by a reference with this ON DELETE, as t sees them.
Referring(t, r, onDelete) ==
    {s \in Row : View(t)[s] # Absent /\ \E f \in Refs[s] :
                    f.onDelete = onDelete /\ View(t)[s][f.column] = r}

\* ON DELETE SET NULL.
Forget(s, r, v) ==
    [c \in DOMAIN v |->
        IF v[c] = r /\ \E f \in Refs[s] : f.column = c /\ f.onDelete = "SET_NULL"
        THEN Null ELSE v[c]]

Delete(t, r) ==
    LET gone == {r} \cup Referring(t, r, "CASCADE")
        nulled == Referring(t, r, "SET_NULL")
    IN  /\ Statement(t)
        /\ View(t)[r] # Absent
        /\ Referring(t, r, "RESTRICT") = {}
        /\ \A s \in gone : Erasable(t, s)
        /\ \A s \in nulled : Writable(t, s)
        /\ Write(t, [s \in gone \cup nulled |->
                        IF s \in gone THEN Absent ELSE Forget(s, r, View(t)[s])])
        /\ UNCHANGED <<db, shared>>

End(t) ==
    /\ new' = [new EXCEPT ![t] = Idle(t)]
    /\ shared' = [shared EXCEPT ![t] = {}]
    /\ count' = [count EXCEPT ![t] = 0]

Commit(t) == count[t] > 0 /\ db' = View(t) /\ End(t)

Rollback(t) == count[t] > 0 /\ End(t) /\ UNCHANGED db

Next ==
    \E t \in Transactions :
        \/ \E s \in Tables : \E r \in Rows[s] :
             \/ \E v \in Contents[s] : Insert(t, r, v)
             \/ \E c \in Schema[s].nullable \ {f.column : f \in Schema[s].refs} :
                  \E x \in Domain(s, c) : Stamp(t, r, c, x)
             \/ s \notin AuditTables /\ Delete(t, r)
        \/ Commit(t)
        \/ Rollback(t)

Spec == Init /\ [][Next]_vars

-----------------------------------------------------------------------------
\* Properties.

Stored(t) == {r \in Rows[t] : db[r] # Absent}

\* "I approved twice and got two spendable tokens" is unrepresentable: however
\* transactions mint, consume, revive and delete tokens side by side, at most one
\* token of a proposal's hash is live.
OneLiveToken ==
    \A h \in Values["proposal_hash"] :
        Cardinality({k \in Stored("auth_tokens") :
            db[k].proposal_hash = h /\ db[k].consumed_at = Null}) <= 1

\* Even if a token's consumption is undone, no second attempt is recorded on it.
OneAttemptPerToken ==
    \A x, y \in Stored("tx_attempts") : db[x].token_jti = db[y].token_jti => x = y

\* Deleting proposals, operators and tokens never takes the record of a decision
\* or an attempt with it, nor the proposal, operator and attempted token it names.
\* (Which token an approval minted is not kept: that reference is SET NULL.)
TrailKept ==
    [][\A a \in AuditTables : \A r \in Stored(a) :
         /\ db'[r] # Absent
         /\ \A f \in {g \in Refs[r] : g.onDelete = "RESTRICT"} :
              /\ db'[r][f.column] = db[r][f.column]
              /\ db'[db[r][f.column]] # Absent]_vars
=============================================================================
