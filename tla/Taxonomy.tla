------------------------------ MODULE Taxonomy ------------------------------
(***************************************************************************)
(* The categories of an organisation: a tree of two levels, edited by      *)
(* requests that read the rows, check the rules and then commit the rows   *)
(* they insert, change or delete.  Foreign keys hold at the commit; the    *)
(* rules are checked on what was read.  Dependents are what refers to a    *)
(* category: entries with a type (transactions, templates, planned items), *)
(* transfer pairs, links of scenarios and goals, rules and budgets.        *)
(***************************************************************************)
EXTENDS Integers, FiniteSets, Functions

CONSTANTS
    Ids,          \* identities of categories: positive numbers
    SystemRow,    \* the recommended categories: id -> row
    Deps,         \* dependents
    CatEdits,     \* requests that edit categories
    MaxCatEdits,  \* bound: edits in a behaviour whose edits do not overlap
    MaxOverlaps   \* bound: edits in one whose edits may

VARIABLES
    cat,       \* id -> row, or NoCat
    dep,       \* dependent -> [of, kind]; of is 0 while it does not exist
    catEdit,   \* per request: the edit in progress
    alone,     \* whether requests run one at a time in this behaviour
    restored,  \* a recommended category came back under a master of another type
    spent,     \* identities given out: they are never given out again
    catEdits   \* edits begun

taxonomyVars == <<cat, dep, catEdit, alone, restored, spent, catEdits>>

Types == {"income", "expense", "both"}
Kinds == {"income", "expense", "pair", "link", "rule", "budget"}
\* A row of categories.
CategoryRow == [type : Types, parent : Ids \cup {0}]
NoCat == [type |-> "none", parent |-> 0]
NoDep == [of |-> 0, kind |-> "none"]

\* What the proofs ask of the constants: the recommended categories are a tree
\* of two levels whose types agree, with a master and a subcategory of each side.
TaxonomyAssumption ==
    /\ IsFiniteSet(Ids) /\ 0 \notin Ids
    /\ DOMAIN SystemRow \subseteq Ids
    /\ \A c \in DOMAIN SystemRow :
          /\ SystemRow[c] \in CategoryRow
          /\ SystemRow[c].parent # 0 =>
                /\ SystemRow[c].parent \in DOMAIN SystemRow
                /\ SystemRow[SystemRow[c].parent].parent = 0
                /\ SystemRow[SystemRow[c].parent].type = SystemRow[c].type
    /\ \A t \in {"income", "expense"} :
          /\ \E c \in DOMAIN SystemRow : SystemRow[c].parent = 0 /\ SystemRow[c].type = t
          /\ \E c \in DOMAIN SystemRow : SystemRow[c].parent # 0 /\ SystemRow[c].type = t

-----------------------------------------------------------------------------
(* Reading the tree. *)

There(c)    == cat[c] # NoCat
IsMaster(c) == There(c) /\ cat[c].parent = 0
IsSub(c)    == There(c) /\ cat[c].parent # 0
Children(c) == {b \in Ids : There(b) /\ cat[b].parent = c}

MastersOf(t) == {c \in Ids : IsMaster(c) /\ cat[c].type = t}
\* A subcategory counts for the type of its master.
SubsOf(t) == {c \in Ids : IsSub(c) /\ cat[cat[c].parent].type = t}

\* The sides an entry books on: a transfer pair needs both.
Sides(kind) ==
    CASE kind \in {"income", "expense"} -> {kind}
      [] kind = "pair" -> {"income", "expense"}
      [] OTHER -> {}
Accepts(type) == IF type = "both" THEN {"income", "expense"} ELSE {type}

On(c) == {d \in Deps : dep[d].of = c}
\* _dependent_breakdown: what makes a migration target necessary.
Dependents(c) == {d \in On(c) : dep[d].kind \notin {"rule", "budget"}}
SidesOn(c) == UNION {Sides(dep[d].kind) : d \in On(c)}

-----------------------------------------------------------------------------
(* The rules. *)

\* Mutant: the last subcategory may go when a master is left.
FloorOfMasters(c) ==
    \A t \in {"income", "expense"} :
        IsMaster(c) /\ cat[c].type = t => Cardinality(MastersOf(t)) > 1

\* assert_min_floor_after_delete, for a category without children.
FloorAfterDelete(c) ==
    \A t \in {"income", "expense"} :
        /\ IsMaster(c) /\ cat[c].type = t => Cardinality(MastersOf(t)) > 1
        /\ IsSub(c) /\ cat[cat[c].parent].type = t => Cardinality(SubsOf(t)) > 1

\* assert_min_floor_after_type_change.
FloorAfterTypeChange(c, type) ==
    LET t == cat[c].type
    IN  IF t = "both" THEN TRUE
        ELSE IF IsMaster(c)
        THEN /\ Cardinality(MastersOf(t)) > 1
             /\ Cardinality(SubsOf(t)) > Cardinality(Children(c))
        ELSE LET m == cat[cat[c].parent].type
             IN  m \in {"income", "expense"} /\ type # m => Cardinality(SubsOf(m)) > 1

\* validate_category_type_change: no entry of the category or of its children
\* is on the other side, and none is a transfer pair.
TypeChangeValid(c, type) ==
    \A b \in {c} \cup Children(c) : SidesOn(b) \subseteq Accepts(type)

\* _resolve_for_move, the names apart.
MoveValid(c, target) ==
    /\ IsSub(c)
    /\ IsMaster(target)
    /\ target # cat[c].parent
    /\ cat[c].type = cat[target].type

\* Mutant: a category for both may be merged into any other.
TargetOfAnyType(c, target) ==
    cat[c].type = "both" \/ cat[target].type \in {cat[c].type, "both"}

\* _check_target_compatibility_for_delete
TargetCompatible(c, target) ==
    IF cat[c].type # "both" THEN cat[target].type \in {cat[c].type, "both"}
    ELSE SidesOn(c) \subseteq Accepts(cat[target].type)

-----------------------------------------------------------------------------
(* Edits. *)

NoCatEdit == [pc |-> "idle", strict |-> TRUE, insert |-> <<>>, type |-> <<>>,
              parent |-> <<>>, del |-> 0, target |-> 0, rules |-> {}]

Quiet == \A p \in CatEdits : catEdit[p].pc = "idle"
MayAct == alone => Quiet
MayEdit == MayAct /\ catEdits < (IF alone THEN MaxCatEdits ELSE MaxOverlaps)

Begin(p, edit) ==
    /\ catEdit[p].pc = "idle"
    /\ MayEdit
    /\ catEdits' = catEdits + 1
    /\ catEdit' = [catEdit EXCEPT ![p] = edit]
    /\ spent' = spent \cup DOMAIN edit.insert
    /\ UNCHANGED <<cat, dep, alone, restored>>

Edit(f) == [k \in DOMAIN NoCatEdit |->
    IF k \in DOMAIN f THEN f[k] ELSE IF k = "pc" THEN "commit" ELSE NoCatEdit[k]]

\* Mutant: a category may be put below a subcategory.
NestedCreate(p, c, parent, type) ==
    /\ c \notin spent
    /\ parent # 0 => There(parent)
    /\ Begin(p, Edit([insert |-> [b \in {c} |->
          [type |-> IF parent = 0 THEN type ELSE cat[parent].type, parent |-> parent]]]))

\* A subcategory takes the type of its master.
CreateCategory(p, c, parent, type) ==
    /\ c \notin spent
    /\ parent # 0 => IsMaster(parent)
    /\ Begin(p, Edit([insert |-> [b \in {c} |->
          [type |-> IF parent = 0 THEN type ELSE cat[parent].type, parent |-> parent]]]))

\* Mutant: the children keep their type.
UpdateMasterOnly(p, c, type) ==
    /\ There(c)
    /\ type # cat[c].type
    /\ IsSub(c) => type = cat[cat[c].parent].type
    /\ TypeChangeValid(c, type)
    /\ FloorAfterTypeChange(c, type)
    /\ Begin(p, Edit([type |-> [b \in {c} |-> type]]))

\* A change of a master's type is written to its children.
UpdateCategory(p, c, type) ==
    /\ There(c)
    /\ type # cat[c].type
    /\ IsSub(c) => type = cat[cat[c].parent].type
    /\ TypeChangeValid(c, type)
    /\ FloorAfterTypeChange(c, type)
    /\ Begin(p, Edit([type |-> [b \in {c} \cup Children(c) |-> type]]))

MoveSubcategory(p, c, target) ==
    /\ MoveValid(c, target)
    /\ Begin(p, Edit([parent |-> [b \in {c} |-> target]]))

\* All moves are checked in one transaction and written in a later one, by
\* updates that skip a row that is gone.
BatchMove(p, moves) ==
    /\ \A c \in DOMAIN moves : MoveValid(c, moves[c])
    /\ Begin(p, Edit([parent |-> moves, strict |-> FALSE]))

\* plan_category_delete; target is 0 when none is given.
DeleteCategory(p, c, target) ==
    /\ There(c)
    /\ Children(c) = {}
    /\ FloorAfterDelete(c)
    /\ IF Dependents(c) = {} THEN target = 0
       ELSE target \notin {0, c} /\ There(target) /\ TargetCompatible(c, target)
    /\ Begin(p, Edit([del |-> c, target |-> target,
                      rules |-> {d \in On(c) : dep[d].kind = "rule"}]))

\* What happens to a dependent when c is deleted: rules move with the target,
\* budgets go, the rest moves.
Migrated(q, d) ==
    LET x == dep[d]
    IN  IF q.del = 0 \/ x.of # q.del THEN x
        ELSE IF x.kind = "budget" \/ (x.kind = "rule" /\ q.target = 0) THEN NoDep
        ELSE IF q.target = 0 \/ (x.kind = "rule" /\ d \notin q.rules) THEN x
        ELSE [x EXCEPT !.of = q.target]

\* The rows after the edit's columns are written.
Written(q, c) ==
    IF c = q.del THEN NoCat
    ELSE IF c \in DOMAIN q.insert THEN q.insert[c]
    ELSE IF ~ There(c) THEN NoCat
    ELSE [type   |-> IF c \in DOMAIN q.type THEN q.type[c] ELSE cat[c].type,
          parent |-> IF c \in DOMAIN q.parent THEN q.parent[c] ELSE cat[c].parent]

\* The commit: a row the edit changes or deletes must still be there, and what
\* a row refers to must exist; otherwise all of it is rolled back.
CommitCatEdit(p) ==
    LET q     == catEdit[p]
        rows  == [c \in Ids |-> Written(q, c)]
        deps  == [d \in Deps |-> Migrated(q, d)]
        clean == /\ q.strict => \A c \in DOMAIN q.type \cup DOMAIN q.parent : There(c)
                 /\ q.del # 0 => There(q.del)
                 /\ \A c \in Ids : rows[c].parent # 0 => rows[rows[c].parent] # NoCat
                 /\ \A d \in Deps : deps[d].of # 0 => rows[deps[d].of] # NoCat
    IN  /\ q.pc = "commit"
        /\ IF clean THEN cat' = rows /\ dep' = deps ELSE UNCHANGED <<cat, dep>>
        /\ catEdit' = [catEdit EXCEPT ![p] = NoCatEdit]
        /\ UNCHANGED <<alone, restored, spent, catEdits>>

\* restore_recommended_categories: the missing ones come back with the type of
\* the recommendation, below the master as it is now.
RestoreRecommended ==
    LET missing == {c \in DOMAIN SystemRow : ~ There(c)}
    IN  /\ missing # {}
        /\ MayEdit
        /\ catEdits' = catEdits + 1
        /\ cat' = [c \in Ids |-> IF c \in missing THEN SystemRow[c] ELSE cat[c]]
        /\ restored' = (restored \/ \E c \in missing :
              SystemRow[c].parent # 0 /\ cat'[SystemRow[c].parent].type # SystemRow[c].type)
        /\ UNCHANGED <<dep, catEdit, alone, spent>>

\* validate_category_for_type: an entry is recorded on a category that accepts
\* its side, and so does its master.
RecordEntry(d, c, kind) ==
    /\ dep[d] = NoDep
    /\ MayAct
    /\ There(c)
    /\ Sides(kind) \subseteq Accepts(cat[c].type)
    /\ IsSub(c) => Sides(kind) \subseteq Accepts(cat[cat[c].parent].type)
    /\ dep' = [dep EXCEPT ![d] = [of |-> c, kind |-> kind]]
    /\ UNCHANGED <<cat, catEdit, alone, restored, spent, catEdits>>

-----------------------------------------------------------------------------
TaxonomyInit ==
    /\ cat = [c \in Ids |-> IF c \in DOMAIN SystemRow THEN SystemRow[c] ELSE NoCat]
    /\ dep = [d \in Deps |-> NoDep]
    /\ catEdit = [p \in CatEdits |-> NoCatEdit]
    /\ alone \in BOOLEAN
    /\ restored = FALSE
    /\ spent = DOMAIN SystemRow
    /\ catEdits = 0

TaxonomyNext ==
    \/ /\ MayEdit   \* of each edit: asked here once
       /\ \E p \in {q \in CatEdits : catEdit[q].pc = "idle"}, c \in Ids :
          \/ \E m \in Ids \cup {0}, t \in Types : CreateCategory(p, c, m, t)
          \/ \E t \in Types : UpdateCategory(p, c, t)
          \/ \E m \in Ids : MoveSubcategory(p, c, m)
          \/ \E m \in Ids \cup {0} : DeleteCategory(p, c, m)
    \/ /\ MayEdit
       /\ \E p \in CatEdits, S \in SUBSET {c \in Ids : IsSub(c)} :
          /\ Cardinality(S) = 2
          /\ \E moves \in [S -> {c \in Ids : IsMaster(c)}] : BatchMove(p, moves)
    \/ \E p \in CatEdits : CommitCatEdit(p)
    \/ RestoreRecommended
    \/ \E d \in Deps, c \in Ids, kind \in Kinds : RecordEntry(d, c, kind)

-----------------------------------------------------------------------------
(* Properties. *)

\* Types are those of the enum and the tree has two levels, whatever edits
\* overlap: a parent exists and is a master.
TaxonomyTypeOK ==
    /\ \A c \in Ids : There(c) => cat[c] \in CategoryRow
    /\ \A c \in Ids : IsSub(c) => IsMaster(cat[c].parent)
    /\ \A d \in Deps : dep[d] = NoDep \/ (dep[d].kind \in Kinds /\ There(dep[d].of))

\* A subcategory has the type of its master while edits do not overlap and no
\* recommended category came back below a master whose type was changed.
TypesAgree ==
    alone /\ ~ restored =>
        \A c \in Ids : IsSub(c) => cat[c].type = cat[cat[c].parent].type

\* While edits do not overlap, the organisation keeps a master and a
\* subcategory of each side: no sequence of deletions, moves and type changes
\* takes the last one.
FloorKept ==
    alone /\ ~ restored => \A t \in {"income", "expense"} :
        MastersOf(t) # {} /\ SubsOf(t) # {}

\* While edits do not overlap, every entry is on a category that accepts its
\* side, through type changes and migrations of a deleted category's entries.
EntriesAccepted ==
    alone => \A d \in Deps : dep[d] # NoDep =>
        Sides(dep[d].kind) \subseteq Accepts(cat[dep[d].of].type)
=============================================================================
