--------------------------- MODULE ImportConfirm ---------------------------
(***************************************************************************)
(* The idempotent, chunked import confirm (execute_import): every request  *)
(* with one idempotency key of one organisation, running concurrently,     *)
(* dying at any point and being repeated, while the user may delete rows   *)
(* that already arrived.                                                   *)
(*                                                                         *)
(* The progress of the confirm is on the import_batches header that holds  *)
(* the key.  A chunk runs under the header's row lock in one database      *)
(* transaction, so it is one step; reads outside the lock are steps of     *)
(* their own and may be stale when used.                                   *)
(*                                                                         *)
(* A row of the file either writes a transaction or does not (dropped,     *)
(* skipped by the user, failed); which one depends on the whole ledger and *)
(* is left open here.                                                      *)
(***************************************************************************)
EXTENDS Integers, FiniteSets, FiniteSetsExt

CONSTANTS
    Requests,    \* confirm requests with the key, first ones and repeats
    Bodies,      \* contents a request may carry; the request hash of each
    RowCount,    \* rows of a file
    ChunkRows,   \* CONFIRM_CHUNK_ROWS
    MaxHeaders,  \* bound: headers ever created
    None

VARIABLES
    header,   \* the header with the key, or None
    created,  \* headers created so far; also the id of the latest
    live,     \* per header id and row: transactions now in the ledger
    pc,       \* where each request is
    body,     \* what it carries
    seen,     \* the header it read outside the lock
    mine,     \* the header id it drives
    answer    \* the rows its response reports as imported

vars == <<header, created, live, pc, body, seen, mine, answer>>

HeaderIds == 1 .. MaxHeaders
Rows      == Bodies \X (1 .. RowCount)

Header == [id : HeaderIds, hash : Bodies, next : 0 .. RowCount,
           completed : BOOLEAN, rows : Nat, response : SUBSET Rows]

ASSUME ConfirmAssumption ==
    /\ RowCount \in Nat
    /\ ChunkRows \in Nat \ {0}
    /\ MaxHeaders \in Nat \ {0}
    /\ None \notin Bodies \cup Header

Running  == {"begin", "claim", "reread", "run"}
Finished == {"done", "conflict", "error", "crashed"}

-----------------------------------------------------------------------------
\* The client sends a confirm with the key, or repeats one.
SendConfirm(r, bd) ==
    /\ pc[r] = "idle"
    /\ pc' = [pc EXCEPT ![r] = "begin"]
    /\ body' = [body EXCEPT ![r] = bd]
    /\ UNCHANGED <<header, created, live, seen, mine, answer>>

\* The first read of a database transaction fixes what _find_keyed_batch sees.
TakeSnapshot(r) ==
    /\ pc[r] = "begin"
    /\ seen' = [seen EXCEPT ![r] = header]
    /\ pc' = [pc EXCEPT ![r] = "claim"]
    /\ UNCHANGED <<header, created, live, body, mine, answer>>

NewHeader(bd) ==
    [id |-> created + 1, hash |-> bd, next |-> 0, completed |-> FALSE,
     rows |-> 0, response |-> {}]

\* _claim_confirm without an existing header: insert one and commit it.
ClaimNew(r) ==
    /\ pc[r] = "claim"
    /\ seen[r] = None
    /\ header = None
    /\ created < MaxHeaders
    /\ header' = NewHeader(body[r])
    /\ created' = created + 1
    /\ mine' = [mine EXCEPT ![r] = created + 1]
    /\ pc' = [pc EXCEPT ![r] = "run"]
    /\ UNCHANGED <<live, body, seen, answer>>

\* The insert hits the unique index: roll back and look again.
ClaimRaced(r) ==
    /\ pc[r] = "claim"
    /\ seen[r] = None
    /\ header # None
    /\ pc' = [pc EXCEPT ![r] = "reread"]
    /\ UNCHANGED <<header, created, live, body, seen, mine, answer>>

\* The second look finds the winner's header, or the insert's error is raised.
Reread(r) ==
    /\ pc[r] = "reread"
    /\ seen' = [seen EXCEPT ![r] = header]
    /\ pc' = [pc EXCEPT ![r] = IF header = None THEN "error" ELSE "claim"]
    /\ UNCHANGED <<header, created, live, body, mine, answer>>

\* Mutant: the request hash is not compared.
SameRequestAlways(r) == TRUE

SameRequest(r) == seen[r].hash = body[r]

\* _claim_confirm with an existing header: attach to it, or refuse.
ClaimExisting(r) ==
    /\ pc[r] = "claim"
    /\ seen[r] # None
    /\ IF SameRequest(r)
       THEN /\ mine' = [mine EXCEPT ![r] = seen[r].id]
            /\ pc' = [pc EXCEPT ![r] = "run"]
       ELSE /\ pc' = [pc EXCEPT ![r] = "conflict"]
            /\ UNCHANGED mine
    /\ UNCHANGED <<header, created, live, body, seen, answer>>

-----------------------------------------------------------------------------
(* _run_keyed: one iteration, under the lock of the header. *)

HoldsHeader(r) == pc[r] = "run" /\ header # None /\ header.id = mine[r]

\* Mutant: progress is written one row short.
OneRowShort(start) ==
    IF start + ChunkRows < RowCount THEN start + ChunkRows - 1 ELSE RowCount

\* Mutant: the last chunk counts as a whole one.
Unclamped(start) == start + ChunkRows

NextRow(start) ==
    IF start + ChunkRows < RowCount THEN start + ChunkRows ELSE RowCount

Slice(r, start) ==
    {x \in Rows : x[1] = body[r] /\ start < x[2] /\ x[2] <= start + ChunkRows}

\* Mutant: every completed confirm gives its header up.
AlwaysEmpty(count) == TRUE

\* A completed confirm with no rows on its header removes the header.
IsEmpty(count) == count = 0

\* W: the rows of the slice that write a transaction.
RunChunk(r, W) ==
    LET next      == NextRow(header.next)
        completed == next = RowCount
        count     == header.rows + Cardinality(W)
        response  == header.response \cup W
    IN  /\ HoldsHeader(r)
        /\ ~header.completed
        /\ W \subseteq Slice(r, header.next)
        /\ live' = [live EXCEPT ![mine[r]] =
                      [x \in Rows |-> @[x] + IF x \in W THEN 1 ELSE 0]]
        /\ header' = IF completed /\ IsEmpty(count) THEN None
                     ELSE [header EXCEPT !.next = next, !.completed = completed,
                                         !.rows = count, !.response = response]
        /\ IF completed
           THEN /\ pc' = [pc EXCEPT ![r] = "done"]
                /\ answer' = [answer EXCEPT ![r] = response]
           ELSE UNCHANGED <<pc, answer>>
        /\ UNCHANGED <<created, body, seen, mine>>

\* The confirm is complete: return the stored response.
Replay(r) ==
    /\ HoldsHeader(r)
    /\ header.completed
    /\ pc' = [pc EXCEPT ![r] = "done"]
    /\ answer' = [answer EXCEPT ![r] = header.response]
    /\ UNCHANGED <<header, created, live, body, seen, mine>>

\* Mutant: the lookup is repeated on the old read snapshot.
VanishedKeepsSnapshot(r) ==
    /\ pc[r] = "run"
    /\ ~HoldsHeader(r)
    /\ pc' = [pc EXCEPT ![r] = "claim"]
    /\ UNCHANGED <<header, created, live, body, seen, mine, answer>>

\* The header is gone: claim afresh in a new database transaction.
Vanished(r) ==
    /\ pc[r] = "run"
    /\ ~HoldsHeader(r)
    /\ pc' = [pc EXCEPT ![r] = "begin"]
    /\ UNCHANGED <<header, created, live, body, seen, mine, answer>>

\* The worker dies or the request fails between two commits.
Crash(r) ==
    /\ pc[r] \in Running
    /\ pc' = [pc EXCEPT ![r] = "crashed"]
    /\ UNCHANGED <<header, created, live, body, seen, mine, answer>>

-----------------------------------------------------------------------------
\* The user deletes an imported transaction: its header counts one row less.
DeleteImported(h, x) ==
    /\ live[h][x] > 0
    /\ live' = [live EXCEPT ![h][x] = @ - 1]
    /\ header' = IF header # None /\ header.id = h /\ header.rows > 0
                 THEN [header EXCEPT !.rows = @ - 1] ELSE header
    /\ UNCHANGED <<created, pc, body, seen, mine, answer>>

-----------------------------------------------------------------------------
Init ==
    /\ header = None
    /\ created = 0
    /\ live = [h \in HeaderIds |-> [x \in Rows |-> 0]]
    /\ pc = [r \in Requests |-> "idle"]
    /\ body = [r \in Requests |-> None]
    /\ seen = [r \in Requests |-> None]
    /\ mine = [r \in Requests |-> 0]
    /\ answer = [r \in Requests |-> {}]

\* A request's own steps.
Advance(r) ==
    \/ TakeSnapshot(r)
    \/ ClaimNew(r)
    \/ ClaimRaced(r)
    \/ Reread(r)
    \/ ClaimExisting(r)
    \/ \E W \in SUBSET Rows : RunChunk(r, W)
    \/ Replay(r)
    \/ Vanished(r)

Next ==
    \/ \E r \in Requests, bd \in Bodies : SendConfirm(r, bd)
    \/ \E r \in Requests : Advance(r)
    \/ \E r \in Requests : Crash(r)
    \/ \E h \in HeaderIds, x \in Rows : DeleteImported(h, x)

Spec == Init /\ [][Next]_vars

\* A request that runs is scheduled: the event loop does not drop it.
FairSpec == Spec /\ \A r \in Requests : WF_vars(Advance(r))

-----------------------------------------------------------------------------
(* Properties. *)

\* The header has the columns of ImportBatch and its confirm_state, and every
\* request is at one of its program points.
TypeOK ==
    /\ header \in Header \cup {None}
    /\ created \in 0 .. MaxHeaders
    /\ live \in [HeaderIds -> [Rows -> Nat]]
    /\ pc \in [Requests -> {"idle"} \cup Running \cup Finished]
    /\ body \in [Requests -> Bodies \cup {None}]
    /\ seen \in [Requests -> Header \cup {None}]
    /\ mine \in [Requests -> 0 .. MaxHeaders]
    /\ answer \in [Requests -> SUBSET Rows]

\* However requests race, die and are repeated, no row of the file is in the
\* ledger twice.
NoDuplicateRow ==
    \A h, k \in HeaderIds, x \in Rows :
       live[h][x] > 0 /\ live[k][x] > 0 => h = k /\ live[h][x] = 1

\* One key imports one file: transactions of two different request bodies are
\* never in the ledger under it at the same time.
KeyNeverMixes ==
    \A h, k \in HeaderIds, x, y \in Rows :
       live[h][x] > 0 /\ live[k][y] > 0 => x[1] = y[1]

\* What is in the ledger under a key, at any time.
ConfirmSafe == TypeOK /\ NoDuplicateRow /\ KeyNeverMixes

\* The chunks, claims, races, deletes and repeats together import the file
\* once, as ImportOnce says: no row arrives while its transaction is there,
\* and every response of a finished import reports all of it.
Once == INSTANCE ImportOnce WITH
          written  <- {x \in Rows : \E h \in HeaderIds : live[h][x] > 0},
          reported <- IF header = None THEN {} ELSE header.response,
          final    <- header # None /\ header.completed

ImplementsImportOnce == Once!Spec

\* Every confirm that is sent is answered, refused, or dies: the loop of
\* execute_import that claims afresh ends.
EveryConfirmEnds ==
    \A r \in Requests : pc[r] = "begin" ~> pc[r] \in Finished

=============================================================================
