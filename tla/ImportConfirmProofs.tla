------------------------ MODULE ImportConfirmProofs ------------------------
(* Why one idempotency key imports one file once, for any number of requests, *)
(* bodies and rows and any size of a chunk, and why the confirm implements    *)
(* ImportOnce.                                                                *)
EXTENDS ImportConfirm, FiniteSetTheorems, TLAPS

\* Rows whose transactions are in the ledger.
Written == {x \in Rows : \E h \in HeaderIds : live[h][x] > 0}

\* A request that was sent has a body.
Sent == \A r \in Requests : pc[r] # "idle" => body[r] \in Bodies
\* The header with the key is the one created last, so ids are never used again.
Latest == header # None => header.id = created
\* What was read of a header without its lock: its id, and a body that an id
\* still belongs to if the header is there at all.
Recalls(sn) ==
    sn # None => /\ sn.id <= created
                 /\ header # None /\ header.id = sn.id => header.hash = sn.hash
\* A request drives a header of its own body, or one that is gone.
Drives(p, bd, m) ==
    /\ m <= created
    /\ p = "run" /\ header # None /\ header.id = m => header.hash = bd
Claims == \A r \in Requests : Recalls(seen[r]) /\ Drives(pc[r], body[r], mine[r])
\* Transactions belong to the header there is and to rows it is past.
Placed ==
    \A h \in HeaderIds, x \in Rows : live[h][x] > 0 =>
        /\ header # None /\ header.id = h
        /\ live[h][x] = 1
        /\ x[1] = header.hash /\ x[2] <= header.next
\* row_count counts them.
Counted == /\ IsFiniteSet(Written)
           /\ header # None => header.rows = Cardinality(Written)

Tables == Latest /\ Placed /\ Counted
ConfirmInv == TypeOK /\ Sent /\ Claims /\ Tables

-----------------------------------------------------------------------------
LEMMA RowFields ==
    ASSUME NEW x \in Rows
    PROVE  x[1] \in Bodies /\ x[2] \in 1 .. RowCount
  BY DEF Rows

LEMMA SliceFinite ==
    ASSUME NEW r \in Requests, NEW start \in Nat, NEW W \in SUBSET Slice(r, start)
    PROVE  IsFiniteSet(W) /\ W \in SUBSET Rows
<1> DEFINE I == (start + 1) .. (start + ChunkRows)
           f == [n \in I |-> <<body[r], n>>]
           T == {f[n] : n \in I}
<1>1. IsFiniteSet(I)
  BY ConfirmAssumption, FS_Interval
<1>2. f \in Surjection(I, T)
  BY DEF Surjection
<1>3. IsFiniteSet(T)
  <2> HIDE DEF I, f, T
  <2> QED BY <1>1, <1>2, FS_Surjection
<1>4. Slice(r, start) \subseteq T
  <2>1. SUFFICES ASSUME NEW x \in Slice(r, start) PROVE x \in T
    OBVIOUS
  <2>2. x \in Rows /\ x[1] = body[r] /\ start < x[2] /\ x[2] <= start + ChunkRows
    BY <2>1 DEF Slice
  <2>3. x = <<x[1], x[2]>> /\ x[2] \in 1 .. RowCount
    BY <2>2 DEF Rows
  <2>4. x[2] \in I
    BY <2>2, <2>3, ConfirmAssumption
  <2>5. f[x[2]] = x
    BY <2>2, <2>3, <2>4
  <2> QED BY <2>4, <2>5
<1>5. W \subseteq T
  BY <1>4
<1>6. IsFiniteSet(W)
  <2> HIDE DEF T
  <2> QED BY <1>3, <1>5, FS_Subset
<1> QED BY <1>6 DEF Slice

LEMMA InitInv == Init => ConfirmInv
<1> SUFFICES ASSUME Init PROVE ConfirmInv
  OBVIOUS
<1>1. TypeOK
  BY ConfirmAssumption DEF Init, TypeOK, Running, Finished
<1>2. Written = {}
  BY DEF Init, Written
<1>3. Tables
  BY <1>2, FS_EmptySet DEF Init, Tables, Latest, Placed, Counted
<1>4. Sent /\ Claims
  BY ConfirmAssumption DEF Init, Sent, Claims, Recalls, Drives
<1> QED BY <1>1, <1>3, <1>4 DEF ConfirmInv

-----------------------------------------------------------------------------
\* A request moves on while the tables stay.
LEMMA RequestKeeps ==
    ASSUME ConfirmInv, NEW r \in Requests, UNCHANGED <<header, created, live>>,
           NEW p \in {"idle"} \cup Running \cup Finished, NEW bd \in Bodies,
           NEW sn \in Header \cup {None}, NEW m \in 0 .. MaxHeaders, NEW an \in SUBSET Rows,
           pc' = [pc EXCEPT ![r] = p], body' = [body EXCEPT ![r] = bd],
           seen' = [seen EXCEPT ![r] = sn], mine' = [mine EXCEPT ![r] = m],
           answer' = [answer EXCEPT ![r] = an],
           Recalls(sn), Drives(p, bd, m)
    PROVE  ConfirmInv'
<1>1. TypeOK'
  BY DEF ConfirmInv, TypeOK
<1>2. Sent'
  BY DEF ConfirmInv, TypeOK, Sent
<1>3. Tables'
  BY DEF ConfirmInv, Tables, Latest, Placed, Counted, Written
<1>4. Claims'
  <2>1. SUFFICES ASSUME NEW q \in Requests
                 PROVE  (Recalls(seen[q]) /\ Drives(pc[q], body[q], mine[q]))'
    BY DEF Claims
  <2>2. CASE q = r
    <3>1. seen'[q] = sn /\ pc'[q] = p /\ body'[q] = bd /\ mine'[q] = m
      BY <2>2 DEF ConfirmInv, TypeOK
    <3> QED BY <3>1 DEF Recalls, Drives
  <2>3. CASE q # r
    <3>1. seen'[q] = seen[q] /\ pc'[q] = pc[q] /\ body'[q] = body[q] /\ mine'[q] = mine[q]
      BY <2>3 DEF ConfirmInv, TypeOK
    <3>2. Recalls(seen[q]) /\ Drives(pc[q], body[q], mine[q])
      BY DEF ConfirmInv, Claims
    <3> QED BY <3>1, <3>2 DEF Recalls, Drives
  <2> QED BY <2>2, <2>3
<1> QED BY <1>1, <1>2, <1>3, <1>4 DEF ConfirmInv

\* A request moves on and nothing else changes.
LEMMA MoveKeeps ==
    ASSUME ConfirmInv, NEW r \in Requests, NEW p \in {"idle"} \cup Running \cup Finished,
           body[r] \in Bodies, pc' = [pc EXCEPT ![r] = p],
           UNCHANGED <<header, created, live, body, seen, mine, answer>>,
           Drives(p, body[r], mine[r])
    PROVE  ConfirmInv'
<1>1. /\ body' = [body EXCEPT ![r] = body[r]] /\ seen' = [seen EXCEPT ![r] = seen[r]]
      /\ mine' = [mine EXCEPT ![r] = mine[r]] /\ answer' = [answer EXCEPT ![r] = answer[r]]
      /\ seen[r] \in Header \cup {None} /\ mine[r] \in 0 .. MaxHeaders /\ answer[r] \in SUBSET Rows
  BY DEF ConfirmInv, TypeOK
<1>2. Recalls(seen[r])
  BY DEF ConfirmInv, Claims
<1> QED BY <1>1, <1>2, RequestKeeps

\* The steps of a request that change no table.
LEMMA ReadKeeps ==
    ASSUME ConfirmInv, NEW r \in Requests,
           \/ \E bd \in Bodies : SendConfirm(r, bd)
           \/ TakeSnapshot(r) \/ ClaimRaced(r) \/ Reread(r) \/ ClaimExisting(r)
           \/ Replay(r) \/ Vanished(r) \/ Crash(r)
    PROVE  ConfirmInv'
<1>1. /\ pc \in [Requests -> {"idle"} \cup Running \cup Finished]
      /\ body \in [Requests -> Bodies \cup {None}]
      /\ seen \in [Requests -> Header \cup {None}] /\ mine \in [Requests -> 0 .. MaxHeaders]
      /\ answer \in [Requests -> SUBSET Rows] /\ header \in Header \cup {None}
      /\ created \in 0 .. MaxHeaders
  BY DEF ConfirmInv, TypeOK
<1>2. /\ pc[r] # "idle" => body[r] \in Bodies
      /\ Recalls(seen[r]) /\ Drives(pc[r], body[r], mine[r])
  BY DEF ConfirmInv, Sent, Claims
<1>3. /\ pc = [pc EXCEPT ![r] = pc[r]] /\ body = [body EXCEPT ![r] = body[r]]
      /\ seen = [seen EXCEPT ![r] = seen[r]] /\ mine = [mine EXCEPT ![r] = mine[r]]
      /\ answer = [answer EXCEPT ![r] = answer[r]]
      /\ seen[r] \in Header \cup {None} /\ mine[r] \in 0 .. MaxHeaders /\ answer[r] \in SUBSET Rows
  BY <1>1
<1>4. Recalls(header)
  BY <1>1 DEF ConfirmInv, Tables, Latest, Recalls, Header, HeaderIds
<1>5. \A p, bd : p # "run" => Drives(p, bd, mine[r])
  BY <1>2 DEF Drives
<1>6. CASE \E bd \in Bodies : SendConfirm(r, bd)
  <2>1. PICK bd \in Bodies : SendConfirm(r, bd)
    BY <1>6
  <2> QED BY <2>1, <1>2, <1>3, <1>5, RequestKeeps DEF SendConfirm, Running
<1>7. CASE TakeSnapshot(r)
  <2> DEFINE p == "claim"
  <2>1. /\ UNCHANGED <<header, created, live, body, mine, answer>> /\ body[r] \in Bodies
        /\ pc' = [pc EXCEPT ![r] = p] /\ seen' = [seen EXCEPT ![r] = header]
    BY <1>2, <1>7 DEF TakeSnapshot
  <2>2. p \in {"idle"} \cup Running \cup Finished /\ Drives(p, body[r], mine[r])
    BY <1>5 DEF Running
  <2> HIDE DEF p
  <2> QED BY <1>1, <1>3, <1>4, <2>1, <2>2, RequestKeeps
<1>8. CASE ClaimRaced(r)
  <2>1. /\ pc' = [pc EXCEPT ![r] = "reread"] /\ pc[r] # "idle"
        /\ UNCHANGED <<header, created, live, body, seen, mine, answer>>
    BY <1>8 DEF ClaimRaced
  <2>2. "reread" \in {"idle"} \cup Running \cup Finished /\ Drives("reread", body[r], mine[r])
    BY <1>5 DEF Running
  <2> QED BY <1>2, <2>1, <2>2, MoveKeeps
<1>9. CASE Reread(r)
  <2> DEFINE p == IF header = None THEN "error" ELSE "claim"
  <2>1. /\ UNCHANGED <<header, created, live, body, mine, answer>> /\ body[r] \in Bodies
        /\ pc' = [pc EXCEPT ![r] = p] /\ seen' = [seen EXCEPT ![r] = header]
    BY <1>2, <1>9 DEF Reread
  <2>2. p \in {"idle"} \cup Running \cup Finished /\ Drives(p, body[r], mine[r])
    BY <1>5 DEF Running, Finished
  <2> HIDE DEF p
  <2> QED BY <1>1, <1>3, <1>4, <2>1, <2>2, RequestKeeps
<1>10. CASE ClaimExisting(r)
  <2>1. seen[r] \in Header /\ seen[r].id \in 0 .. MaxHeaders /\ body[r] \in Bodies
    BY <1>2, <1>3, <1>10 DEF ClaimExisting, Header, HeaderIds
  <2>2. CASE SameRequest(r)
    <3>1. Drives("run", body[r], seen[r].id)
      BY <1>2, <1>10, <2>2 DEF Drives, Recalls, SameRequest, ClaimExisting
    <3>2. /\ UNCHANGED <<header, created, live, body, seen, answer>>
          /\ pc' = [pc EXCEPT ![r] = "run"] /\ mine' = [mine EXCEPT ![r] = seen[r].id]
      BY <1>10, <2>2 DEF ClaimExisting
    <3>3. "run" \in {"idle"} \cup Running \cup Finished
      BY DEF Running
    <3> QED BY <1>2, <1>3, <2>1, <3>1, <3>2, <3>3, RequestKeeps
  <2>3. CASE ~ SameRequest(r)
    <3>1. UNCHANGED <<header, created, live, body, seen, mine, answer>> /\ pc' = [pc EXCEPT ![r] = "conflict"]
      BY <1>10, <2>3 DEF ClaimExisting
    <3>2. "conflict" \in {"idle"} \cup Running \cup Finished /\ Drives("conflict", body[r], mine[r])
      BY <1>5 DEF Finished
    <3> QED BY <1>2, <1>3, <2>1, <3>1, <3>2, RequestKeeps
  <2> QED BY <2>2, <2>3
<1>11. CASE Replay(r)
  <2>1. header.response \in SUBSET Rows /\ body[r] \in Bodies
    BY <1>11, <1>1, <1>2 DEF Replay, HoldsHeader, Header
  <2>2. /\ UNCHANGED <<header, created, live>> /\ body' = [body EXCEPT ![r] = body[r]]
        /\ seen' = [seen EXCEPT ![r] = seen[r]] /\ mine' = [mine EXCEPT ![r] = mine[r]]
        /\ pc' = [pc EXCEPT ![r] = "done"] /\ answer' = [answer EXCEPT ![r] = header.response]
    BY <1>3, <1>11 DEF Replay
  <2>3. "done" \in {"idle"} \cup Running \cup Finished /\ Drives("done", body[r], mine[r])
    BY <1>5 DEF Finished
  <2> QED BY <1>2, <1>3, <2>1, <2>2, <2>3, RequestKeeps
<1>12. CASE Vanished(r)
  <2>1. /\ pc' = [pc EXCEPT ![r] = "begin"] /\ pc[r] # "idle"
        /\ UNCHANGED <<header, created, live, body, seen, mine, answer>>
    BY <1>12 DEF Vanished
  <2>2. "begin" \in {"idle"} \cup Running \cup Finished /\ Drives("begin", body[r], mine[r])
    BY <1>5 DEF Running
  <2> QED BY <1>2, <2>1, <2>2, MoveKeeps
<1>13. CASE Crash(r)
  <2>1. UNCHANGED <<header, created, live, body, seen, mine, answer>> /\ pc' = [pc EXCEPT ![r] = "crashed"]
    BY <1>13 DEF Crash
  <2>2. "crashed" \in {"idle"} \cup Running \cup Finished /\ Drives("crashed", body[r], mine[r])
    BY <1>5 DEF Finished
  <2>3. body[r] \in Bodies
    BY <1>2, <1>13 DEF Crash, Running
  <2> QED BY <1>2, <1>3, <2>1, <2>2, <2>3, RequestKeeps
<1> QED BY <1>6, <1>7, <1>8, <1>9, <1>10, <1>11, <1>12, <1>13

-----------------------------------------------------------------------------
\* A header is only inserted when there is none, so nothing is in the ledger.
LEMMA ClaimNewKeeps ==
    ASSUME ConfirmInv, NEW r \in Requests, ClaimNew(r)
    PROVE  ConfirmInv'
<1>1. /\ header = None /\ header' = NewHeader(body[r]) /\ created' = created + 1
      /\ created \in 0 .. MaxHeaders /\ created + 1 \in HeaderIds
      /\ body[r] \in Bodies /\ UNCHANGED live
  BY ConfirmAssumption DEF ClaimNew, ConfirmInv, TypeOK, Sent, HeaderIds
<1>2. /\ header' \in Header /\ header'.id = created + 1 /\ header'.hash = body[r]
      /\ header'.rows = 0
  BY <1>1, ConfirmAssumption DEF NewHeader, Header
<1>3. Written = {} /\ Written' = Written
  BY <1>1 DEF ConfirmInv, Tables, Placed, Written
<1>4. Tables'
  <2>1. Latest'
    BY <1>1, <1>2 DEF Latest
  <2>2. Placed'
    BY <1>1 DEF ConfirmInv, Tables, Placed
  <2>3. Counted'
    BY <1>2, <1>3, FS_EmptySet DEF Counted
  <2> QED BY <2>1, <2>2, <2>3 DEF Tables
<1>5. TypeOK'
  BY <1>1, <1>2 DEF ClaimNew, ConfirmInv, TypeOK, Running, HeaderIds
<1>6. Sent'
  BY <1>1 DEF ClaimNew, ConfirmInv, TypeOK, Sent
<1>7. Claims'
  <2>1. SUFFICES ASSUME NEW q \in Requests
                 PROVE  (Recalls(seen[q]) /\ Drives(pc[q], body[q], mine[q]))'
    BY DEF Claims
  <2>2. /\ Recalls(seen[q]) /\ mine[q] <= created
        /\ mine[q] \in Int /\ (seen[q] # None => seen[q].id \in Int)
    BY DEF ConfirmInv, TypeOK, Claims, Drives, Header, HeaderIds
  <2>3. Recalls(seen[q])'
    BY <1>1, <1>2, <2>2 DEF Recalls, ClaimNew
  <2>4. CASE q = r
    BY <1>1, <1>2, <2>3, <2>4 DEF Drives, ClaimNew, ConfirmInv, TypeOK
  <2>5. CASE q # r
    <3>1. mine'[q] = mine[q] /\ body'[q] = body[q]
      BY <2>5 DEF ClaimNew, ConfirmInv, TypeOK
    <3> QED BY <1>1, <1>2, <2>2, <2>3, <3>1 DEF Drives
  <2> QED BY <2>4, <2>5
<1> QED BY <1>4, <1>5, <1>6, <1>7 DEF ConfirmInv

-----------------------------------------------------------------------------
\* What one iteration under the lock does to the ledger.
LEMMA ChunkFacts ==
    ASSUME ConfirmInv, NEW r \in Requests, NEW W \in SUBSET Rows, RunChunk(r, W)
    PROVE  /\ header \in Header /\ header.id = mine[r] /\ ~ header.completed
           /\ header.hash = body[r] /\ mine[r] \in HeaderIds
           /\ IsFiniteSet(W) /\ Cardinality(W) \in Nat
           /\ \A x \in W : x[1] = header.hash /\ header.next < x[2] /\ x[2] <= NextRow(header.next)
           /\ NextRow(header.next) \in 0 .. RowCount /\ header.next <= NextRow(header.next)
           /\ \A h \in HeaderIds, x \in Rows :
                 live'[h][x] = live[h][x] + IF h = mine[r] /\ x \in W THEN 1 ELSE 0
           /\ live' \in [HeaderIds -> [Rows -> Nat]]
           /\ W \cap Written = {}
           /\ Written' = Written \cup W
           /\ IsFiniteSet(Written')
           /\ header.rows + Cardinality(W) = Cardinality(Written')
<1>1. /\ header \in Header /\ header.id = mine[r] /\ ~ header.completed /\ pc[r] = "run"
      /\ header # None /\ W \subseteq Slice(r, header.next)
  BY DEF RunChunk, HoldsHeader, ConfirmInv, TypeOK
<1>2. header.hash = body[r] /\ mine[r] \in HeaderIds
  BY <1>1 DEF ConfirmInv, Claims, Drives, Header
<1>3. IsFiniteSet(W) /\ Cardinality(W) \in Nat
  BY <1>1, SliceFinite, FS_CardinalityType DEF Header
<1>4. header.next \in 0 .. RowCount
  BY <1>1 DEF Header
<1>5. NextRow(header.next) \in 0 .. RowCount /\ header.next <= NextRow(header.next)
  BY <1>4, ConfirmAssumption DEF NextRow
<1>6. ASSUME NEW x \in W
      PROVE  x[1] = header.hash /\ header.next < x[2] /\ x[2] <= NextRow(header.next)
  <2>1. x[1] = body[r] /\ header.next < x[2] /\ x[2] <= header.next + ChunkRows
    BY <1>1, <1>6 DEF Slice
  <2>2. x[2] \in 1 .. RowCount
    BY <1>6, RowFields
  <2> QED BY <1>2, <1>4, <2>1, <2>2, ConfirmAssumption DEF NextRow
<1>7. live \in [HeaderIds -> [Rows -> Nat]]
  BY DEF ConfirmInv, TypeOK
<1>8. live' = [live EXCEPT ![mine[r]] = [x \in Rows |-> live[mine[r]][x] + IF x \in W THEN 1 ELSE 0]]
  BY DEF RunChunk
<1>9. \A h \in HeaderIds, x \in Rows :
         live'[h][x] = live[h][x] + IF h = mine[r] /\ x \in W THEN 1 ELSE 0
  BY <1>2, <1>7, <1>8
<1>10. live' \in [HeaderIds -> [Rows -> Nat]]
  <2>1. [x \in Rows |-> live[mine[r]][x] + IF x \in W THEN 1 ELSE 0] \in [Rows -> Nat]
    BY <1>2, <1>7
  <2> QED BY <1>7, <1>8, <2>1
<1>11. W \cap Written = {}
  <2>1. SUFFICES ASSUME NEW x \in W, x \in Written PROVE FALSE
    OBVIOUS
  <2>2. x[2] <= header.next /\ x[2] \in 1 .. RowCount
    BY <2>1, RowFields DEF Written, ConfirmInv, Tables, Placed
  <2> QED BY <1>4, <1>6, <2>1, <2>2
<1>12. Written' = Written \cup W
  <2>1. ASSUME NEW x \in Rows, NEW h \in HeaderIds
        PROVE  live'[h][x] > 0 <=> live[h][x] > 0 \/ (h = mine[r] /\ x \in W)
    BY <1>7, <1>9, <2>1
  <2> QED BY <1>2, <2>1 DEF Written
<1>13. IsFiniteSet(Written) /\ header.rows = Cardinality(Written) /\ Cardinality(Written) \in Nat
  BY <1>1, FS_CardinalityType DEF ConfirmInv, Tables, Counted
<1>14. IsFiniteSet(Written') /\ Cardinality(Written') = Cardinality(Written) + Cardinality(W)
  <2>1. Cardinality(Written \cap W) = 0
    <3>1. Written \cap W = {}
      BY <1>11
    <3> QED BY <3>1, FS_EmptySet
  <2>2. /\ IsFiniteSet(Written \cup W)
        /\ Cardinality(Written \cup W) = Cardinality(Written) + Cardinality(W) - Cardinality(Written \cap W)
    BY <1>3, <1>13, FS_Union
  <2> QED BY <1>3, <1>12, <1>13, <2>1, <2>2
<1> QED BY <1>1, <1>2, <1>3, <1>5, <1>6, <1>9, <1>10, <1>11, <1>12, <1>13, <1>14
\* A chunk: its rows are ahead of the progress, so none is there already; and a
\* header that is given up has written nothing.
LEMMA ChunkKeeps ==
    ASSUME ConfirmInv, NEW r \in Requests, NEW W \in SUBSET Rows, RunChunk(r, W)
    PROVE  ConfirmInv'
<1> DEFINE next == NextRow(header.next)
           count == header.rows + Cardinality(W)
           gone == next = RowCount /\ count = 0
<1>1. /\ header \in Header /\ header.id = mine[r] /\ ~ header.completed
      /\ header.hash = body[r] /\ mine[r] \in HeaderIds
      /\ IsFiniteSet(W) /\ Cardinality(W) \in Nat
      /\ \A x \in W : x[1] = header.hash /\ header.next < x[2] /\ x[2] <= next
      /\ next \in 0 .. RowCount /\ header.next <= next
      /\ \A h \in HeaderIds, x \in Rows :
            live'[h][x] = live[h][x] + IF h = mine[r] /\ x \in W THEN 1 ELSE 0
      /\ live' \in [HeaderIds -> [Rows -> Nat]]
      /\ W \cap Written = {}
      /\ Written' = Written \cup W
      /\ IsFiniteSet(Written')
      /\ count = Cardinality(Written')
  BY ChunkFacts
<1>2. /\ header' = IF gone THEN None
                   ELSE [header EXCEPT !.next = next, !.completed = (next = RowCount),
                                       !.rows = count, !.response = header.response \cup W]
      /\ UNCHANGED <<created, body, seen, mine>>
      /\ pc' = [pc EXCEPT ![r] = IF next = RowCount THEN "done" ELSE pc[r]]
      /\ answer' \in [Requests -> SUBSET Rows]
  <2>1. header.response \cup W \in SUBSET Rows
    BY <1>1 DEF Header
  <2>2. pc \in [Requests -> {"idle"} \cup Running \cup Finished] /\ answer \in [Requests -> SUBSET Rows]
    BY DEF ConfirmInv, TypeOK
  <2> HIDE DEF next, count
  <2> QED BY <2>1, <2>2 DEF RunChunk, IsEmpty, next, count
<1>3. count \in Nat
  BY <1>1 DEF Header
<1> HIDE DEF next, count
<1>4. ASSUME ~ gone
      PROVE  /\ header' # None
             /\ header' \in Header /\ header'.id = header.id /\ header'.hash = header.hash
             /\ header'.next = next /\ header'.rows = count
  <2>1. header' = [header EXCEPT !.next = next, !.completed = (next = RowCount),
                                 !.rows = count, !.response = header.response \cup W]
    BY <1>2, <1>4
  <2>2. header.response \cup W \in SUBSET Rows /\ (next = RowCount) \in BOOLEAN
    BY <1>1 DEF Header
  <2>3. header' \in Header /\ header'.id = header.id /\ header'.hash = header.hash
        /\ header'.next = next /\ header'.rows = count
    BY <1>1, <1>3, <2>1, <2>2 DEF Header
  <2> QED BY <2>3, ConfirmAssumption
<1> HIDE DEF gone
<1>5. header' # None => ~ gone
  BY <1>2
<1>6. TypeOK'
  BY <1>1, <1>2, <1>4 DEF ConfirmInv, TypeOK, Running, Finished
<1>7. Sent'
  BY <1>2 DEF ConfirmInv, TypeOK, Sent, RunChunk, HoldsHeader
<1>8. Claims'
  <2>1. SUFFICES ASSUME NEW q \in Requests
                 PROVE  (Recalls(seen[q]) /\ Drives(pc[q], body[q], mine[q]))'
    BY DEF Claims
  <2>2. Recalls(seen[q]) /\ Drives(pc[q], body[q], mine[q]) /\ header # None
    BY <1>1, ConfirmAssumption DEF ConfirmInv, Claims
  <2>3. pc'[q] = "run" => pc[q] = "run"
    BY <1>2 DEF ConfirmInv, TypeOK
  <2>4. Recalls(seen[q])'
    BY <1>2, <1>4, <2>2 DEF Recalls
  <2>5. Drives(pc[q], body[q], mine[q])'
    BY <1>2, <1>4, <2>2, <2>3 DEF Drives
  <2> QED BY <2>4, <2>5
<1>9. header' = None => Written' = {}
  <2>1. header' = None => count = 0
    BY <1>4 DEF gone
  <2> QED BY <1>1, <2>1, FS_EmptySet
<1>10. Tables'
  <2>1. Latest'
    BY <1>1, <1>2, <1>4, ConfirmAssumption DEF ConfirmInv, Tables, Latest
  <2>2. Counted'
    BY <1>1, <1>4, <1>5 DEF Counted
  <2>3. Placed'
    <3>1. SUFFICES ASSUME NEW h \in HeaderIds, NEW x \in Rows, live'[h][x] > 0
                   PROVE  /\ header' # None /\ header'.id = h
                          /\ live'[h][x] = 1
                          /\ x[1] = header'.hash /\ x[2] <= header'.next
      BY DEF Placed
    <3>2. x \in Written' /\ header' # None
      <4>1. x \in Written'
        BY <3>1 DEF Written
      <4> QED BY <1>9, <4>1
    <3>3. x[2] \in 1 .. RowCount /\ header.next \in 0 .. RowCount
      BY <1>1, RowFields DEF Header
    <3>4. live[h][x] > 0 => /\ header.id = h /\ live[h][x] = 1 /\ x[1] = header.hash /\ x[2] <= header.next
                            /\ x \in Written
      BY DEF ConfirmInv, Tables, Placed, Written
    <3>5. live[h][x] \in Nat
      BY DEF ConfirmInv, TypeOK
    <3>6. CASE x \in W
      <4>1. live[h][x] = 0
        BY <1>1, <3>4, <3>5, <3>6
      <4>2. h = mine[r] /\ live'[h][x] = 1
        BY <1>1, <3>1, <4>1
      <4> QED BY <1>1, <1>4, <1>5, <3>2, <3>6, <4>2
    <3>7. CASE x \notin W
      <4>1. live'[h][x] = live[h][x]
        BY <1>1, <3>5, <3>7
      <4> QED BY <1>1, <1>4, <1>5, <3>1, <3>2, <3>3, <3>4, <4>1
    <3> QED BY <3>6, <3>7
  <2> QED BY <2>1, <2>2, <2>3 DEF Tables
<1> QED BY <1>6, <1>7, <1>8, <1>10 DEF ConfirmInv

\* A deleted transaction was its header's only one for the row, and row_count
\* counts one less.
LEMMA DeleteFacts ==
    ASSUME ConfirmInv, NEW h \in HeaderIds, NEW x \in Rows, DeleteImported(h, x)
    PROVE  /\ header \in Header /\ header.id = h /\ x \in Written
           /\ live' = [live EXCEPT ![h][x] = 0]
           /\ Written' = Written \ {x}
           /\ header' = [header EXCEPT !.rows = header.rows - 1]
           /\ header.rows - 1 = Cardinality(Written') /\ header.rows - 1 \in Nat
           /\ IsFiniteSet(Written')
<1>1. live[h][x] > 0 /\ header # None /\ header.id = h /\ live[h][x] = 1
  BY DEF ConfirmInv, Tables, Placed, DeleteImported
<1>2. header \in Header /\ live \in [HeaderIds -> [Rows -> Nat]]
  BY <1>1 DEF ConfirmInv, TypeOK
<1>3. x \in Written
  BY <1>1 DEF Written
<1>4. live' = [live EXCEPT ![h][x] = 0]
  BY <1>1 DEF DeleteImported
<1>5. Written' = Written \ {x}
  <2>1. ASSUME NEW y \in Rows
        PROVE  y \in Written' <=> y \in Written /\ y # x
    <3>1. CASE y = x
      <4>1. ASSUME NEW k \in HeaderIds PROVE ~ (live'[k][y] > 0)
        <5>1. CASE k = h
          BY <1>2, <1>4, <3>1, <5>1
        <5>2. CASE k # h
          <6>1. live'[k][y] = live[k][y]
            BY <1>2, <1>4, <5>2
          <6>2. ~ (live[k][y] > 0)
            BY <1>1, <5>2 DEF ConfirmInv, Tables, Placed
          <6> QED BY <6>1, <6>2
        <5> QED BY <5>1, <5>2
      <4> QED BY <3>1, <4>1 DEF Written
    <3>2. CASE y # x
      <4>1. \A k \in HeaderIds : live'[k][y] = live[k][y]
        BY <1>2, <1>4, <3>2
      <4> QED BY <3>2, <4>1 DEF Written
    <3> QED BY <3>1, <3>2
  <2>2. Written \subseteq Rows /\ Written' \subseteq Rows
    BY DEF Written
  <2> QED BY <2>1, <2>2
<1>6. IsFiniteSet(Written) /\ header.rows = Cardinality(Written)
  BY <1>1 DEF ConfirmInv, Tables, Counted
<1>7. IsFiniteSet(Written') /\ Cardinality(Written') = Cardinality(Written) - 1
  BY <1>3, <1>5, <1>6, FS_RemoveElement
<1>8. Cardinality(Written') \in Nat
  BY <1>7, FS_CardinalityType
<1>9. header.rows - 1 = Cardinality(Written') /\ header.rows > 0
  BY <1>2, <1>6, <1>7, <1>8 DEF Header
<1>10. header' = [header EXCEPT !.rows = header.rows - 1]
  BY <1>1, <1>9 DEF DeleteImported
<1> QED BY <1>1, <1>2, <1>3, <1>4, <1>5, <1>7, <1>8, <1>9, <1>10

LEMMA DeleteKeeps ==
    ASSUME ConfirmInv, NEW h \in HeaderIds, NEW x \in Rows, DeleteImported(h, x)
    PROVE  ConfirmInv'
<1>1. /\ header \in Header /\ header.id = h /\ x \in Written
      /\ live' = [live EXCEPT ![h][x] = 0]
      /\ header' = [header EXCEPT !.rows = header.rows - 1]
      /\ header.rows - 1 = Cardinality(Written') /\ header.rows - 1 \in Nat
      /\ IsFiniteSet(Written')
  BY DeleteFacts
<1>2. /\ header' \in Header /\ header'.id = header.id /\ header'.hash = header.hash
      /\ header'.next = header.next /\ header'.rows = Cardinality(Written')
      /\ header # None /\ header' # None
  BY <1>1, ConfirmAssumption DEF Header
<1>3. UNCHANGED <<created, pc, body, seen, mine, answer>>
  BY DEF DeleteImported
<1>4. live \in [HeaderIds -> [Rows -> Nat]]
  BY DEF ConfirmInv, TypeOK
<1>5. live' \in [HeaderIds -> [Rows -> Nat]]
  BY <1>1, <1>4
<1>6. TypeOK'
  BY <1>2, <1>3, <1>5 DEF ConfirmInv, TypeOK
<1>7. Sent'
  BY <1>3 DEF ConfirmInv, Sent
<1>8. Claims'
  BY <1>2, <1>3 DEF ConfirmInv, Claims, Recalls, Drives
<1>9. Latest' /\ Counted'
  BY <1>1, <1>2, <1>3 DEF ConfirmInv, Tables, Latest, Counted
<1>10. Placed'
  <2>1. SUFFICES ASSUME NEW k \in HeaderIds, NEW y \in Rows, live'[k][y] > 0
                 PROVE  /\ header' # None /\ header'.id = k
                        /\ live'[k][y] = 1
                        /\ y[1] = header'.hash /\ y[2] <= header'.next
    BY DEF Placed
  <2>2. live'[k][y] = live[k][y]
    BY <1>1, <1>4, <2>1
  <2> QED BY <1>2, <2>1, <2>2 DEF ConfirmInv, Tables, Placed
<1> QED BY <1>6, <1>7, <1>8, <1>9, <1>10 DEF ConfirmInv, Tables

LEMMA NextKeeps ==
    ASSUME ConfirmInv, [Next]_vars
    PROVE  ConfirmInv'
<1>1. CASE UNCHANGED vars
  BY <1>1 DEF vars, ConfirmInv, TypeOK, Sent, Claims, Recalls, Drives, Tables, Latest, Placed, Counted, Written
<1>2. CASE \E r \in Requests, bd \in Bodies : SendConfirm(r, bd)
  BY <1>2, ReadKeeps
<1>3. ASSUME NEW r \in Requests, Advance(r)
      PROVE  ConfirmInv'
  <2>1. CASE ClaimNew(r)
    BY <2>1, ClaimNewKeeps
  <2>2. CASE \E W \in SUBSET Rows : RunChunk(r, W)
    BY <2>2, ChunkKeeps
  <2>3. CASE TakeSnapshot(r) \/ ClaimRaced(r) \/ Reread(r) \/ ClaimExisting(r) \/ Replay(r) \/ Vanished(r)
    BY <2>3, ReadKeeps
  <2> QED BY <1>3, <2>1, <2>2, <2>3 DEF Advance
<1>4. CASE \E r \in Requests : Crash(r)
  BY <1>4, ReadKeeps
<1>5. CASE \E h \in HeaderIds, x \in Rows : DeleteImported(h, x)
  BY <1>5, DeleteKeeps
<1> QED BY <1>1, <1>2, <1>3, <1>4, <1>5 DEF Next

\* The requests, the header and the ledger keep the inductive invariant.
THEOREM ConfirmInvHolds == Spec => []ConfirmInv
<1>1. Init => ConfirmInv
  BY InitInv
<1>2. ConfirmInv /\ [Next]_vars => ConfirmInv'
  BY NextKeeps
<1> QED BY <1>1, <1>2, PTL DEF Spec

\* However the requests of execute_import with one key race, die and repeat,
\* and whatever the user deletes meanwhile: no row of the file is in the ledger
\* twice, and never the rows of two bodies.
THEOREM ConfirmCorrect == Spec => []ConfirmSafe
<1>1. ConfirmInv => ConfirmSafe
  <2>1. SUFFICES ASSUME ConfirmInv PROVE NoDuplicateRow /\ KeyNeverMixes
    BY DEF ConfirmInv, ConfirmSafe
  <2>2. NoDuplicateRow
    BY <2>1 DEF ConfirmInv, Tables, Placed, NoDuplicateRow
  <2>3. KeyNeverMixes
    BY <2>1 DEF ConfirmInv, Tables, Placed, KeyNeverMixes
  <2> QED BY <2>2, <2>3
<1> QED BY <1>1, ConfirmInvHolds, PTL

-----------------------------------------------------------------------------
(* The refinement of ImportOnce. *)

Reported == IF header = None THEN {} ELSE header.response
Final == header # None /\ header.completed

\* The variables of ImportOnce, as the module's INSTANCE maps them.
LEMMA OnceInit == Init => Once!Init
<1> SUFFICES ASSUME Init PROVE Once!Init
  OBVIOUS
<1>1. Written = {}
  BY DEF Init, Written
<1> QED BY <1>1 DEF Init, Once!Init, Written

\* Reading, claiming, refusing, dying: nothing that ImportOnce sees.
LEMMA QuietSteps ==
    ASSUME ConfirmInv, NEW r \in Requests,
           \/ \E bd \in Bodies : SendConfirm(r, bd)
           \/ TakeSnapshot(r) \/ ClaimNew(r) \/ ClaimRaced(r) \/ Reread(r) \/ ClaimExisting(r)
           \/ Vanished(r) \/ Crash(r)
    PROVE  UNCHANGED Once!vars
<1>1. CASE ClaimNew(r)
  <2>1. header = None /\ header' = NewHeader(body[r]) /\ UNCHANGED <<live, answer>>
    BY <1>1 DEF ClaimNew
  <2>2. header' # None /\ header'.response = {} /\ ~ header'.completed
    <3>1. created + 1 \in HeaderIds /\ body[r] \in Bodies
      BY <1>1, ConfirmAssumption DEF ClaimNew, ConfirmInv, TypeOK, Sent, HeaderIds
    <3>2. NewHeader(body[r]) \in Header
      BY <3>1, ConfirmAssumption DEF NewHeader, Header
    <3> QED BY <2>1, <3>2, ConfirmAssumption DEF NewHeader
  <2> QED BY <2>1, <2>2 DEF Once!vars
<1>2. CASE ~ ClaimNew(r)
  <2>1. UNCHANGED <<header, live, answer>>
    BY <1>2 DEF SendConfirm, TakeSnapshot, ClaimRaced, Reread, ClaimExisting, Vanished, Crash
  <2> QED BY <2>1 DEF Once!vars
<1> QED BY <1>1, <1>2

\* A chunk is a piece that arrives; the last chunk settles the import, unless
\* none of its transactions is there.
LEMMA ChunkSteps ==
    ASSUME ConfirmInv, NEW r \in Requests, NEW W \in SUBSET Rows, RunChunk(r, W)
    PROVE  Once!Next
<1> DEFINE next == NextRow(header.next)
           count == header.rows + Cardinality(W)
<1>1. /\ header \in Header /\ ~ header.completed
      /\ W \cap Written = {} /\ Written' = Written \cup W
      /\ IsFiniteSet(Written') /\ count = Cardinality(Written')
  BY ChunkFacts
<1>2. header # None
  BY <1>1, ConfirmAssumption
<1>3. count = 0 <=> Written' = {}
  <2> HIDE DEF count
  <2> QED BY <1>1, FS_EmptySet
<1>4. ~ Final /\ Reported = header.response
  BY <1>1, <1>2 DEF Final, Reported
<1>5. /\ header' = IF next = RowCount /\ count = 0 THEN None
                   ELSE [header EXCEPT !.next = next, !.completed = (next = RowCount),
                                       !.rows = count, !.response = header.response \cup W]
      /\ IF next = RowCount THEN answer' = [answer EXCEPT ![r] = header.response \cup W]
         ELSE answer' = answer
  BY DEF RunChunk, IsEmpty
<1>6. count \in Nat /\ next \in 0 .. RowCount
  BY ChunkFacts DEF Header
<1> HIDE DEF next, count
<1>7. ASSUME ~ (next = RowCount /\ count = 0)
      PROVE  header' # None /\ (header'.completed <=> next = RowCount)
             /\ header'.response = header.response \cup W
  <2>1. header.response \cup W \in SUBSET Rows /\ (next = RowCount) \in BOOLEAN
    BY <1>1 DEF Header
  <2>2. header' = [header EXCEPT !.next = next, !.completed = (next = RowCount),
                                 !.rows = count, !.response = header.response \cup W]
    BY <1>5, <1>7
  <2>3. header' \in Header /\ header'.completed = (next = RowCount)
        /\ header'.response = header.response \cup W
    BY <1>1, <1>6, <2>1, <2>2 DEF Header
  <2> QED BY <2>3, ConfirmAssumption
<1>8. CASE next # RowCount
  <2>1. ~ Final' /\ Reported' = Reported \cup W /\ answer' = answer
    BY <1>4, <1>5, <1>7, <1>8 DEF Final, Reported
  <2>2. Once!Write(W)
    BY <1>1, <1>4, <2>1 DEF Once!Write, Final, Reported, Written
  <2> QED BY <2>2 DEF Once!Next
<1>9. CASE next = RowCount
  <2>1. /\ Final' <=> Written' # {}
        /\ Reported' = IF Final' THEN Reported \cup W ELSE {}
        /\ answer' = [answer EXCEPT ![r] = Reported \cup W]
    BY <1>3, <1>4, <1>5, <1>7, <1>9 DEF Final, Reported
  <2>2. Final' = (Written' # {})
    BY <2>1 DEF Final
  <2>3. Once!Settle(r, W)
    BY <1>1, <1>4, <2>1, <2>2 DEF Once!Settle, Final, Reported, Written
  <2> QED BY <2>3 DEF Once!Next
<1> QED BY <1>8, <1>9

LEMMA OnceSteps ==
    ASSUME ConfirmInv, [Next]_vars
    PROVE  [Once!Next]_(Once!vars)
<1>1. CASE UNCHANGED vars
  BY <1>1 DEF vars, Once!vars
<1>2. CASE \E r \in Requests, bd \in Bodies : SendConfirm(r, bd)
  BY <1>2, QuietSteps
<1>3. ASSUME NEW r \in Requests, Advance(r)
      PROVE  [Once!Next]_(Once!vars)
  <2>1. CASE \E W \in SUBSET Rows : RunChunk(r, W)
    BY <2>1, ChunkSteps
  <2>2. CASE Replay(r)
    <3>1. Once!Repeat(r)
      BY <2>2 DEF Replay, HoldsHeader, Once!Repeat
    <3> QED BY <3>1 DEF Once!Next
  <2>3. CASE TakeSnapshot(r) \/ ClaimNew(r) \/ ClaimRaced(r) \/ Reread(r) \/ ClaimExisting(r) \/ Vanished(r)
    BY <2>3, QuietSteps
  <2> QED BY <1>3, <2>1, <2>2, <2>3 DEF Advance
<1>4. CASE \E r \in Requests : Crash(r)
  BY <1>4, QuietSteps
<1>5. ASSUME NEW h \in HeaderIds, NEW x \in Rows, DeleteImported(h, x)
      PROVE  Once!Next
  <2>1. /\ header \in Header /\ x \in Written /\ Written' = Written \ {x}
        /\ header' = [header EXCEPT !.rows = header.rows - 1] /\ header.rows - 1 \in Nat
    BY <1>5, DeleteFacts
  <2>2. /\ header # None /\ header' # None
        /\ header'.response = header.response /\ header'.completed = header.completed
    BY <2>1, ConfirmAssumption DEF Header
  <2>3. answer' = answer
    BY <1>5 DEF DeleteImported
  <2>4. Once!Delete(x)
    BY <2>1, <2>2, <2>3 DEF Once!Delete, Written
  <2> QED BY <2>4 DEF Once!Next
<1> QED BY <1>1, <1>2, <1>3, <1>4, <1>5 DEF Next

\* The claims, chunks, races, deletes and repeats of execute_import import the
\* file once, as ImportOnce says.
THEOREM ConfirmImplements == Spec => ImplementsImportOnce
<1>1. Init => Once!Init
  BY OnceInit
<1>2. ConfirmInv /\ [Next]_vars => [Once!Next]_(Once!vars)
  BY OnceSteps
<1> QED BY <1>1, <1>2, ConfirmInvHolds, PTL DEF Spec, ImplementsImportOnce, Once!Spec

=============================================================================
