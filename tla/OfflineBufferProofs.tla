------------------------- MODULE OfflineBufferProofs -------------------------
(***************************************************************************)
(* Theorems about OfflineBuffer, for any ceiling, any number of messages   *)
(* and any failures, crashes and power losses.                             *)
(*                                                                         *)
(* Sound says of a table what every commit leaves behind; it must hold of  *)
(* the table in use and of the one a power loss would bring back.  The     *)
(* rest of IInv says what store() and the caller rely on between two       *)
(* statements.                                                             *)
(***************************************************************************)
EXTENDS OfflineBuffer, TLAPS, FiniteSetTheorems, FunctionTheorems, WellFoundedInduction

Unsent(rs) == {r \in rs : ~r.sent}

\* ms is what the broker has, n the number of evictions skipped.
Sound(rs, sq, ms, n) ==
    /\ \A r, q \in rs : r.id = q.id => r = q
    /\ \A r \in rs : r.id <= sq
    /\ \A id \in 1..sq : id + MaxRows > sq + 1 => \E r \in rs : r.id = id
    /\ \A r \in rs : r.sent => r.msg \in ms
    /\ Cardinality(Unsent(rs)) <= MaxRows + n

CallInv ==
    /\ seq <= stores /\ disk.seq <= stores
    /\ pc # "idle" => seq < stores /\ msg # 0
    /\ pc = "evict" => Full
    /\ pc = "insert" => Cardinality(Pending) < MaxRows + failures

BatchInv ==
    \A b \in batch : b.id <= seq /\ \A r \in rows : r.id = b.id => r.msg = b.msg

IInv ==
    /\ TypeOK
    /\ Sound(rows, seq, delivered, failures)
    /\ Sound(disk.rows, disk.seq, delivered, failures)
    /\ CallInv
    /\ BatchInv

-----------------------------------------------------------------------------
(* Finite sets of numbers and of rows *)

LEMMA LeastNumber ==
    ASSUME NEW T \in SUBSET Nat, T # {}
    PROVE  \E x \in T : \A y \in T : x <= y
<1>1. PICK x \in T : \A y \in T : <<y, x>> \notin OpToRel(<, Nat)
  BY NatLessThanWellFounded, WFMin
<1>2. \A y \in T : ~(y < x)
  BY <1>1 DEF OpToRel
<1>. QED
  BY <1>2

LEMMA GreatestNumber ==
    ASSUME NEW T \in SUBSET Nat, T # {}, NEW n \in Nat, \A x \in T : x <= n
    PROVE  \E x \in T : \A y \in T : y <= x
<1>. DEFINE U == {n - x : x \in T}
<1>1. U \in SUBSET Nat /\ U # {}
  <2>1. \A x \in T : n - x \in Nat
    OBVIOUS
  <2>2. PICK x \in T : TRUE
    OBVIOUS
  <2>3. n - x \in U
    BY <2>2
  <2>. QED
    BY <2>1, <2>3
<1>2. PICK u \in U : \A v \in U : u <= v
  BY <1>1, LeastNumber
<1>3. PICK x \in T : u = n - x
  BY <1>2
<1>4. \A y \in T : u <= n - y
  BY <1>2
<1>. QED
  BY <1>3, <1>4

\* Rows with different ids between a and b: at most as many as there are ids.
LEMMA SpanBound ==
    ASSUME NEW S, NEW a \in Nat, NEW b \in Nat, a <= b + 1,
           \A r \in S : r.id \in a..b,
           \A r, q \in S : r.id = q.id => r = q
    PROVE  IsFiniteSet(S) /\ Cardinality(S) \in Nat /\ Cardinality(S) <= b + 1 - a
<1>. DEFINE f == [r \in S |-> r.id]
<1>1. f \in Injection(S, a..b)
  BY Fun_IsInj
<1>2. IsFiniteSet(a..b) /\ Cardinality(a..b) = IF a > b THEN 0 ELSE b - a + 1
  BY FS_Interval
<1>3. IsFiniteSet(S) /\ Cardinality(S) <= Cardinality(a..b)
  BY <1>1, <1>2, FS_Injection
<1>4. Cardinality(S) \in Nat
  BY <1>3, FS_CardinalityType
<1>. QED
  BY <1>2, <1>3, <1>4

LEMMA RowsFinite ==
    ASSUME NEW rs \in SUBSET Row, NEW sq \in Nat, NEW ms, NEW n, Sound(rs, sq, ms, n)
    PROVE  /\ IsFiniteSet(rs) /\ Cardinality(rs) \in Nat
           /\ \A S \in SUBSET rs : IsFiniteSet(S) /\ Cardinality(S) \in Nat
<1>1. \A r \in rs : r.id \in 1..sq
  BY ConstantsAssumption DEF ConstantsAssumption, Row, Sound
<1>2. \A r, q \in rs : r.id = q.id => r = q
  BY DEF Sound
<1>3. IsFiniteSet(rs)
  BY <1>1, <1>2, SpanBound
<1>4. \A S \in SUBSET rs : IsFiniteSet(S)
  BY <1>3, FS_Subset
<1>. QED
  BY <1>3, <1>4, FS_CardinalityType

LEMMA PendingFinite ==
    ASSUME IInv
    PROVE  /\ IsFiniteSet(Pending) /\ Cardinality(Pending) \in Nat
           /\ \A S \in SUBSET Pending : IsFiniteSet(S) /\ Cardinality(S) \in Nat
<1>1. Pending \in SUBSET rows /\ rows \in SUBSET Row /\ seq \in Nat
  BY ConstantsAssumption DEF ConstantsAssumption, Pending, IInv, TypeOK
<1>. QED
  BY <1>1, RowsFinite DEF IInv

LEMMA OldestExists ==
    ASSUME IInv, NEW S \in SUBSET rows, S # {}
    PROVE  \E r \in S : \A q \in S : r.id <= q.id
<1>. DEFINE T == {r.id : r \in S}
<1>1. T \in SUBSET Nat /\ T # {}
  BY ConstantsAssumption DEF ConstantsAssumption, IInv, TypeOK, Row
<1>2. PICK x \in T : \A y \in T : x <= y
  BY <1>1, LeastNumber
<1>. QED
  BY <1>2

LEMMA NewestExists ==
    ASSUME IInv, NEW S \in SUBSET rows, S # {}
    PROVE  \E r \in S : \A q \in S : q.id <= r.id
<1>. DEFINE T == {r.id : r \in S}
<1>1. T \in SUBSET Nat /\ T # {} /\ seq \in Nat /\ \A x \in T : x <= seq
  BY ConstantsAssumption DEF ConstantsAssumption, IInv, TypeOK, Row, Sound
<1>2. PICK x \in T : \A y \in T : y <= x
  BY <1>1, GreatestNumber
<1>. QED
  BY <1>2

\* The oldest pending row is one row, and it has every other pending row between
\* itself and seq.
LEMMA OldestOne ==
    ASSUME IInv, Pending # {}
    PROVE  \E r \in Pending : /\ OldestPending = {r}
                              /\ Cardinality(Pending) <= seq + 1 - r.id
<1>1. Pending \in SUBSET rows
  BY DEF Pending
<1>2. PICK r \in Pending : \A q \in Pending : r.id <= q.id
  BY <1>1, OldestExists
<1>3. /\ seq \in Nat /\ r.id \in Nat /\ r.id <= seq
      /\ \A q \in Pending : q.id \in Nat /\ q.id <= seq
      /\ \A p, q \in Pending : p.id = q.id => p = q
  BY <1>1, ConstantsAssumption DEF ConstantsAssumption, IInv, TypeOK, Row, Sound
<1>4. OldestPending = {r}
  <2>1. r \in OldestPending
    BY <1>2 DEF OldestPending
  <2>2. \A q \in OldestPending : q \in Pending /\ q.id <= r.id /\ r.id <= q.id
    BY <1>2 DEF OldestPending
  <2>3. \A q \in OldestPending : q = r
    BY <1>3, <2>2
  <2>. QED
    BY <2>1, <2>3
<1>5. \A q \in Pending : q.id \in r.id..seq
  BY <1>2, <1>3
<1>6. Cardinality(Pending) <= seq + 1 - r.id
  <2>1. r.id <= seq + 1
    BY <1>3
  <2>2. \A p, q \in Pending : p.id = q.id => p = q
    BY <1>3
  <2>. QED
    BY ONLY <1>3, <1>5, <2>1, <2>2, SpanBound
<1>. QED
  BY <1>4, <1>6

-----------------------------------------------------------------------------
(* What one call leaves of the invariant *)

LEMMA Numbers ==
    ASSUME IInv
    PROVE  /\ MaxRows \in Nat /\ MaxRows > 0 /\ Limit \in Nat /\ MaxStores \in Nat
           /\ seq \in Nat /\ stores \in Nat /\ failures \in Nat /\ disk.seq \in Nat
           /\ rows \in SUBSET Row /\ disk.rows \in SUBSET Row
           /\ \A r \in Row : r.id \in Nat /\ r.id >= 1
BY ConstantsAssumption DEF ConstantsAssumption, IInv, TypeOK, Row

\* What the broker received and what was skipped only grows, which keeps a table sound.
LEMMA SoundGrows ==
    ASSUME NEW rs \in SUBSET Row, NEW sq \in Nat, NEW ms, NEW n \in Nat, NEW ns, NEW m \in Nat,
           Sound(rs, sq, ms, n), ms \subseteq ns, n <= m
    PROVE  Sound(rs, sq, ns, m)
<1>1. Unsent(rs) \in SUBSET rs
  BY DEF Unsent
<1>2. Cardinality(Unsent(rs)) \in Nat
  BY <1>1, RowsFinite
<1>3. MaxRows \in Nat
  BY ConstantsAssumption DEF ConstantsAssumption
<1>4. Cardinality(Unsent(rs)) <= MaxRows + m
  BY <1>2, <1>3 DEF Sound
<1>. QED
  BY <1>4 DEF Sound

\* What drain() returns is no longer than what it was asked for.
LEMMA BatchSize ==
    ASSUME IInv, NEW n \in 0..Limit
    PROVE  Cardinality({[id |-> r.id, msg |-> r.msg] : r \in Drained(n)}) <= Limit
<1>. DEFINE F == FirstPending(n)
            D == Drained(n)
            B == {[id |-> r.id, msg |-> r.msg] : r \in D}
            pair == [r \in D |-> [id |-> r.id, msg |-> r.msg]]
<1>1. n \in Nat /\ n <= Limit /\ Limit \in Nat
  BY Numbers
<1>2. F \in SUBSET Pending /\ F \in SUBSET rows /\ D \in SUBSET F
  BY DEF FirstPending, Drained, Pending
<1>3. IsFiniteSet(F) /\ Cardinality(F) \in Nat /\ IsFiniteSet(D) /\ Cardinality(D) \in Nat
  BY <1>2, PendingFinite
<1>4. Cardinality(F) <= n
  <2>1. CASE F = {}
    BY <1>1, <2>1, FS_EmptySet
  <2>2. CASE F # {}
    <3>1. PICK r \in F : \A q \in F : q.id <= r.id
      BY <1>2, <2>2, NewestExists
    <3>. DEFINE Older == {q \in Pending : q.id < r.id}
    <3>2. Cardinality(Older) < n
      BY <3>1 DEF FirstPending
    <3>3. IsFiniteSet(Older) /\ Cardinality(Older) \in Nat
      BY PendingFinite
    <3>4. \A q \in F : q # r => q.id < r.id
      BY <1>2, <3>1, Numbers DEF IInv, Sound
    <3>5. F \ {r} \in SUBSET Older
      BY <1>2, <3>4
    <3>6. Cardinality(F \ {r}) <= Cardinality(Older)
      BY <3>3, <3>5, FS_Subset
    <3>7. Cardinality(F \ {r}) = Cardinality(F) - 1
      BY <1>3, <3>1, FS_RemoveElement
    <3>. QED
      BY <1>1, <1>3, <3>2, <3>3, <3>6, <3>7
  <2>. QED
    BY <2>1, <2>2
<1>5. Cardinality(D) <= Cardinality(F)
  BY <1>2, <1>3, FS_Subset
<1>6. pair \in [D -> B] /\ \A b \in B : \E r \in D : pair[r] = b
  OBVIOUS
<1>7. pair \in Surjection(D, B)
  BY <1>6, Fun_IsSurj
<1>8. IsFiniteSet(B) /\ Cardinality(B) <= Cardinality(D)
  BY <1>3, <1>7, FS_Surjection
<1>9. Cardinality(B) \in Nat
  BY <1>8, FS_CardinalityType
<1>. QED
  BY <1>1, <1>3, <1>4, <1>5, <1>8, <1>9

\* The rows the caller holds are finitely many: their ids are numbers up to MaxStores.
LEMMA BatchFinite ==
    ASSUME TypeOK
    PROVE  IsFiniteSet(batch)
<1>. DEFINE I == 1..MaxStores
            P == I \X I
            pair == [b \in batch |-> <<b.id, b.msg>>]
<1>1. MaxStores \in Nat
  BY ConstantsAssumption DEF ConstantsAssumption
<1>2. IsFiniteSet(I)
  BY <1>1, FS_Interval
<1>3. IsFiniteSet(P)
  BY <1>2, FS_Product
<1>4. batch \in SUBSET [id : I, msg : I]
  BY DEF TypeOK, Messages
<1>5. pair \in [batch -> P] /\ \A b, c \in batch : pair[b] = pair[c] => b = c
  BY <1>4
<1>6. pair \in Injection(batch, P)
  BY <1>5, Fun_IsInj
<1>. QED
  BY <1>3, <1>6, FS_Injection

\* When store() evicts, the row it removes is not among the newest MaxRows - 1.
LEMMA EvictedIsOld ==
    ASSUME IInv, Full
    PROVE  \E r \in Pending : /\ OldestPending = {r}
                              /\ r.id + MaxRows <= seq + 1
                              /\ Cardinality(Pending \ {r}) < Cardinality(Pending)
<1>1. Cardinality(Pending) \in Nat /\ Cardinality(Pending) >= MaxRows
  BY PendingFinite DEF Full
<1>2. Pending # {}
  BY <1>1, Numbers, FS_EmptySet
<1>3. PICK r \in Pending : OldestPending = {r} /\ Cardinality(Pending) <= seq + 1 - r.id
  BY <1>2, OldestOne
<1>4. r.id \in Nat
  BY Numbers DEF Pending
<1>5. r.id + MaxRows <= seq + 1
  BY <1>1, <1>3, <1>4, Numbers
<1>6. Cardinality(Pending \ {r}) = Cardinality(Pending) - 1
  BY PendingFinite, FS_RemoveElement
<1>7. Cardinality(Pending \ {r}) < Cardinality(Pending)
  BY <1>1, <1>6
<1>. QED
  BY <1>3, <1>5, <1>7

-----------------------------------------------------------------------------
(* The invariant, action by action *)

LEMMA InitIInv == Init => IInv
<1>. SUFFICES ASSUME Init
              PROVE  IInv
  OBVIOUS
<1>1. Unsent({}) = {} /\ Cardinality({}) = 0
  BY FS_EmptySet DEF Unsent
<1>2. TypeOK
  <2>1. Cardinality(batch) = 0
    BY <1>1 DEF Init
  <2>2. disk \in [rows : SUBSET Row, seq : 0..MaxStores]
    BY ConstantsAssumption DEF ConstantsAssumption, Init
  <2>3. rows \in SUBSET Row /\ batch \in SUBSET [id : 1..MaxStores, msg : Messages]
    BY DEF Init
  <2>4. /\ open \in BOOLEAN /\ pc = "idle" /\ delivered \in SUBSET Messages
        /\ seq = 0 /\ msg = 0 /\ stores = 0 /\ failures = 0
    BY DEF Init
  <2>. QED
    BY <2>1, <2>2, <2>3, <2>4, ConstantsAssumption DEF ConstantsAssumption, TypeOK
<1>3. Sound({}, 0, {}, 0)
  BY <1>1, ConstantsAssumption DEF ConstantsAssumption, Sound
<1>4. CallInv /\ BatchInv
  BY ConstantsAssumption DEF ConstantsAssumption, Init, CallInv, BatchInv
<1>. QED
  BY <1>2, <1>3, <1>4 DEF IInv, Init

\* open(), close(), a store() that begins or fails: the tables stay as they are.
LEMMA TablesKept ==
    ASSUME IInv, UNCHANGED <<table, disk>>, delivered \subseteq delivered',
           failures' \in Nat, failures <= failures'
    PROVE  /\ Sound(rows, seq, delivered, failures)'
           /\ Sound(disk.rows, disk.seq, delivered, failures)'
           /\ Pending' = Pending
<1>1. /\ Sound(rows, seq, delivered', failures')
      /\ Sound(disk.rows, disk.seq, delivered', failures')
  BY Numbers, SoundGrows DEF IInv
<1>2. rows' = rows /\ seq' = seq /\ disk' = disk
  BY DEF table
<1>3. Sound(rows, seq, delivered, failures)' = Sound(rows', seq', delivered', failures')
  BY DEF Sound
<1>. QED
  BY <1>1, <1>2 DEF Sound, Pending, Unsent

LEMMA StoreStep ==
    ASSUME IInv, Store
    PROVE  IInv'
<1>1. /\ UNCHANGED <<open, table, disk, caller>> /\ stores' = stores + 1
      /\ stores < MaxStores /\ msg' = stores + 1 /\ pc' \in {"evict", "insert"}
      /\ failures' \in 0..MaxFailures /\ failures <= failures'
  BY ConstantsAssumption DEF ConstantsAssumption, Store, Goto, SkipEviction, IInv, TypeOK
<1>2. TypeOK'
  BY <1>1, Numbers DEF IInv, TypeOK, table, caller
<1>3. /\ Sound(rows, seq, delivered, failures)'
      /\ Sound(disk.rows, disk.seq, delivered, failures)'
      /\ Pending' = Pending
  BY <1>1, TablesKept DEF caller
<1>4. CallInv'
  <2>1. seq' < stores' /\ disk'.seq <= stores' /\ msg' # 0
    BY <1>1, Numbers DEF IInv, CallInv, table
  <2>2. pc' = "evict" => Full'
    BY <1>3 DEF Store, Goto, Full
  <2>3. pc' = "insert" => Cardinality(Pending') < MaxRows + failures'
    <3>1. Cardinality(Pending) \in Nat /\ Cardinality(Pending) <= MaxRows + failures
      BY PendingFinite DEF IInv, Sound, Unsent, Pending
    <3>2. pc' = "insert" => Cardinality(Pending) < MaxRows + failures'
      BY <3>1, Numbers DEF Store, Goto, Full, SkipEviction
    <3>. QED
      BY <1>3, <3>2
  <2>. QED
    BY <1>1, <2>1, <2>2, <2>3, Numbers DEF CallInv, table
<1>5. BatchInv'
  BY <1>1 DEF IInv, BatchInv, table, caller
<1>. QED
  BY <1>2, <1>3, <1>4, <1>5 DEF IInv

LEMMA EvictStep ==
    ASSUME IInv, Evict
    PROVE  IInv'
<1>1. /\ UNCHANGED <<open, seq, disk, msg, caller, stores>> /\ pc = "evict" /\ pc' = "insert"
      /\ failures' \in 0..MaxFailures /\ failures <= failures'
  BY ConstantsAssumption DEF ConstantsAssumption, Evict, Goto, SkipEviction, IInv, TypeOK
<1>2. Full
  BY <1>1 DEF IInv, CallInv
<1>3. rows' \in SUBSET rows
  BY DEF Evict
<1>4. TypeOK'
  BY <1>1, <1>3 DEF IInv, TypeOK, caller
<1>5. Sound(disk.rows, disk.seq, delivered', failures')
  BY <1>1, Numbers, SoundGrows DEF IInv, caller
<1>6. Cardinality(Pending) \in Nat /\ Cardinality(Pending) <= MaxRows + failures
  BY PendingFinite DEF IInv, Sound, Unsent, Pending
<1>7. Sound(rows', seq, delivered', failures') /\ Cardinality(Pending') < MaxRows + failures'
  <2>1. CASE rows' = rows \ OldestPending /\ UNCHANGED failures
    <3>1. PICK r \in Pending : /\ OldestPending = {r}
                               /\ r.id + MaxRows <= seq + 1
                               /\ Cardinality(Pending \ {r}) < Cardinality(Pending)
      BY <1>2, EvictedIsOld
    <3>2. Pending' = Pending \ {r} /\ Unsent(rows') = Pending \ {r}
      BY <2>1, <3>1 DEF Pending, Unsent
    <3>3. Cardinality(Pending \ {r}) \in Nat
      BY PendingFinite
    <3>4. Cardinality(Pending \ {r}) < MaxRows + failures
      BY <1>6, <3>1, <3>3, Numbers
    <3>5. \A id \in 1..seq : id + MaxRows > seq + 1 => \E q \in rows' : q.id = id
      <4>1. SUFFICES ASSUME NEW id \in 1..seq, id + MaxRows > seq + 1
                     PROVE  \E q \in rows' : q.id = id
        OBVIOUS
      <4>2. PICK q \in rows : q.id = id
        BY <4>1 DEF IInv, Sound
      <4>3. q # r
        BY <3>1, <4>1, <4>2, Numbers
      <4>. QED
        BY <2>1, <3>1, <4>2, <4>3
    <3>6. Cardinality(Unsent(rows')) <= MaxRows + failures
      BY <3>2, <3>3, <3>4, Numbers
    <3>7. /\ \A p, q \in rows' : p.id = q.id => p = q
          /\ \A q \in rows' : q.id <= seq /\ (q.sent => q.msg \in delivered)
      BY <1>3 DEF IInv, Sound
    <3>8. Sound(rows', seq, delivered, failures)
      BY <3>5, <3>6, <3>7 DEF Sound
    <3>. QED
      BY <1>1, <2>1, <3>2, <3>4, <3>8 DEF caller
  <2>2. CASE UNCHANGED rows /\ SkipEviction
    <3>1. Pending' = Pending /\ failures' = failures + 1 /\ delivered' = delivered
      BY <1>1, <2>2 DEF Pending, SkipEviction, caller
    <3>2. Cardinality(Pending) < MaxRows + failures'
      BY <1>6, <3>1, Numbers
    <3>3. Sound(rows, seq, delivered, failures')
      BY <1>1, Numbers, SoundGrows DEF IInv
    <3>. QED
      BY <2>2, <3>1, <3>2, <3>3
  <2>. QED
    BY <2>1, <2>2 DEF Evict
<1>8. Sound(rows, seq, delivered, failures)' /\ Sound(disk.rows, disk.seq, delivered, failures)'
  BY <1>1, <1>5, <1>7 DEF Sound
<1>9. CallInv'
  BY <1>1, <1>7 DEF IInv, CallInv
<1>10. BatchInv'
  BY <1>1, <1>3 DEF IInv, BatchInv, caller
<1>. QED
  BY <1>4, <1>8, <1>9, <1>10 DEF IInv

LEMMA InsertRowStep ==
    ASSUME IInv, InsertRow
    PROVE  IInv'
<1>. DEFINE new == [id |-> seq + 1, msg |-> msg, sent |-> FALSE]
<1>1. /\ UNCHANGED <<open, disk, msg, caller, stores, failures>> /\ pc = "insert" /\ pc' = "idle"
      /\ seq' = seq + 1 /\ rows' = rows \cup {new}
  BY DEF InsertRow, Goto
<1>2. seq < stores /\ stores <= MaxStores /\ msg # 0
  BY <1>1, Numbers DEF IInv, CallInv, TypeOK
<1>3. new \in Row /\ seq' \in 0..MaxStores
  BY <1>1, <1>2, Numbers DEF IInv, TypeOK, Row, Messages
<1>4. TypeOK'
  BY <1>1, <1>3 DEF IInv, TypeOK, caller
<1>5. \A r \in rows : r.id \in Nat /\ r.id <= seq
  BY Numbers DEF IInv, Sound
<1>6. Unsent(rows') = Pending \cup {new} /\ new \notin Pending
  BY <1>1, <1>5, Numbers DEF Unsent, Pending
<1>7. Cardinality(Pending \cup {new}) = Cardinality(Pending) + 1
  BY <1>6, PendingFinite, FS_AddElement
<1>8. Cardinality(Pending) \in Nat /\ Cardinality(Pending) < MaxRows + failures
  BY <1>1, PendingFinite DEF IInv, CallInv
<1>9. Cardinality(Unsent(rows')) <= MaxRows + failures
  BY <1>6, <1>7, <1>8, Numbers
<1>10. \A id \in 1..(seq + 1) : id + MaxRows > seq + 2 => \E r \in rows' : r.id = id
  <2>1. SUFFICES ASSUME NEW id \in 1..(seq + 1), id + MaxRows > seq + 2
                 PROVE  \E r \in rows' : r.id = id
    OBVIOUS
  <2>2. CASE id = seq + 1
    <3>1. new \in rows' /\ new.id = id
      BY <1>1, <2>2
    <3>. QED
      BY <3>1
  <2>3. CASE id # seq + 1
    <3>1. id \in 1..seq /\ id + MaxRows > seq + 1
      BY <2>1, <2>3, Numbers
    <3>2. PICK r \in rows : r.id = id
      BY <3>1 DEF IInv, Sound
    <3>. QED
      BY <1>1, <3>2
  <2>. QED
    BY <2>2, <2>3
<1>11. \A r, q \in rows' : r.id = q.id => r = q
  <2>1. \A r \in rows : r.id # new.id
    BY <1>5, Numbers
  <2>2. \A r, q \in rows : r.id = q.id => r = q
    BY DEF IInv, Sound
  <2>3. \A r \in rows' : r \in rows \/ r = new
    BY <1>1
  <2>. QED
    BY <2>1, <2>2, <2>3
<1>12. \A r \in rows' : r.id <= seq + 1 /\ (r.sent => r.msg \in delivered)
  BY <1>1, <1>5, Numbers DEF IInv, Sound
<1>13. \A id \in 1..(seq + 1) : id + MaxRows > (seq + 1) + 1 => \E r \in rows' : r.id = id
  BY <1>10, Numbers
<1>14. Sound(rows', seq + 1, delivered, failures)
  BY <1>9, <1>11, <1>12, <1>13 DEF Sound
<1>15. Sound(rows, seq, delivered, failures)' /\ Sound(disk.rows, disk.seq, delivered, failures)'
  BY <1>1, <1>14 DEF IInv, Sound, caller
<1>16. CallInv'
  BY <1>1, <1>2, Numbers DEF IInv, CallInv
<1>17. BatchInv'
  <2>1. \A b \in batch : b.id \in Nat /\ b.id <= seq
    BY Numbers DEF IInv, BatchInv, TypeOK
  <2>. QED
    BY <1>1, <2>1, Numbers DEF IInv, BatchInv, caller
<1>. QED
  BY <1>4, <1>15, <1>16, <1>17 DEF IInv

\* open(), close(), drain(), a publish, and an insert that fails: neither the tables
\* nor the number of evictions change.
LEMMA QuietStep ==
    ASSUME IInv, UNCHANGED <<table, disk, msg, stores, failures>>,
           open' \in BOOLEAN, pc' \in {pc, "idle"},
           delivered \subseteq delivered', delivered' \in SUBSET Messages,
           batch' \in SUBSET [id : 1..MaxStores, msg : Messages],
           Cardinality(batch') <= Limit, BatchInv'
    PROVE  IInv'
<1>1. TypeOK'
  BY DEF IInv, TypeOK, table
<1>2. failures' \in Nat /\ failures <= failures'
  BY Numbers
<1>3. /\ Sound(rows, seq, delivered, failures)'
      /\ Sound(disk.rows, disk.seq, delivered, failures)'
      /\ Pending' = Pending
  BY <1>2, TablesKept
<1>4. CallInv'
  BY <1>3 DEF IInv, CallInv, Full, table
<1>. QED
  BY <1>1, <1>3, <1>4 DEF IInv

LEMMA OpenCloseStep ==
    ASSUME IInv, Open \/ Close \/ InsertFails
    PROVE  IInv'
<1>1. UNCHANGED <<table, disk, msg, stores, failures, batch, delivered>>
      /\ open' \in BOOLEAN /\ pc' \in {pc, "idle"}
  BY DEF Open, Close, InsertFails, Goto, caller, IInv, TypeOK
<1>2. BatchInv'
  BY <1>1 DEF IInv, BatchInv, table
<1>3. /\ delivered' \in SUBSET Messages /\ Cardinality(batch') <= Limit
      /\ batch' \in SUBSET [id : 1..MaxStores, msg : Messages]
  BY <1>1 DEF IInv, TypeOK
<1>. QED
  BY <1>1, <1>2, <1>3, QuietStep

LEMMA DrainStep ==
    ASSUME IInv, Drain
    PROVE  IInv'
<1>1. PICK n \in 0..Limit : batch' = {[id |-> r.id, msg |-> r.msg] : r \in Drained(n)}
  BY DEF Drain
<1>2. UNCHANGED <<open, table, disk, pc, msg, delivered, stores, failures>>
  BY DEF Drain
<1>3. Drained(n) \in SUBSET rows
  BY DEF Drained, FirstPending, Pending
<1>4. Cardinality(batch') <= Limit
  BY <1>1, BatchSize
<1>5. \A r \in rows : r.id \in 1..MaxStores /\ r.msg \in Messages /\ r.id <= seq
  BY DEF IInv, TypeOK, Row, Sound
<1>6. \A b \in batch' : \E r \in rows : b = [id |-> r.id, msg |-> r.msg]
  BY <1>1, <1>3
<1>7. batch' \in SUBSET [id : 1..MaxStores, msg : Messages]
  BY <1>5, <1>6
<1>8. BatchInv'
  <2>1. SUFFICES ASSUME NEW b \in batch'
                 PROVE  b.id <= seq /\ \A r \in rows : r.id = b.id => r.msg = b.msg
    BY <1>2 DEF BatchInv, table
  <2>2. PICK q \in rows : b = [id |-> q.id, msg |-> q.msg]
    BY <1>6, <2>1
  <2>3. b.id = q.id /\ b.msg = q.msg
    BY <2>2
  <2>. QED
    BY <1>5, <2>3 DEF IInv, Sound
<1>9. open' \in BOOLEAN /\ delivered' \in SUBSET Messages
  BY <1>2 DEF IInv, TypeOK
<1>. QED
  BY <1>2, <1>4, <1>7, <1>8, <1>9, QuietStep

LEMMA PublishStep ==
    ASSUME IInv, NEW b \in batch, Publish(b)
    PROVE  IInv'
<1>1. /\ UNCHANGED <<open, table, disk, pc, msg, batch, stores, failures>>
      /\ delivered' = delivered \cup {b.msg}
  BY DEF Publish
<1>2. b.msg \in Messages
  BY DEF IInv, TypeOK
<1>3. /\ delivered \subseteq delivered' /\ delivered' \in SUBSET Messages
      /\ open' \in BOOLEAN /\ Cardinality(batch') <= Limit
      /\ batch' \in SUBSET [id : 1..MaxStores, msg : Messages]
  BY <1>1, <1>2 DEF IInv, TypeOK
<1>4. BatchInv'
  BY <1>1 DEF IInv, BatchInv, table
<1>. QED
  BY <1>1, <1>3, <1>4, QuietStep

LEMMA SetSent ==
    ASSUME NEW r \in Row
    PROVE  /\ [r EXCEPT !.sent = TRUE] \in Row
           /\ [r EXCEPT !.sent = TRUE].id = r.id
           /\ [r EXCEPT !.sent = TRUE].msg = r.msg
BY DEF Row

\* Marking a row keeps ids and messages, and leaves fewer rows unsent.
LEMMA MarkSentStep ==
    ASSUME IInv, NEW b \in batch, MarkSent(b)
    PROVE  IInv'
<1>1. /\ UNCHANGED <<open, seq, disk, pc, msg, delivered, stores, failures>> /\ pc = "idle"
      /\ b.msg \in delivered /\ batch' = batch \ {b} /\ rows' \in {rows, Marked(b.id)}
  BY DEF MarkSent
<1>2. \A r \in rows : r = [id |-> r.id, msg |-> r.msg, sent |-> r.sent]
                      /\ r.id \in 1..MaxStores /\ r.msg \in Messages /\ r.sent \in BOOLEAN
  BY DEF IInv, TypeOK, Row
<1>3. \A r \in rows' : \E q \in rows :
         /\ r.id = q.id /\ r.msg = q.msg
         /\ r = q \/ (q.id = b.id /\ r = [q EXCEPT !.sent = TRUE])
  BY <1>1, <1>2 DEF Marked
<1>4. \A q \in rows : \E r \in rows' : r.id = q.id
  <2>1. CASE rows' = rows
    BY <2>1
  <2>2. CASE rows' = Marked(b.id)
    <3>1. SUFFICES ASSUME NEW q \in rows
                   PROVE  \E r \in rows' : r.id = q.id
      OBVIOUS
    <3>2. CASE q.id = b.id
      <4>1. [q EXCEPT !.sent = TRUE] \in rows' /\ [q EXCEPT !.sent = TRUE].id = q.id
        BY <2>2, <3>2, Numbers, SetSent DEF Marked
      <4>. QED
        BY <4>1
    <3>3. CASE q.id # b.id
      BY <2>2, <3>3 DEF Marked
    <3>. QED
      BY <3>2, <3>3
  <2>. QED
    BY <1>1, <2>1, <2>2
<1>5. rows' \in SUBSET Row
  <2>1. \A q \in rows : [q EXCEPT !.sent = TRUE] \in Row
    BY Numbers, SetSent
  <2>2. rows \in SUBSET Row
    BY Numbers
  <2>. QED
    BY <1>3, <2>1, <2>2
<1>6. \A r, q \in rows' : r.id = q.id => r = q
  <2>1. CASE rows' = rows
    BY <2>1 DEF IInv, Sound
  <2>2. CASE rows' = Marked(b.id)
    <3>1. SUFFICES ASSUME NEW r \in rows', NEW s \in rows', r.id = s.id
                   PROVE  r = s
      OBVIOUS
    <3>2. PICK p \in rows : r = IF p.id = b.id THEN [p EXCEPT !.sent = TRUE] ELSE p
      BY <2>2 DEF Marked
    <3>3. PICK q \in rows : s = IF q.id = b.id THEN [q EXCEPT !.sent = TRUE] ELSE q
      BY <2>2 DEF Marked
    <3>4. r.id = p.id /\ s.id = q.id
      BY <1>2, <3>2, <3>3
    <3>5. p = q
      BY <3>1, <3>4 DEF IInv, Sound
    <3>. QED
      BY <3>2, <3>3, <3>5
  <2>. QED
    BY <1>1, <2>1, <2>2
<1>7. \A r \in rows' : r.id <= seq /\ (r.sent => r.msg \in delivered)
  <2>1. SUFFICES ASSUME NEW r \in rows'
                 PROVE  r.id <= seq /\ (r.sent => r.msg \in delivered)
    OBVIOUS
  <2>2. PICK q \in rows : /\ r.id = q.id /\ r.msg = q.msg
                          /\ r = q \/ (q.id = b.id /\ r = [q EXCEPT !.sent = TRUE])
    BY <1>3
  <2>3. q.id = b.id => q.msg = b.msg
    BY DEF IInv, BatchInv
  <2>. QED
    BY <1>1, <2>2, <2>3 DEF IInv, Sound
<1>8. Unsent(rows') \in SUBSET Pending
  BY <1>2, <1>3 DEF Unsent, Pending
<1>9. Cardinality(Unsent(rows')) <= MaxRows + failures
  <2>1. Cardinality(Unsent(rows')) \in Nat /\ Cardinality(Unsent(rows')) <= Cardinality(Pending)
    BY <1>8, PendingFinite, FS_Subset
  <2>2. Cardinality(Pending) \in Nat /\ Cardinality(Pending) <= MaxRows + failures
    BY PendingFinite DEF IInv, Sound, Unsent, Pending
  <2>. QED
    BY <2>1, <2>2, Numbers
<1>10. \A id \in 1..seq : id + MaxRows > seq + 1 => \E r \in rows' : r.id = id
  BY <1>4 DEF IInv, Sound
<1>11. Sound(rows', seq, delivered, failures)
  BY <1>6, <1>7, <1>9, <1>10 DEF Sound
<1>12. Sound(rows, seq, delivered, failures)' /\ Sound(disk.rows, disk.seq, delivered, failures)'
  BY <1>1, <1>11 DEF IInv, Sound
<1>13. BatchInv'
  <2>1. SUFFICES ASSUME NEW c \in batch
                 PROVE  c.id <= seq /\ \A r \in rows' : r.id = c.id => r.msg = c.msg
    BY <1>1 DEF BatchInv
  <2>. QED
    BY <1>3 DEF IInv, BatchInv
<1>14. CallInv'
  BY <1>1 DEF IInv, CallInv
<1>15. TypeOK'
  <2>1. batch \in SUBSET [id : 1..MaxStores, msg : Messages] /\ Cardinality(batch) <= Limit
    BY DEF IInv, TypeOK
  <2>2. Cardinality(batch') <= Limit
    <3>1. IsFiniteSet(batch)
      BY <2>1, BatchFinite DEF IInv
    <3>2. Cardinality(batch') \in Nat /\ Cardinality(batch) \in Nat
          /\ Cardinality(batch') <= Cardinality(batch)
      BY <1>1, <3>1, FS_Subset, FS_CardinalityType
    <3>. QED
      BY <2>1, <3>2, Numbers
  <2>. QED
    BY <1>1, <1>5, <2>1, <2>2 DEF IInv, TypeOK
<1>. QED
  BY <1>12, <1>13, <1>14, <1>15 DEF IInv

LEMMA SyncStep ==
    ASSUME IInv, Sync
    PROVE  IInv'
<1>1. /\ UNCHANGED <<open, rows, seq, pc, msg, batch, delivered, stores, failures>>
      /\ disk' = [rows |-> rows, seq |-> seq]
  BY DEF Sync, table, caller
<1>2. TypeOK'
  BY <1>1 DEF IInv, TypeOK
<1>3. Sound(rows, seq, delivered, failures)' /\ Sound(disk.rows, disk.seq, delivered, failures)'
  BY <1>1 DEF IInv, Sound
<1>4. CallInv' /\ BatchInv'
  BY <1>1 DEF IInv, CallInv, BatchInv, Full, Pending
<1>. QED
  BY <1>2, <1>3, <1>4 DEF IInv

LEMMA GoneStep ==
    ASSUME IInv, Crash \/ PowerLoss
    PROVE  IInv'
<1>1. /\ UNCHANGED <<disk, msg, delivered, stores, failures>>
      /\ open' = FALSE /\ pc' = "idle" /\ batch' = {}
  BY DEF Crash, PowerLoss, ProcessGone
<1>2. \/ rows' = rows /\ seq' = seq
      \/ rows' = disk.rows /\ seq' = disk.seq
  <2>1. CASE Crash
    BY <2>1 DEF Crash, table
  <2>2. CASE PowerLoss
    BY <2>2 DEF PowerLoss
  <2>. QED
    BY <2>1, <2>2
<1>3. Cardinality(batch') = 0
  BY <1>1, FS_EmptySet
<1>4. rows' \in SUBSET Row /\ seq' \in 0..MaxStores /\ seq' <= stores
  BY <1>2 DEF IInv, TypeOK, CallInv
<1>5. TypeOK'
  <2>1. open' \in BOOLEAN /\ batch' \in SUBSET [id : 1..MaxStores, msg : Messages]
    BY <1>1
  <2>2. Cardinality(batch') <= Limit
    BY <1>3, Numbers
  <2>. QED
    BY <1>1, <1>4, <2>1, <2>2 DEF IInv, TypeOK
<1>6. Sound(rows', seq', delivered, failures)
  BY <1>2 DEF IInv
<1>7. Sound(rows, seq, delivered, failures)' /\ Sound(disk.rows, disk.seq, delivered, failures)'
  BY <1>1, <1>6 DEF IInv, Sound
<1>8. CallInv' /\ BatchInv'
  BY <1>1, <1>4 DEF IInv, CallInv, BatchInv
<1>. QED
  BY <1>5, <1>7, <1>8 DEF IInv

LEMMA StutterStep ==
    ASSUME IInv, UNCHANGED vars
    PROVE  IInv'
BY DEF vars, table, caller, IInv, TypeOK, Sound, Unsent, CallInv, BatchInv, Full, Pending

-----------------------------------------------------------------------------
(* The theorems *)

\* The inductive invariant.
THEOREM IInvHolds == Spec => []IInv
<1>1. IInv /\ [Next]_vars => IInv'
  <2>. SUFFICES ASSUME IInv, [Next]_vars
                PROVE  IInv'
    OBVIOUS
  <2>1. CASE Open \/ Close \/ InsertFails
    BY <2>1, OpenCloseStep
  <2>2. CASE Store
    BY <2>2, StoreStep
  <2>3. CASE Evict
    BY <2>3, EvictStep
  <2>4. CASE InsertRow
    BY <2>4, InsertRowStep
  <2>5. CASE Drain
    BY <2>5, DrainStep
  <2>6. ASSUME NEW b \in batch, Publish(b) \/ MarkSent(b)
        PROVE  IInv'
    BY <2>6, PublishStep, MarkSentStep
  <2>7. CASE Sync
    BY <2>7, SyncStep
  <2>8. CASE Crash \/ PowerLoss
    BY <2>8, GoneStep
  <2>9. CASE UNCHANGED vars
    BY <2>9, StutterStep
  <2>. QED
    BY <2>1, <2>2, <2>3, <2>4, <2>5, <2>6, <2>7, <2>8, <2>9 DEF Next
<1>. QED
  BY <1>1, InitIInv, PTL DEF Spec

\* Every variable stays within its type, and drain() hands out at most limit rows.
THEOREM TypeCorrect == Spec => []TypeOK
<1>1. IInv => TypeOK
  BY DEF IInv
<1>. QED
  BY <1>1, IInvHolds, PTL

\* "oldest row evicted when full": the newest MaxRows - 1 rows are there, whatever
\* failed and whenever the process or the power went.
THEOREM NewestSurvive == Spec => []NewestKept
<1>1. IInv => NewestKept
  BY DEF IInv, Sound, NewestKept
<1>. QED
  BY <1>1, IInvHolds, PTL

\* Only an eviction that was skipped lets the unsent rows exceed max_rows_.
THEOREM CeilingHolds == Spec => []CeilingHeld
<1>1. IInv => CeilingHeld
  BY DEF IInv, Sound, Unsent, Pending, CeilingHeld
<1>. QED
  BY <1>1, IInvHolds, PTL

\* A row marked as acknowledged was received by the broker: a drained row's id never
\* comes to name another message while the caller holds it.
THEOREM MarkedWereDelivered == Spec => []SentWereDelivered
<1>1. IInv => SentWereDelivered
  BY DEF IInv, Sound, SentWereDelivered
<1>. QED
  BY <1>1, IInvHolds, PTL

\* With fewer rows that do not parse than drain() looks at, it returns the oldest
\* one that does.
THEOREM ReadableDrained == Spec => []ReadableNotBlocked
<1>1. ASSUME IInv
      PROVE  ReadableNotBlocked
  <2>. DEFINE readable == {r \in Pending : Readable(r)}
  <2>1. SUFFICES ASSUME readable # {}, Cardinality(Pending \ readable) < Limit
                 PROVE  \E r \in Drained(Limit) : \A q \in readable : r.id <= q.id
    BY DEF ReadableNotBlocked
  <2>2. readable \in SUBSET rows
    BY DEF Pending
  <2>3. PICK r \in readable : \A q \in readable : r.id <= q.id
    BY <1>1, <2>1, <2>2, OldestExists
  <2>. DEFINE Older == {q \in Pending : q.id < r.id}
  <2>4. \A q \in rows : q.id \in Nat
    BY <1>1, Numbers
  <2>5. Older \in SUBSET (Pending \ readable)
    BY <2>2, <2>3, <2>4 DEF Pending
  <2>6. IsFiniteSet(Pending \ readable) /\ Cardinality(Pending \ readable) \in Nat
    BY <1>1, PendingFinite
  <2>7. Cardinality(Older) \in Nat /\ Cardinality(Older) <= Cardinality(Pending \ readable)
    BY <2>5, <2>6, FS_Subset, FS_CardinalityType
  <2>8. Cardinality(Older) < Limit
    BY <1>1, <2>1, <2>6, <2>7, Numbers
  <2>9. r \in Drained(Limit)
    BY <2>8 DEF Drained, FirstPending
  <2>. QED
    BY <2>3, <2>9
<1>. QED
  BY <1>1, IInvHolds, PTL

-----------------------------------------------------------------------------
(* Refinement *)

\* Different rows are different entries, so a table is as full as its entries are many.
LEMMA EntriesSize ==
    ASSUME IInv
    PROVE  Cardinality(Entries(Pending)) = Cardinality(Pending)
<1>. DEFINE E == Entries(Pending)
            f == [r \in Pending |-> [id |-> r.id, msg |-> r.msg]]
<1>1. \A r, q \in Pending : r.id = q.id => r = q
  BY DEF Pending, IInv, Sound
<1>2. f \in [Pending -> E] /\ \A e \in E : \E r \in Pending : f[r] = e
  BY DEF Entries
<1>3. \A r, q \in Pending : f[r] = f[q] => r = q
  BY <1>1
<1>4. f \in Bijection(Pending, E)
  BY <1>2, <1>3, Fun_IsBij
<1>5. ExistsBijection(Pending, E)
  BY <1>4 DEF ExistsBijection
<1>. QED
  BY <1>5, PendingFinite, FS_Bijection

LEMMA AbstractInit == Init => Abstract!Init
<1>. SUFFICES ASSUME Init
              PROVE  Abstract!Init
  OBVIOUS
<1>1. Pending = {} /\ {r \in disk.rows : ~r.sent} = {}
  BY DEF Init, Pending
<1>. QED
  BY <1>1 DEF Init, Entries, Abstract!Init

LEMMA EvictIsDropOldest ==
    ASSUME IInv, Evict
    PROVE  [Abstract!Next]_(Abstract!vars)
<1>1. UNCHANGED <<disk, batch, delivered>> /\ Full
  BY DEF Evict, Goto, caller, IInv, CallInv
<1>2. /\ Cardinality(Entries(Pending)) >= MaxRows
      /\ Abstract!Cardinality(Entries(Pending)) = Cardinality(Entries(Pending))
  BY <1>1, EntriesSize DEF Full, Cardinality, Abstract!Cardinality
<1>3. CASE rows' = rows \ OldestPending /\ UNCHANGED failures
  <2>1. PICK r \in Pending : OldestPending = {r}
    BY <1>1, EvictedIsOld
  <2>. DEFINE e == [id |-> r.id, msg |-> r.msg]
  <2>2. \A q \in Pending : q.id = r.id => q = r
    BY DEF Pending, IInv, Sound
  <2>3. Pending' = Pending \ {r}
    BY <1>3, <2>1 DEF Pending
  <2>4. Entries(Pending') = Entries(Pending) \ {e}
    BY <2>2, <2>3 DEF Entries
  <2>5. e \in Entries(Pending) /\ \A f \in Entries(Pending) : e.id <= f.id
    BY <2>1 DEF Entries, OldestPending
  <2>6. Entries(Pending)' = Entries(Pending')
    BY DEF Entries
  <2>7. UNCHANGED <<Entries({q \in disk.rows : ~q.sent}), batch, delivered, failures>>
    BY <1>1, <1>3 DEF Entries
  <2>8. Abstract!DropOldest(e)
    BY <1>2, <2>4, <2>5, <2>6, <2>7 DEF Abstract!DropOldest
  <2>. QED
    BY <2>5, <2>8 DEF Abstract!Next
<1>4. CASE UNCHANGED rows /\ SkipEviction
  BY <1>1, <1>2, <1>4 DEF SkipEviction, Pending, Abstract!Next, Abstract!DropFails
<1>. QED
  BY <1>3, <1>4 DEF Evict

LEMMA InsertRowIsAdd ==
    ASSUME IInv, InsertRow
    PROVE  Abstract!Next
<1>. DEFINE new == [id |-> seq + 1, msg |-> msg, sent |-> FALSE]
            e == [id |-> seq + 1, msg |-> msg]
<1>1. UNCHANGED <<disk, batch, delivered, failures>> /\ pc = "insert" /\ rows' = rows \cup {new}
  BY DEF InsertRow, Goto, caller
<1>2. Pending' = Pending \cup {new}
  BY <1>1 DEF Pending
<1>3. Entries(Pending') = Entries(Pending) \cup {e}
  <2>1. new.id = e.id /\ new.msg = e.msg
    OBVIOUS
  <2>. HIDE DEF new, e
  <2>2. e = [id |-> new.id, msg |-> new.msg]
    BY <2>1 DEF new, e
  <2>. QED
    BY <1>2, <2>2 DEF Entries
<1>4. \A f \in Entries(Pending) \cup batch : f.id \in Nat /\ f.id <= seq
  <2>1. \A r \in Pending : r.id \in Nat /\ r.id <= seq
    BY Numbers DEF Pending, IInv, Sound
  <2>2. \A b \in batch : b.id \in Nat /\ b.id <= seq
    BY Numbers DEF IInv, TypeOK, BatchInv
  <2>. QED
    BY <2>1, <2>2 DEF Entries
<1>5. \A f \in Entries(Pending) \cup batch : f.id < e.id
  BY <1>4, Numbers
<1>6. e \in Abstract!Entry
  BY <1>1, Numbers DEF IInv, CallInv, TypeOK, Messages, Abstract!Entry
<1>7. Abstract!Cardinality(Entries(Pending)) < MaxRows + failures
  BY <1>1, EntriesSize DEF IInv, CallInv, Cardinality, Abstract!Cardinality
<1>8. Abstract!Add(e)
  BY <1>1, <1>3, <1>5, <1>7 DEF Abstract!Add, Entries
<1>. QED
  BY <1>6, <1>8 DEF Abstract!Next

LEMMA MarkSentIsAcknowledge ==
    ASSUME IInv, NEW b \in batch, MarkSent(b)
    PROVE  Abstract!Next
<1>1. /\ UNCHANGED <<disk, delivered, failures>> /\ b.msg \in delivered /\ batch' = batch \ {b}
      /\ rows' \in {rows, Marked(b.id)}
  BY DEF MarkSent
<1>2. CASE rows' = rows
  <2>1. Entries(Pending') = Entries(Pending)
    BY <1>2 DEF Pending
  <2>. QED
    BY <1>1, <2>1 DEF Abstract!Next, Abstract!Acknowledge
<1>3. CASE rows' = Marked(b.id)
  <2>1. \A r \in rows : r.id = b.id => r.msg = b.msg
    BY DEF IInv, BatchInv
  <2>2. \A r \in rows : [r EXCEPT !.sent = TRUE].sent
    BY Numbers DEF Row
  <2>3. Pending' = {r \in Pending : r.id # b.id}
    BY <1>3, <2>2 DEF Pending, Marked
  <2>4. b = [id |-> b.id, msg |-> b.msg]
    BY DEF IInv, TypeOK
  <2>5. \A r \in Pending : r.id = b.id <=> [id |-> r.id, msg |-> r.msg] = b
    BY <2>1, <2>4 DEF Pending
  <2>6. Entries(Pending') = Entries(Pending) \ {b}
    BY <2>3, <2>5 DEF Entries
  <2>. QED
    BY <1>1, <2>6 DEF Abstract!Next, Abstract!Acknowledge
<1>. QED
  BY <1>1, <1>2, <1>3

LEMMA GoneIsRestart ==
    ASSUME Crash \/ PowerLoss
    PROVE  Abstract!Next
<1>1. UNCHANGED <<disk, delivered, failures>> /\ batch' = {}
  BY DEF Crash, PowerLoss, ProcessGone
<1>2. rows' = rows \/ rows' = disk.rows
  BY DEF Crash, PowerLoss, table
<1>3. Entries(Pending') \in {Entries(Pending), Entries({r \in disk.rows : ~r.sent})}
  BY <1>2 DEF Pending
<1>. QED
  BY <1>1, <1>3 DEF Abstract!Next, Abstract!Restart

LEMMA AbstractStep ==
    ASSUME IInv, [Next]_vars
    PROVE  [Abstract!Next]_(Abstract!vars)
<1>1. CASE Open \/ Close \/ Store \/ InsertFails \/ UNCHANGED vars
  <2>1. UNCHANGED <<rows, disk, batch, delivered>>
    BY <1>1 DEF Open, Close, Store, InsertFails, vars, table, caller
  <2>2. CASE UNCHANGED failures
    BY <2>1, <2>2 DEF Pending, Abstract!vars
  <2>3. CASE Full /\ SkipEviction
    <3>1. Abstract!Cardinality(Entries(Pending)) >= MaxRows
      BY <2>3, EntriesSize DEF Full, Cardinality, Abstract!Cardinality
    <3>. QED
      BY <2>1, <2>3, <3>1 DEF SkipEviction, Pending, Abstract!Next, Abstract!DropFails
  <2>. QED
    BY <1>1, <2>2, <2>3 DEF Open, Close, Store, InsertFails, vars
<1>2. CASE Evict
  BY <1>2, EvictIsDropOldest
<1>3. CASE InsertRow
  BY <1>3, InsertRowIsAdd
<1>4. CASE Drain
  <2>1. PICK n \in 0..Limit : batch' = {[id |-> r.id, msg |-> r.msg] : r \in Drained(n)}
    BY <1>4 DEF Drain
  <2>2. Drained(n) \subseteq Pending
    BY DEF Drained, FirstPending
  <2>3. batch' \in SUBSET Entries(Pending)
    BY <2>1, <2>2 DEF Entries
  <2>4. UNCHANGED <<rows, disk, delivered, failures>>
    BY <1>4 DEF Drain, table
  <2>. QED
    BY <2>3, <2>4 DEF Pending, Abstract!Next, Abstract!HandOut
<1>5. ASSUME NEW b \in batch, Publish(b)
      PROVE  Abstract!Next
  BY <1>5 DEF Publish, table, Pending, Abstract!Next, Abstract!Deliver
<1>6. ASSUME NEW b \in batch, MarkSent(b)
      PROVE  Abstract!Next
  BY <1>6, MarkSentIsAcknowledge
<1>7. CASE Sync
  BY <1>7 DEF Sync, table, caller, Pending, Abstract!Next, Abstract!Save
<1>8. CASE Crash \/ PowerLoss
  BY <1>8, GoneIsRestart
<1>. QED
  BY <1>1, <1>2, <1>3, <1>4, <1>5, <1>6, <1>7, <1>8 DEF Next

\* The table with its statements, errors, crashes and power losses implements the
\* store that gives up a message only for an acknowledgement, as the oldest of a
\* full store, or to a power loss, and takes none in over its ceiling but for drops that failed.
THEOREM Refinement == Spec => Implements
<1>. QED
  BY AbstractInit, AbstractStep, IInvHolds, PTL DEF Spec, Implements, Abstract!Spec
=============================================================================
