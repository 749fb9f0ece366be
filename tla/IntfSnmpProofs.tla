--------------------------- MODULE IntfSnmpProofs ---------------------------
(***************************************************************************)
(* Theorems about IntfSnmp, for any rows of any interfaces and ports, any  *)
(* order of the walk over them, any garbage in an uninitialized variable   *)
(* and any number of changes and failed allocations.  A load is a loop     *)
(* over the rows: its lemmas are induction along the walk, by the theorems *)
(* of Loops for the step of that loop.  The invariant then says that a     *)
(* table in exact holds what a load of the rows there are now comes to.    *)
(***************************************************************************)
EXTENDS IntfSnmp, SequenceTheorems, TLAPS

-----------------------------------------------------------------------------
(* The loop of ifTable.                                                    *)

IfLoop == INSTANCE Loops WITH Step <- ifTableRow

Status(g) == {1, 2, 3, g}
IfRows(rows, names, g) ==
    {<<Number[i], IfRow(rows[i], a, o)>> : i \in names, a \in Status(g), o \in Status(g)}
IfResults(rows, names, g) ==
    [rows : Seq(IfRows(rows, names, g)), fault : BOOLEAN, oper : Status(g), admin : Status(g)]
IfStart(g) == [rows |-> <<>>, fault |-> FALSE, oper |-> g, admin |-> g]

(* A row keeps the results of the loop.                                    *)
LEMMA IfTableRowType ==
    ASSUME NEW rows, NEW names, NEW g, NEW acc \in IfResults(rows, names, g), NEW i \in names
    PROVE  ifTableRow(rows, acc, i) \in IfResults(rows, names, g)
<1> DEFINE r == rows[i]
           oper == StatusValue(r.link_state, acc.oper)
           admin == StatusValue(r.admin_state, acc.admin)
           R == IfRows(rows, names, g)
<1>1. acc.rows \in Seq(R) /\ acc.fault \in BOOLEAN /\ acc.oper \in Status(g) /\ acc.admin \in Status(g)
    BY DEF IfResults
<1>2. oper \in Status(g) /\ admin \in Status(g)
    BY <1>1 DEF StatusValue, Status
<1>3. <<Number[i], IfRow(r, admin, oper)>> \in R
    BY <1>2 DEF IfRows
<1>4. Append(acc.rows, <<Number[i], IfRow(r, admin, oper)>>) \in Seq(R)
    BY <1>1, <1>3
<1>5. [acc EXCEPT !.fault = TRUE] \in IfResults(rows, names, g)
    BY DEF IfResults
<1>6. [fault |-> FALSE, oper |-> oper, admin |-> admin,
       rows |-> Append(acc.rows, <<Number[i], IfRow(r, admin, oper)>>)] \in IfResults(rows, names, g)
    BY <1>1, <1>2, <1>4 DEF IfResults
<1> QED
    BY <1>5, <1>6 DEF ifTableRow

(* The load is the last of the results.                                    *)
LEMMA IfTableLoop ==
    ASSUME NEW rows, NEW names, NEW walk \in Seq(names), NEW g
    PROVE  \E f :
              /\ IfLoop!Runs(f, rows, IfStart(g), walk)
              /\ ifTable_container_load(rows, walk, g) = f[Len(walk)]
<1>1. IfStart(g) \in IfResults(rows, names, g)
    BY DEF IfStart, IfResults, Status
<1>2. \A acc \in IfResults(rows, names, g), i \in names :
         ifTableRow(rows, acc, i) \in IfResults(rows, names, g)
    BY IfTableRowType
<1>3. ifTable_container_load(rows, walk, g) = IfLoop!Result(rows, IfStart(g), walk)
    BY DEF ifTable_container_load, IfStart, IfLoop!Result, FoldLeft, IfLoop!FoldLeft,
           MapThenFoldSet, IfLoop!MapThenFoldSet, Max, IfLoop!Max
<1> QED
    BY <1>1, <1>2, <1>3, IfLoop!FoldRuns

-----------------------------------------------------------------------------
(* Containers.                                                             *)

InsertEntry(db, acc, entry) == CONTAINER_INSERT(acc, entry)
InsertLoop == INSTANCE Loops WITH Step <- InsertEntry

Tables(K, W) == UNION {[D -> W] : D \in SUBSET K}

(* Inserting an entry keeps keys and values.                               *)
LEMMA InsertType ==
    ASSUME NEW K, NEW W, NEW acc \in Tables(K, W), NEW e \in K \X W
    PROVE  CONTAINER_INSERT(acc, e) \in Tables(K, W)
<1>1. PICK D \in SUBSET K : acc \in [D -> W]
    BY DEF Tables
<1>2. e[1] \in K /\ e[2] \in W
    OBVIOUS
<1>3. CONTAINER_INSERT(acc, e) \in [D \cup {e[1]} -> W]
    BY <1>1, <1>2 DEF CONTAINER_INSERT
<1>4. D \cup {e[1]} \in SUBSET K
    BY <1>2
<1> QED
    BY <1>3, <1>4 DEF Tables

(* The empty container has any keys and values.                            *)
LEMMA EmptyIsTable ==
    ASSUME NEW K, NEW W
    PROVE  Empty \in Tables(K, W)
<1>1. Empty \in [{} -> W]
    BY DEF Empty
<1>2. {} \in SUBSET K
    OBVIOUS
<1> QED
    BY <1>1, <1>2 DEF Tables

(* Inserting entries is a loop.                                            *)
LEMMA InsertedIsLoop ==
    ASSUME NEW rows, NEW entries
    PROVE  Inserted(rows, entries) = InsertLoop!Result(0, rows, entries)
    BY DEF Inserted, InsertLoop!Result, InsertEntry, FoldLeft, InsertLoop!FoldLeft,
           MapThenFoldSet, InsertLoop!MapThenFoldSet, Max, InsertLoop!Max

(* Entries are inserted one after the other.                               *)
LEMMA InsertedNone ==
    Inserted(Empty, <<>>) = Empty
<1> DEFINE T == Tables({}, {})
           X == {}
<1>1. Empty \in T
    BY EmptyIsTable
<1>2. \A acc \in T, x \in X : InsertEntry(0, acc, x) \in T
    OBVIOUS
<1> HIDE DEF T, X
<1>3. InsertLoop!Result(0, Empty, <<>>) = Empty
    BY <1>1, <1>2, InsertLoop!ResultOfNone
<1> QED
    BY <1>3, InsertedIsLoop

(* The last entry is inserted last.                                        *)
LEMMA InsertedAppend ==
    ASSUME NEW K, NEW W, NEW entries \in Seq(K \X W), NEW e \in K \X W
    PROVE  Inserted(Empty, Append(entries, e)) = CONTAINER_INSERT(Inserted(Empty, entries), e)
<1> DEFINE T == Tables(K, W)
           X == K \X W
<1>1. Empty \in T
    BY EmptyIsTable
<1>2. \A acc \in T, x \in X : InsertEntry(0, acc, x) \in T
    BY InsertType DEF InsertEntry
<1>3. entries \in Seq(X) /\ e \in X
    OBVIOUS
<1> HIDE DEF T, X
<1>4. InsertLoop!Result(0, Empty, Append(entries, e))
        = InsertEntry(0, InsertLoop!Result(0, Empty, entries), e)
    BY <1>1, <1>2, <1>3, InsertLoop!ResultOfAppend
<1> QED
    BY <1>4, InsertedIsLoop DEF InsertEntry

-----------------------------------------------------------------------------
(* What a walk over rows puts into a container: for every number the row   *)
(* made at the first position that has it.                                 *)

Names == Interface \cup Port

Contributes(rows, i) == i \in DOMAIN rows /\ ~ifTable_skip_function(i)

Numbers(rows, walk, k) == {Number[walk[j]] : j \in {l \in 1..k : Contributes(rows, walk[l])}}

FirstAt(rows, walk, n, j) ==
    /\ j \in 1..Len(walk) /\ Contributes(rows, walk[j]) /\ Number[walk[j]] = n
    /\ \A l \in 1..(j - 1) : Contributes(rows, walk[l]) => Number[walk[l]] # n

\* R[j] is the row made at position j.
Shows(rows, walk, k, C, R) ==
    /\ DOMAIN C = Numbers(rows, walk, k)
    /\ \A n \in DOMAIN C : \E j \in 1..k : FirstAt(rows, walk, n, j) /\ C[n] = R[j]

(* Before the walk a container shows nothing.                              *)
LEMMA ShowsNothing ==
    ASSUME NEW rows, NEW walk, NEW R
    PROVE  Shows(rows, walk, 0, Empty, R)
<1>1. Numbers(rows, walk, 0) = {} /\ DOMAIN Empty = {}
    BY DEF Numbers, Empty
<1> QED
    BY <1>1 DEF Shows

(* A position adds the number of its row, when it has one.                 *)
LEMMA NumbersGrow ==
    ASSUME NEW rows, NEW walk, NEW k \in Nat \ {0}
    PROVE  Numbers(rows, walk, k) = Numbers(rows, walk, k - 1)
              \cup IF Contributes(rows, walk[k]) THEN {Number[walk[k]]} ELSE {}
<1>1. \A l : l \in 1..k <=> l \in 1..(k - 1) \/ l = k
    OBVIOUS
<1> QED
    BY <1>1 DEF Numbers

(* A row that is passed over changes nothing.                              *)
LEMMA ShowsSame ==
    ASSUME NEW rows, NEW walk, NEW R, NEW C, NEW k \in Nat \ {0},
           Shows(rows, walk, k - 1, C, R), ~Contributes(rows, walk[k])
    PROVE  Shows(rows, walk, k, C, R)
<1>1. DOMAIN C = Numbers(rows, walk, k)
    BY NumbersGrow DEF Shows
<1>2. \A j \in 1..(k - 1) : j \in 1..k
    OBVIOUS
<1> QED
    BY <1>1, <1>2 DEF Shows

(* A row that is inserted is shown when its number is new.                 *)
LEMMA ShowsMore ==
    ASSUME NEW rows, NEW walk, NEW R, NEW C, NEW k \in Nat \ {0}, k <= Len(walk), Len(walk) \in Nat,
           Shows(rows, walk, k - 1, C, R), Contributes(rows, walk[k])
    PROVE  Shows(rows, walk, k, CONTAINER_INSERT(C, <<Number[walk[k]], R[k]>>), R)
<1> DEFINE m == Number[walk[k]]
           D == CONTAINER_INSERT(C, <<m, R[k]>>)
<1>1. DOMAIN D = DOMAIN C \cup {m} /\ \A n \in DOMAIN D : D[n] = IF n \in DOMAIN C THEN C[n] ELSE R[k]
    BY DEF CONTAINER_INSERT
<1> HIDE DEF D
<1>2. DOMAIN D = Numbers(rows, walk, k)
    BY <1>1, NumbersGrow DEF Shows
<1>3. ASSUME NEW n \in DOMAIN D, n \in DOMAIN C
      PROVE  \E j \in 1..k : FirstAt(rows, walk, n, j) /\ D[n] = R[j]
  <2>1. \A j \in 1..(k - 1) : j \in 1..k
      OBVIOUS
  <2> QED
      BY <1>1, <1>3, <2>1 DEF Shows
<1>4. ASSUME NEW n \in DOMAIN D, n \notin DOMAIN C
      PROVE  FirstAt(rows, walk, n, k) /\ D[n] = R[k]
  <2>1. n = m /\ D[n] = R[k]
      BY <1>1, <1>4
  <2>2. \A l \in 1..(k - 1) : Contributes(rows, walk[l]) => Number[walk[l]] # n
      BY <1>4 DEF Shows, Numbers
  <2>3. k \in 1..Len(walk)
      OBVIOUS
  <2> QED
      BY <2>1, <2>2, <2>3 DEF FirstAt
<1>5. k \in 1..k
    OBVIOUS
<1>6. Shows(rows, walk, k, D, R)
    BY <1>2, <1>3, <1>4, <1>5 DEF Shows
<1> QED
    BY <1>6 DEF D

-----------------------------------------------------------------------------
(* ifTable.                                                                *)

Silent(rows, i) == Contributes(rows, i) => rows[i].link_state = Unset

StateValue(state) == IF state = "up" THEN 1 ELSE 2

\* The operational status after position k: that of the nearest row with a
\* link state, or what the variable held.
OperIs(rows, walk, g, k, o) ==
    \/ \E m \in 1..k : /\ Contributes(rows, walk[m]) /\ rows[walk[m]].link_state # Unset
                       /\ \A l \in (m + 1)..k : Silent(rows, walk[l])
                       /\ o = StateValue(rows[walk[m]].link_state)
    \/ (\A l \in 1..k : Silent(rows, walk[l])) /\ o = g

(* A row without a link state leaves the status of the row before.         *)
LEMMA OperStays ==
    ASSUME NEW rows, NEW walk, NEW g, NEW o, NEW k \in Nat \ {0},
           OperIs(rows, walk, g, k - 1, o), Silent(rows, walk[k])
    PROVE  OperIs(rows, walk, g, k, o)
<1>1. CASE (\A l \in 1..(k - 1) : Silent(rows, walk[l])) /\ o = g
  <2>1. \A l \in 1..k : l \in 1..(k - 1) \/ l = k
      OBVIOUS
  <2> QED
      BY <1>1, <2>1 DEF OperIs
<1>2. CASE ~((\A l \in 1..(k - 1) : Silent(rows, walk[l])) /\ o = g)
  <2>1. PICK m \in 1..(k - 1) :
             /\ Contributes(rows, walk[m]) /\ rows[walk[m]].link_state # Unset
             /\ \A l \in (m + 1)..(k - 1) : Silent(rows, walk[l])
             /\ o = StateValue(rows[walk[m]].link_state)
      BY <1>2 DEF OperIs
  <2>2. m \in 1..k /\ \A l \in (m + 1)..k : l \in (m + 1)..(k - 1) \/ l = k
      OBVIOUS
  <2> QED
      BY <2>1, <2>2 DEF OperIs
<1> QED
    BY <1>1, <1>2

(* A row with a link state is the nearest one itself.                      *)
LEMMA OperChanges ==
    ASSUME NEW rows, NEW walk, NEW g, NEW k \in Nat \ {0},
           Contributes(rows, walk[k]), rows[walk[k]].link_state # Unset
    PROVE  OperIs(rows, walk, g, k, StateValue(rows[walk[k]].link_state))
<1>1. k \in 1..k /\ (k + 1)..k = {}
    OBVIOUS
<1> QED
    BY <1>1 DEF OperIs

\* The rows shown are those of the first positions with their numbers.
ShowsNearest(rows, walk, g, C) ==
    \E R : /\ Shows(rows, walk, Len(walk), C, R)
           /\ \A j \in 1..Len(walk) : Contributes(rows, walk[j]) =>
                 \E o : /\ OperIs(rows, walk, g, j, o)
                        /\ R[j] = IfRow(rows[walk[j]], StateValue(rows[walk[j]].admin_state), o)

Lacks(rows) == \E i \in DOMAIN rows : Contributes(rows, i) /\ rows[i].admin_state = Unset

\* The rows of Interface obey its schema.
SchemaRows(rows) == \A i \in DOMAIN rows : Schema(rows[i])

(* A load that is not cut short shows, of the first row with a number, its *)
(* columns, its admin status and the nearest operational status; it is cut *)
(* short only by a row without an admin state.                             *)
LEMMA IfTableShows ==
    ASSUME NEW rows, NEW walk \in Seq(Names), NEW g, SchemaRows(rows), Unset \notin {"up", "down", "testing"},
           DOMAIN rows \subseteq Names
    PROVE  LET load == ifTable_container_load(rows, walk, g)
           IN  /\ load.fault \in BOOLEAN
               /\ load.fault => Lacks(rows)
               /\ load.rows \in Seq(IfRows(rows, Names, g))
               /\ ~load.fault => ShowsNearest(rows, walk, g, Inserted(Empty, load.rows))
<1> DEFINE n == Len(walk)
           V == IfRows(rows, Names, g)
<1>1. n \in Nat /\ \A k \in 1..n : walk[k] \in Names
    OBVIOUS
<1>2. PICK f : /\ IfLoop!Runs(f, rows, IfStart(g), walk)
               /\ ifTable_container_load(rows, walk, g) = f[n]
    BY IfTableLoop
<1>3. f[0] = IfStart(g) /\ \A k \in 1..n : f[k] = ifTableRow(rows, f[k - 1], walk[k])
    BY <1>1, <1>2 DEF IfLoop!Runs
<1>4. \A k \in 0..n : f[k] \in IfResults(rows, Names, g)
  <2>1. IfStart(g) \in IfResults(rows, Names, g)
      BY DEF IfStart, IfResults, Status
  <2>2. \A acc \in IfResults(rows, Names, g), i \in Names :
           ifTableRow(rows, acc, i) \in IfResults(rows, Names, g)
      BY IfTableRowType
  <2> QED
      BY <1>2, <2>1, <2>2, IfLoop!RunStaysIn
<1>5. \A k \in 0..n : f[k].rows \in Seq(V) /\ f[k].fault \in BOOLEAN
    BY <1>4 DEF IfResults
<1> DEFINE R == [j \in 1..n |-> IfRow(rows[walk[j]], f[j].admin, f[j].oper)]
           Good(k) == /\ OperIs(rows, walk, g, k, f[k].oper)
                      /\ Shows(rows, walk, k, Inserted(Empty, f[k].rows), R)
                      /\ \A j \in 1..k : Contributes(rows, walk[j]) =>
                            /\ f[j].admin = StateValue(rows[walk[j]].admin_state)
                            /\ OperIs(rows, walk, g, j, f[j].oper)
           S == {k \in 0..n : IF f[k].fault THEN Lacks(rows) ELSE Good(k)}
<1>6. 0 \in S
  <2>1. f[0].rows = <<>> /\ f[0].fault = FALSE /\ f[0].oper = g
      BY <1>3 DEF IfStart
  <2>2. 1..0 = {}
      OBVIOUS
  <2>3. OperIs(rows, walk, g, 0, g)
      BY <2>2 DEF OperIs
  <2>4. Shows(rows, walk, 0, Inserted(Empty, <<>>), R)
    <3> HIDE DEF R
    <3> QED
        BY ShowsNothing, InsertedNone
  <2>5. Good(0)
      BY <2>1, <2>2, <2>3, <2>4
  <2> HIDE DEF Good
  <2> QED
      BY <1>1, <2>1, <2>5
<1>7. ASSUME NEW k \in 1..n, k - 1 \in S PROVE k \in S
  <2> DEFINE i == walk[k]
             a == f[k - 1]
             r == rows[i]
             oper == StatusValue(r.link_state, a.oper)
             admin == StatusValue(r.admin_state, a.admin)
  <2>1. k \in Nat \ {0} /\ k - 1 \in 0..n /\ k \in 0..n /\ i \in Names
      BY <1>1
  <2>2. /\ a.rows \in Seq(V) /\ a.fault \in BOOLEAN
        /\ f[k].rows \in Seq(V) /\ f[k].fault \in BOOLEAN
        /\ a \in IfResults(rows, Names, g)
      BY <1>4, <1>5, <2>1
  <2>3. f[k] = ifTableRow(rows, a, i)
      BY <1>3
  <2>4. IF a.fault THEN Lacks(rows) ELSE Good(k - 1)
      BY <1>7
  <2>5. CASE a.fault
    <3>1. f[k] = a
        BY <2>3, <2>5 DEF ifTableRow
    <3> HIDE DEF Good
    <3> QED
        BY <2>1, <2>4, <2>5, <3>1
  <2>6. CASE ~a.fault /\ ~Contributes(rows, i)
    <3>1. f[k] = a
        BY <2>3, <2>6 DEF ifTableRow, Contributes
    <3>2. OperIs(rows, walk, g, k, f[k].oper)
      <4>1. Silent(rows, i)
          BY <2>6 DEF Silent
      <4> QED
          BY <2>1, <2>4, <2>6, <3>1, <4>1, OperStays
    <3>3. Shows(rows, walk, k, Inserted(Empty, f[k].rows), R)
      <4> HIDE DEF R
      <4> QED
          BY <2>1, <2>4, <2>6, <3>1, ShowsSame
    <3>4. \A j \in 1..k : Contributes(rows, walk[j]) => j \in 1..(k - 1)
        BY <2>6
    <3>5. Good(k)
      <4> HIDE DEF R
      <4> QED
          BY <2>4, <2>6, <3>2, <3>3, <3>4
    <3> HIDE DEF Good
    <3> QED
        BY <2>1, <2>6, <3>1, <3>5
  <2>7. CASE ~a.fault /\ Contributes(rows, i) /\ r.admin_state = Unset
    <3>1. f[k] = [a EXCEPT !.fault = TRUE]
        BY <2>3, <2>7 DEF ifTableRow, Contributes
    <3>2. f[k].fault
        BY <2>2, <3>1 DEF IfResults
    <3>3. Lacks(rows)
        BY <2>7 DEF Lacks, Contributes
    <3> HIDE DEF Good
    <3> QED
        BY <2>1, <3>2, <3>3
  <2>8. CASE ~a.fault /\ Contributes(rows, i) /\ r.admin_state # Unset
    <3>1. f[k] = [fault |-> FALSE, oper |-> oper, admin |-> admin,
                  rows |-> Append(a.rows, <<Number[i], IfRow(r, admin, oper)>>)]
        BY <2>3, <2>8 DEF ifTableRow, Contributes
    <3>2. /\ f[k].fault = FALSE /\ f[k].oper = oper /\ f[k].admin = admin
          /\ f[k].rows = Append(a.rows, <<Number[i], IfRow(r, admin, oper)>>)
        BY <3>1
    <3>3. r.admin_state \in {"up", "down"} /\ r.link_state \in {"up", "down", Unset}
        BY <2>8 DEF SchemaRows, Schema, Contributes
    <3>4. admin = StateValue(r.admin_state)
        BY <3>3 DEF StatusValue, StateValue
    <3>5. OperIs(rows, walk, g, k, oper)
      <4>1. CASE r.link_state = Unset
        <5>1. oper = a.oper
            BY <4>1 DEF StatusValue
        <5>2. Silent(rows, i)
            BY <4>1 DEF Silent
        <5> QED
            BY <2>1, <2>4, <2>8, <5>1, <5>2, OperStays
      <4>2. CASE r.link_state # Unset
        <5>1. oper = StateValue(r.link_state)
            BY <3>3, <4>2 DEF StatusValue, StateValue
        <5> QED
            BY <2>1, <2>8, <4>2, <5>1, OperChanges
      <4> QED
          BY <4>1, <4>2
    <3>6. R[k] = IfRow(r, admin, oper)
        BY <3>2
    <3>7. Inserted(Empty, f[k].rows) = CONTAINER_INSERT(Inserted(Empty, a.rows), <<Number[i], R[k]>>)
      <4> DEFINE W == {IfRow(rows[x], p, q) : x \in Names, p \in Status(g), q \in Status(g)}
                 K == {Number[x] : x \in Names}
      <4>1. V \subseteq K \X W
          BY DEF IfRows
      <4>2. a.rows \in Seq(K \X W)
        <5> HIDE DEF V, K, W
        <5> QED
            BY <2>2, <4>1
      <4>3. a.oper \in Status(g) /\ a.admin \in Status(g)
          BY <2>2 DEF IfResults
      <4>4. oper \in Status(g) /\ admin \in Status(g)
          BY <4>3 DEF StatusValue, Status
      <4>5. <<Number[i], IfRow(r, admin, oper)>> \in K \X W
          BY <2>1, <4>4
      <4> HIDE DEF K, W, R, admin, oper
      <4> QED
          BY <3>2, <3>6, <4>2, <4>5, InsertedAppend
    <3>8. Shows(rows, walk, k, Inserted(Empty, f[k].rows), R)
      <4>1. k <= Len(walk) /\ Len(walk) \in Nat
          BY <1>1
      <4> HIDE DEF R
      <4> QED
          BY <2>1, <2>4, <2>8, <3>7, <4>1, ShowsMore
    <3>9. \A j \in 1..k : j \in 1..(k - 1) \/ j = k
        BY <2>1
    <3>10. Good(k)
      <4> HIDE DEF R
      <4> QED
          BY <2>4, <2>8, <3>2, <3>4, <3>5, <3>8, <3>9
    <3> HIDE DEF Good
    <3> QED
        BY <2>1, <3>2, <3>10
  <2> QED
      BY <2>2, <2>5, <2>6, <2>7, <2>8
<1>8. n \in S
  <2> HIDE DEF S
  <2>1. \A k \in 0..n : k \in S
      BY <1>1, <1>6, <1>7, IfLoop!InductionUpTo
  <2> QED
      BY <1>1, <2>1
<1>9. f[n].rows \in Seq(V) /\ f[n].fault \in BOOLEAN
    BY <1>1, <1>5
<1>10. ASSUME ~f[n].fault
       PROVE  ShowsNearest(rows, walk, g, Inserted(Empty, f[n].rows))
  <2>1. Good(n)
      BY <1>8, <1>10
  <2>2. \A j \in 1..n : Contributes(rows, walk[j]) =>
           /\ OperIs(rows, walk, g, j, f[j].oper)
           /\ R[j] = IfRow(rows[walk[j]], StateValue(rows[walk[j]].admin_state), f[j].oper)
      BY <2>1
  <2> HIDE DEF R
  <2> QED
      BY <2>1, <2>2 DEF ShowsNearest
<1> QED
    BY <1>2, <1>8, <1>9, <1>10

-----------------------------------------------------------------------------
(* ifXTable.                                                               *)

IfXLoop == INSTANCE Loops WITH Step <- ifXTableRow

IfXRows(rows, names) == {<<Number[i], IfXRow(rows[i])>> : i \in names}
IfXResults(rows, names) == [rows : Seq(IfXRows(rows, names)), fault : {FALSE}]

(* A row keeps the results of the loop, and is appended.                   *)
LEMMA IfXTableRowType ==
    ASSUME NEW rows, NEW names, NEW acc \in IfXResults(rows, names), NEW i \in names
    PROVE  /\ ifXTableRow(rows, acc, i) \in IfXResults(rows, names)
           /\ i \in DOMAIN rows /\ ~ifTable_skip_function(i) =>
                 ifXTableRow(rows, acc, i).rows = Append(acc.rows, <<Number[i], IfXRow(rows[i])>>)
<1> DEFINE R == IfXRows(rows, names)
           e == <<Number[i], IfXRow(rows[i])>>
<1>1. acc.rows \in Seq(R) /\ acc.fault = FALSE /\ acc = [rows |-> acc.rows, fault |-> acc.fault]
    BY DEF IfXResults
<1>2. e \in R
    BY DEF IfXRows
<1> HIDE DEF R, e
<1>3. Append(acc.rows, e) \in Seq(R)
    BY <1>1, <1>2
<1>4. [acc EXCEPT !.rows = Append(@, e)] \in IfXResults(rows, names)
    BY <1>1, <1>3 DEF IfXResults, R
<1>5. [acc EXCEPT !.rows = Append(@, e)].rows = Append(acc.rows, e)
    BY DEF IfXResults
<1>6. CASE i \in DOMAIN rows /\ ~ifTable_skip_function(i)
  <2>1. ifXTableRow(rows, acc, i) = [acc EXCEPT !.rows = Append(@, e)]
      BY <1>6 DEF ifXTableRow, e
  <2> QED
      BY <1>4, <1>5, <2>1 DEF e
<1>7. CASE ~(i \in DOMAIN rows /\ ~ifTable_skip_function(i))
    BY <1>7 DEF ifXTableRow
<1> QED
    BY <1>6, <1>7

ShowsColumns(rows, walk, C) ==
    \E R : /\ Shows(rows, walk, Len(walk), C, R)
           /\ \A j \in 1..Len(walk) : R[j] = IfXRow(rows[walk[j]])

(* The load is never cut short and shows, of the first row with a number,  *)
(* its columns.                                                            *)
LEMMA IfXTableShows ==
    ASSUME NEW rows, NEW walk \in Seq(Names), DOMAIN rows \subseteq Names
    PROVE  LET load == ifXTable_container_load(rows, walk)
           IN  /\ load.fault = FALSE
               /\ load.rows \in Seq(IfXRows(rows, Names))
               /\ ShowsColumns(rows, walk, Inserted(Empty, load.rows))
<1> DEFINE n == Len(walk)
           V == IfXRows(rows, Names)
           T == IfXResults(rows, Names)
<1>1. n \in Nat /\ \A k \in 1..n : walk[k] \in Names
    OBVIOUS
<1>2. NoRows \in T
    BY DEF NoRows, IfXResults
<1>3. \A acc \in T, i \in Names : ifXTableRow(rows, acc, i) \in T
    BY IfXTableRowType
<1>4. ifXTable_container_load(rows, walk) = IfXLoop!Result(rows, NoRows, walk)
    BY DEF ifXTable_container_load, IfXLoop!Result, FoldLeft, IfXLoop!FoldLeft,
           MapThenFoldSet, IfXLoop!MapThenFoldSet, Max, IfXLoop!Max
<1>5. PICK f : /\ IfXLoop!Runs(f, rows, NoRows, walk)
               /\ ifXTable_container_load(rows, walk) = f[n]
  <2> HIDE DEF T
  <2> QED
      BY <1>2, <1>3, <1>4, IfXLoop!FoldRuns
<1>6. \A k \in 0..n : f[k] \in T
  <2> HIDE DEF T
  <2> QED
      BY <1>2, <1>3, <1>5, IfXLoop!RunStaysIn
<1>7. \A k \in 0..n : f[k].rows \in Seq(V) /\ f[k].fault = FALSE
    BY <1>6 DEF IfXResults
<1>8. f[0] = NoRows /\ \A k \in 1..n : f[k] = ifXTableRow(rows, f[k - 1], walk[k])
    BY <1>1, <1>5 DEF IfXLoop!Runs
<1> DEFINE R == [j \in 1..n |-> IfXRow(rows[walk[j]])]
           S == {k \in 0..n : Shows(rows, walk, k, Inserted(Empty, f[k].rows), R)}
<1>9. 0 \in S
  <2>1. f[0].rows = <<>>
      BY <1>8 DEF NoRows
  <2> HIDE DEF R
  <2> QED
      BY <1>1, <2>1, ShowsNothing, InsertedNone
<1>10. ASSUME NEW k \in 1..n, k - 1 \in S PROVE k \in S
  <2> DEFINE i == walk[k]
             a == f[k - 1]
  <2>1. k \in Nat \ {0} /\ k - 1 \in 0..n /\ k \in 0..n /\ i \in Names /\ k <= Len(walk) /\ Len(walk) \in Nat
      BY <1>1
  <2>2. a.rows \in Seq(V) /\ a \in T /\ f[k] = ifXTableRow(rows, a, i)
      BY <1>6, <1>7, <1>8, <2>1
  <2>3. Shows(rows, walk, k - 1, Inserted(Empty, a.rows), R)
      BY <1>10
  <2>4. CASE ~Contributes(rows, i)
    <3>1. f[k] = a
        BY <2>2, <2>4 DEF ifXTableRow, Contributes
    <3> HIDE DEF R
    <3> QED
        BY <2>1, <2>3, <2>4, <3>1, ShowsSame
  <2>5. CASE Contributes(rows, i)
    <3>1. f[k].rows = Append(a.rows, <<Number[i], IfXRow(rows[i])>>)
      <4>1. i \in DOMAIN rows /\ ~ifTable_skip_function(i)
          BY <2>5 DEF Contributes
      <4>2. a \in IfXResults(rows, Names) /\ i \in Names
          BY <2>1, <2>2
      <4> HIDE DEF a, i
      <4>3. ifXTableRow(rows, a, i).rows = Append(a.rows, <<Number[i], IfXRow(rows[i])>>)
          BY <4>1, <4>2, IfXTableRowType
      <4> QED
          BY <2>2, <4>3
    <3>2. R[k] = IfXRow(rows[i])
        OBVIOUS
    <3>3. Inserted(Empty, f[k].rows) = CONTAINER_INSERT(Inserted(Empty, a.rows), <<Number[i], R[k]>>)
      <4> DEFINE W == {IfXRow(rows[x]) : x \in Names}
                 K == {Number[x] : x \in Names}
      <4>1. V \subseteq K \X W
          BY DEF IfXRows
      <4>2. a.rows \in Seq(K \X W)
        <5> HIDE DEF V, K, W
        <5> QED
            BY <2>2, <4>1
      <4>3. <<Number[i], IfXRow(rows[i])>> \in K \X W
          BY <2>1
      <4> HIDE DEF K, W, R
      <4> QED
          BY <3>1, <3>2, <4>2, <4>3, InsertedAppend
    <3>4. Shows(rows, walk, k, Inserted(Empty, f[k].rows), R)
      <4> HIDE DEF R
      <4> QED
          BY <2>1, <2>3, <2>5, <3>3, ShowsMore
    <3> HIDE DEF R
    <3> QED
        BY <2>1, <3>4
  <2> QED
      BY <2>4, <2>5
<1>11. n \in S
  <2> HIDE DEF S
  <2>1. \A k \in 0..n : k \in S
      BY <1>1, <1>9, <1>10, IfLoop!InductionUpTo
  <2> QED
      BY <1>1, <2>1
<1>12. n \in 0..n /\ \A j \in 1..n : R[j] = IfXRow(rows[walk[j]])
    BY <1>1
<1>13. Shows(rows, walk, n, Inserted(Empty, f[n].rows), R)
    BY <1>11
<1> HIDE DEF R
<1> QED
    BY <1>5, <1>7, <1>12, <1>13 DEF ShowsColumns

-----------------------------------------------------------------------------
(* The columns of one row in both tables.                                  *)

(* The two words of a counter make it up again.                            *)
LEMMA WholeOfU64 ==
    ASSUME NEW x \in Nat, Word \in Nat \ {0}
    PROVE  U64(x).high * Word + U64(x).low = x
<1>1. ((x \div Word) * Word) + (x % Word) = x
    OBVIOUS
<1> QED
    BY <1>1 DEF U64

(* Speeds and counters of one row in both tables.                          *)
LEMMA ColumnsAgree ==
    ASSUME NEW r, Schema(r), NEW admin, NEW oper, Word \in Nat \ {0}, Mega \in Nat \ {0}
    PROVE  LET a == IfRow(r, admin, oper)
               b == IfXRow(r)
               Whole(u) == u.high * Word + u.low
           IN  /\ IF a.ifSpeed < Word - 1 THEN b.ifHighSpeed = a.ifSpeed \div Mega
                  ELSE b.ifHighSpeed >= (Word - 1) \div Mega
               /\ b.ifHighSpeed > 0 => r.link_state = "up"
               /\ Whole(b.hc.ifHCInOctets) = a.in.ifInOctets
               /\ Whole(b.hc.ifHCInUcastPkts) = a.in.ifInUcastPkts
               /\ Whole(b.hc.ifHCOutOctets) = a.out.ifOutOctets
               /\ Whole(b.hc.ifHCOutUcastPkts) = a.out.ifOutUcastPkts
<1> DEFINE s == LinkSpeed(r)
<1>1. s \in Nat /\ (s # 0 => r.link_state = "up")
  <2>1. r.link_speed \in Seq(Nat)
      BY DEF Schema
  <2>2. r.link_speed # <<>> => Head(r.link_speed) \in Nat
      BY <2>1
  <2> QED
      BY <2>2 DEF LinkSpeed
<1>2. \A key : Statistic(r, key) \in Nat
    BY DEF Statistic, Schema
<1>3. IfXRow(r).ifHighSpeed = s \div Mega
    BY DEF IfXRow, ifHighSpeed
<1>4. IfRow(r, admin, oper).ifSpeed = IF s >= Word - 1 THEN Word - 1 ELSE s
    BY DEF IfRow, ifSpeed
<1> HIDE DEF s
<1>5. IF (IF s >= Word - 1 THEN Word - 1 ELSE s) < Word - 1
      THEN s \div Mega = (IF s >= Word - 1 THEN Word - 1 ELSE s) \div Mega
      ELSE s \div Mega >= (Word - 1) \div Mega
    BY <1>1
<1>6. s \div Mega > 0 => s # 0
    BY <1>1
<1>7. /\ IfXRow(r).hc = HCCounters(r)
      /\ IfRow(r, admin, oper).in = InCounters(r)
      /\ IfRow(r, admin, oper).out = OutCounters(r)
    BY DEF IfXRow, IfRow
<1>8. /\ HCCounters(r).ifHCInOctets = U64(InCounters(r).ifInOctets)
      /\ HCCounters(r).ifHCInUcastPkts = U64(InCounters(r).ifInUcastPkts)
      /\ HCCounters(r).ifHCOutOctets = U64(OutCounters(r).ifOutOctets)
      /\ HCCounters(r).ifHCOutUcastPkts = U64(OutCounters(r).ifOutUcastPkts)
    BY DEF HCCounters, InCounters, OutCounters
<1>9. /\ InCounters(r).ifInOctets \in Nat /\ InCounters(r).ifInUcastPkts \in Nat
      /\ OutCounters(r).ifOutOctets \in Nat /\ OutCounters(r).ifOutUcastPkts \in Nat
    BY <1>2 DEF InCounters, OutCounters
<1>10. IF IfRow(r, admin, oper).ifSpeed < Word - 1
       THEN IfXRow(r).ifHighSpeed = IfRow(r, admin, oper).ifSpeed \div Mega
       ELSE IfXRow(r).ifHighSpeed >= (Word - 1) \div Mega
    BY <1>3, <1>4, <1>5
<1>11. IfXRow(r).ifHighSpeed > 0 => r.link_state = "up"
    BY <1>1, <1>3, <1>6
<1> QED
    BY <1>7, <1>8, <1>9, <1>10, <1>11, WholeOfU64

-----------------------------------------------------------------------------
(* The tables of ports.                                                    *)

Counters == [DOMAIN NoCounters -> Nat]
IpEntries == ({1, 2} \X Nat) \X Counters
IpResults == [rows : Seq(IpEntries), fault : BOOLEAN]
Sums == [sum : [v4 : Counters, v6 : Counters], fault : BOOLEAN]

Numbered == \A p \in Names : Number[p] \in Nat

\* The ports whose interfaces there are, as the schema has them.
PortsFit(rows, ports) ==
    /\ SchemaRows(rows) /\ DOMAIN ports \subseteq Names
    /\ \A p \in DOMAIN ports : /\ ports[p].interfaces \in BOOLEAN
                               /\ ports[p].interfaces => FirstOf[p] \in DOMAIN rows

Incomplete(ports) ==
    \E p \in DOMAIN ports, fam \in {"v4", "v6"} :
        /\ Number[p] # 0
        /\ \/ ports[p].address[fam] = "secondary"
           \/ ports[p].address[fam] = "primary" /\ ~ports[p].interfaces

(* The counters of a row are numbers.                                      *)
LEMMA CountersType ==
    ASSUME NEW r, Schema(r), NEW fam
    PROVE  IpCounters(r, fam) \in Counters
<1> DEFINE A(n) == n \in Nat
<1>1. \A c, d, u : /\ IpStatistic(r.ip.v4, c, d, u) \in Nat
                   /\ IpStatistic(r.ip.v6, c, d, u) \in Nat
  <2>1. /\ r.ip["v4"] \in [DOMAIN r.ip["v4"] -> Nat]
        /\ r.ip["v6"] \in [DOMAIN r.ip["v6"] -> Nat]
      BY DEF Schema
  <2> QED
      BY <2>1 DEF IpStatistic
<1>2. \A d, u : IpBoth(r.ip.v4, d, u) \in Nat /\ IpBoth(r.ip.v6, d, u) \in Nat
    BY <1>1 DEF IpBoth
<1>3. IpCountersV4(r) \in Counters
    BY <1>1, <1>2 DEF IpCountersV4, Counters, NoCounters
<1>4. IpCountersV6(r) \in Counters
    BY <1>1, <1>2 DEF IpCountersV6, Counters, NoCounters
<1> QED
    BY <1>3, <1>4 DEF IpCounters

(* When a port has an address of a family.                                 *)
LEMMA InetIs ==
    ASSUME NEW ports, NEW p, NEW fam
    PROVE  /\ portTable_inet(ports, p, fam) \in {"yes", "no", "fault"}
           /\ portTable_inet(ports, p, fam) = "yes" <=>
                 Number[p] # 0 /\ ports[p].address[fam] = "primary"
           /\ portTable_inet(ports, p, fam) = "fault" <=>
                 Number[p] # 0 /\ ports[p].address[fam] = "secondary"
    BY DEF portTable_inet

(* One family of a port.                                                   *)
LEMMA IpRowIs ==
    ASSUME NEW rows, NEW ports, SchemaRows(rows), NEW acc \in IpResults, NEW p,
           Number[p] \in Nat, FirstOf[p] \in DOMAIN rows, NEW fam, NEW version \in {1, 2}
    PROVE  LET b == IpStatsRow(rows, ports, acc, p, fam, version)
               inet == portTable_inet(ports, p, fam)
               e == <<<<version, Number[p]>>, IpCounters(rows[FirstOf[p]], fam)>>
           IN  /\ b \in IpResults /\ e \in IpEntries
               /\ b.fault <=> acc.fault \/ inet = "fault"
               /\ b.rows = IF acc.fault \/ inet # "yes" THEN acc.rows ELSE Append(acc.rows, e)
<1> DEFINE inet == portTable_inet(ports, p, fam)
           e == <<<<version, Number[p]>>, IpCounters(rows[FirstOf[p]], fam)>>
<1>1. acc.rows \in Seq(IpEntries) /\ acc.fault \in BOOLEAN
    BY DEF IpResults
<1>2. e \in IpEntries
    BY CountersType DEF SchemaRows, IpEntries
<1>3. inet \in {"yes", "no", "fault"}
    BY InetIs
<1> HIDE DEF inet, e
<1>4. Append(acc.rows, e) \in Seq(IpEntries)
    BY <1>1, <1>2
<1>5. /\ [acc EXCEPT !.rows = Append(@, e)] \in IpResults
      /\ [acc EXCEPT !.rows = Append(@, e)].rows = Append(acc.rows, e)
      /\ [acc EXCEPT !.rows = Append(@, e)].fault = acc.fault
    BY <1>4 DEF IpResults
<1>6. /\ [acc EXCEPT !.fault = TRUE] \in IpResults
      /\ [acc EXCEPT !.fault = TRUE].rows = acc.rows
      /\ [acc EXCEPT !.fault = TRUE].fault = TRUE
    BY DEF IpResults
<1> DEFINE b == IpStatsRow(rows, ports, acc, p, fam, version)
<1>7. CASE acc.fault \/ inet = "no"
  <2>1. b = acc
      BY <1>7 DEF IpStatsRow, inet
  <2> HIDE DEF b
  <2>2. b \in IpResults /\ (b.fault <=> acc.fault \/ inet = "fault") /\ b.rows = acc.rows
      BY <1>1, <1>7, <2>1
  <2> QED
      BY <1>2, <1>7, <2>2 DEF b, inet, e
<1>8. CASE ~acc.fault /\ inet = "fault"
  <2>1. b = [acc EXCEPT !.fault = TRUE]
      BY <1>8 DEF IpStatsRow, inet
  <2> QED
      BY <1>2, <1>6, <1>8, <2>1 DEF inet, e
<1>9. CASE ~acc.fault /\ inet = "yes"
  <2>1. b = [acc EXCEPT !.rows = Append(@, e)]
      BY <1>9 DEF IpStatsRow, inet, e
  <2> QED
      BY <1>1, <1>2, <1>5, <1>9, <2>1 DEF inet, e
<1> QED
    BY <1>3, <1>7, <1>8, <1>9

\* The ports ipIfStatsTable_container_load looks at.
Walked(ports, p) == p \in DOMAIN ports /\ ports[p].interfaces /\ Number[p] # 0

EntryOf(rows, p, fam, version) ==
    <<<<version, Number[p]>>, IpCounters(rows[FirstOf[p]], fam)>>

(* What a port adds.                                                       *)
LEMMA IpRowsAre ==
    ASSUME NEW rows, NEW ports, PortsFit(rows, ports), NEW acc \in IpResults, NEW p,
           Number[p] \in Nat
    PROVE  LET b == IpStatsRows(rows, ports, acc, p)
               Inet(fam) == portTable_inet(ports, p, fam)
               one == IF Inet("v4") = "yes" THEN Append(acc.rows, EntryOf(rows, p, "v4", 1))
                      ELSE acc.rows
           IN  /\ b \in IpResults
               /\ b.fault => acc.fault \/ Incomplete(ports)
               /\ ~Walked(ports, p) => b = acc
               /\ Walked(ports, p) /\ ~b.fault =>
                     /\ ~acc.fault /\ Inet("v4") # "fault" /\ Inet("v6") # "fault"
                     /\ EntryOf(rows, p, "v4", 1) \in IpEntries
                     /\ EntryOf(rows, p, "v6", 2) \in IpEntries
                     /\ b.rows = IF Inet("v6") = "yes" THEN Append(one, EntryOf(rows, p, "v6", 2))
                                 ELSE one
<1>1. CASE ~Walked(ports, p)
  <2>1. IpStatsRows(rows, ports, acc, p) = acc
      BY <1>1 DEF IpStatsRows, Walked, PortsFit
  <2> QED
      BY <1>1, <2>1
<1>2. CASE Walked(ports, p)
  <2> DEFINE a == IpStatsRow(rows, ports, acc, p, "v4", 1)
             b == IpStatsRow(rows, ports, a, p, "v6", 2)
  <2>1. SchemaRows(rows) /\ FirstOf[p] \in DOMAIN rows
      BY <1>2 DEF PortsFit, Walked
  <2>2. /\ a \in IpResults /\ EntryOf(rows, p, "v4", 1) \in IpEntries
        /\ a.fault <=> acc.fault \/ portTable_inet(ports, p, "v4") = "fault"
        /\ a.rows = IF acc.fault \/ portTable_inet(ports, p, "v4") # "yes" THEN acc.rows
                    ELSE Append(acc.rows, EntryOf(rows, p, "v4", 1))
      BY <2>1, IpRowIs DEF EntryOf
  <2> HIDE DEF a
  <2>2a. 2 \in {1, 2} /\ a \in IpResults
      BY <2>2
  <2>3. /\ b \in IpResults /\ EntryOf(rows, p, "v6", 2) \in IpEntries
        /\ b.fault <=> a.fault \/ portTable_inet(ports, p, "v6") = "fault"
        /\ b.rows = IF a.fault \/ portTable_inet(ports, p, "v6") # "yes" THEN a.rows
                    ELSE Append(a.rows, EntryOf(rows, p, "v6", 2))
      BY <2>1, <2>2a, IpRowIs DEF EntryOf
  <2>4. IpStatsRows(rows, ports, acc, p) = b
      BY <1>2 DEF IpStatsRows, Walked, a
  <2>5. /\ portTable_inet(ports, p, "v4") = "fault" => Incomplete(ports)
        /\ portTable_inet(ports, p, "v6") = "fault" => Incomplete(ports)
      BY <1>2, InetIs DEF Incomplete, Walked
  <2> HIDE DEF b
  <2> QED
      BY <1>2, <2>2, <2>3, <2>4, <2>5
<1> QED
    BY <1>1, <1>2

(* What a port adds to the sums.                                           *)
LEMMA AddType ==
    ASSUME NEW a \in Counters, NEW b \in Counters
    PROVE  AddCounters(a, b) \in Counters
    BY DEF AddCounters, Counters

(* A port adds the counters of one family, or none.                        *)
LEMMA SystemSumIs ==
    ASSUME NEW rows, NEW ports, PortsFit(rows, ports), NEW acc \in Sums, NEW p
    PROVE  LET b == SystemSum(rows, ports, acc, p)
               Inet(fam) == portTable_inet(ports, p, fam)
               of == IpCounters(rows[FirstOf[p]], IF Inet("v4") = "no" THEN "v6" ELSE "v4")
           IN  /\ b \in Sums
               /\ b.fault => acc.fault \/ Incomplete(ports)
               /\ acc.fault => b.fault
               /\ p \notin DOMAIN ports \/ (Inet("v4") = "no" /\ Inet("v6") = "no") => b = acc
               /\ p \in DOMAIN ports /\ Inet("v4") = "yes" /\ ~b.fault =>
                     /\ ports[p].interfaces
                     /\ b.sum.v4 = AddCounters(acc.sum.v4, of) /\ b.sum.v6 = acc.sum.v6
               /\ p \in DOMAIN ports /\ Inet("v4") = "no" /\ Inet("v6") = "yes" /\ ~b.fault =>
                     /\ ports[p].interfaces
                     /\ b.sum.v6 = AddCounters(acc.sum.v6, of) /\ b.sum.v4 = acc.sum.v4
<1> DEFINE b == SystemSum(rows, ports, acc, p)
           Inet(fam) == portTable_inet(ports, p, fam)
           fam == IF Inet("v4") = "no" THEN "v6" ELSE "v4"
           of == IpCounters(rows[FirstOf[p]], fam)
<1>1. fam \in {"v4", "v6"} /\ Inet(fam) \in {"yes", "no", "fault"}
    BY InetIs
<1>2. acc.fault \in BOOLEAN /\ acc.sum.v4 \in Counters /\ acc.sum.v6 \in Counters
    BY DEF Sums
<1>3. CASE acc.fault \/ p \notin DOMAIN ports \/ Inet(fam) = "no"
  <2>1. b = acc
      BY <1>3 DEF SystemSum
  <2> HIDE DEF b
  <2> QED
      BY <1>1, <1>3, <2>1 DEF b
<1>4. CASE /\ ~(acc.fault \/ p \notin DOMAIN ports \/ Inet(fam) = "no")
           /\ Inet(fam) = "fault" \/ ~ports[p].interfaces
  <2>1. b = [acc EXCEPT !.fault = TRUE]
      BY <1>4 DEF SystemSum
  <2>2. b \in Sums /\ b.fault = TRUE
      BY <2>1 DEF Sums
  <2>3. Incomplete(ports)
      BY <1>1, <1>4, InetIs DEF Incomplete
  <2> HIDE DEF b, fam
  <2> QED
      BY <1>4, <2>2, <2>3 DEF b, fam
<1>5. CASE /\ ~(acc.fault \/ p \notin DOMAIN ports \/ Inet(fam) = "no")
           /\ ~(Inet(fam) = "fault" \/ ~ports[p].interfaces)
  <2>1. b = [acc EXCEPT !.sum[fam] = AddCounters(@, of)]
      BY <1>5 DEF SystemSum
  <2>2. of \in Counters
      BY <1>5, CountersType DEF PortsFit, SchemaRows
  <2>3. AddCounters(acc.sum.v4, of) \in Counters /\ AddCounters(acc.sum.v6, of) \in Counters
      BY <1>2, <2>2, AddType
  <2> HIDE DEF of
  <2>4. CASE fam = "v4"
    <3>1. b.sum = [acc.sum EXCEPT !["v4"] = AddCounters(@, of)] /\ b.fault = acc.fault
        BY <2>1, <2>4 DEF Sums
    <3>2. b \in Sums
        BY <2>1, <2>3, <2>4 DEF Sums
    <3>3. b.sum.v4 = AddCounters(acc.sum.v4, of) /\ b.sum.v6 = acc.sum.v6
        BY <3>1 DEF Sums
    <3> HIDE DEF b
    <3> QED
        BY <1>5, <2>4, <3>1, <3>2, <3>3 DEF b, of
  <2>5. CASE fam = "v6"
    <3>1. b.sum = [acc.sum EXCEPT !["v6"] = AddCounters(@, of)] /\ b.fault = acc.fault
        BY <2>1, <2>5 DEF Sums
    <3>2. b \in Sums
        BY <2>1, <2>3, <2>5 DEF Sums
    <3>3. b.sum.v6 = AddCounters(acc.sum.v6, of) /\ b.sum.v4 = acc.sum.v4
        BY <3>1 DEF Sums
    <3> HIDE DEF b
    <3> QED
        BY <1>5, <2>5, <3>1, <3>2, <3>3 DEF b, of
  <2> QED
      BY <1>1, <2>4, <2>5
<1> QED
    BY <1>3, <1>4, <1>5

-----------------------------------------------------------------------------
(* Sums over the rows of a container.                                      *)

Keys == {1, 2} \X Nat
V4(C) == {k \in DOMAIN C : k[1] = 1}
V6(C) == {k \in DOMAIN C : k[1] = 2 /\ <<1, k[2]>> \notin V4(C)}
TotalOf(C, ks, c) == SumFunction([k \in ks |-> C[k][c]])

\* The totals of both families are the sums over a finite container.
Match(C, sum) ==
    /\ C \in Tables(Keys, Counters) /\ IsFiniteSet(DOMAIN C)
    /\ \A c \in DOMAIN NoCounters : /\ sum.v4[c] = TotalOf(C, V4(C), c)
                                    /\ sum.v6[c] = TotalOf(C, V6(C), c)

(* Sums are those the theorems of Loops are about.                         *)
LEMMA SumIsLoops ==
    ASSUME NEW h
    PROVE  SumFunction(h) = IfLoop!SumFunction(h)
    BY DEF SumFunction, SumFunctionOnSet, FoldFunctionOnSet, MapThenFoldSet,
           IfLoop!SumFunction, IfLoop!SumFunctionOnSet, IfLoop!FoldFunctionOnSet,
           IfLoop!MapThenFoldSet

(* So are finite sets.                                                     *)
LEMMA FiniteIsLoops ==
    ASSUME NEW S, IsFiniteSet(S)
    PROVE  IfLoop!IsFiniteSet(S)
    BY DEF IsFiniteSet, IfLoop!IsFiniteSet

(* A new row adds its counter to a sum over it.                            *)
LEMMA TotalGrows ==
    ASSUME NEW C, C \in Tables(Keys, Counters), IsFiniteSet(DOMAIN C),
           NEW e \in Keys, e \notin DOMAIN C, NEW v \in Counters,
           NEW ks, ks \subseteq DOMAIN C, NEW c \in DOMAIN NoCounters
    PROVE  TotalOf(CONTAINER_INSERT(C, <<e, v>>), ks \cup {e}, c) = TotalOf(C, ks, c) + v[c]
<1> DEFINE D == CONTAINER_INSERT(C, <<e, v>>)
           h == [k \in ks \cup {e} |-> D[k][c]]
           l == [k \in ks |-> C[k][c]]
<1>1. D[e] = v /\ \A k \in ks : D[k] = C[k]
    BY DEF CONTAINER_INSERT
<1>2. \A k \in ks : C[k] \in Counters
    BY DEF Tables
<1> HIDE DEF D
<1>3. \A k \in ks : C[k][c] \in Nat
    BY <1>2 DEF Counters
<1>4. v[c] \in Nat
    BY DEF Counters
<1>5. /\ h \in [ks \cup {e} -> Nat] /\ l \in [ks -> Nat]
      /\ \A k \in ks : l[k] = h[k]
    BY <1>1, <1>3, <1>4
<1>6. IfLoop!IsFiniteSet(ks) /\ e \notin ks
    BY IfLoop!FS_Subset, FiniteIsLoops
<1>7. h[e] = v[c]
    BY <1>1
<1> HIDE DEF h, l
<1>8. IfLoop!SumFunction(h) = IfLoop!SumFunction(l) + h[e]
    BY <1>5, <1>6, IfLoop!SumOfMore
<1>9. [k \in ks |-> D[k][c]] = l
    BY <1>1 DEF l
<1>10. SumFunction(h) = SumFunction(l) + v[c]
    BY <1>7, <1>8, SumIsLoops
<1> QED
    BY <1>9, <1>10 DEF TotalOf, D, h, l

(* A new row leaves a sum over other rows.                                 *)
LEMMA TotalStays ==
    ASSUME NEW C, NEW e, e \notin DOMAIN C, NEW v, NEW ks, ks \subseteq DOMAIN C, NEW c
    PROVE  TotalOf(CONTAINER_INSERT(C, <<e, v>>), ks, c) = TotalOf(C, ks, c)
<1>1. \A k \in ks : CONTAINER_INSERT(C, <<e, v>>)[k] = C[k]
    BY DEF CONTAINER_INSERT
<1>2. [k \in ks |-> CONTAINER_INSERT(C, <<e, v>>)[k][c]] = [k \in ks |-> C[k][c]]
    BY <1>1
<1> QED
    BY <1>2 DEF TotalOf

(* A new row and the rows before.                                          *)
LEMMA InsertGrows ==
    ASSUME NEW C, C \in Tables(Keys, Counters), IsFiniteSet(DOMAIN C),
           NEW e \in Keys, e \notin DOMAIN C, NEW v \in Counters
    PROVE  LET D == CONTAINER_INSERT(C, <<e, v>>)
           IN  /\ D \in Tables(Keys, Counters) /\ IsFiniteSet(DOMAIN D)
               /\ DOMAIN D = DOMAIN C \cup {e}
               /\ D[e] = v
               /\ \A k \in DOMAIN C : D[k] = C[k]
<1>1. CONTAINER_INSERT(C, <<e, v>>) \in Tables(Keys, Counters)
    BY InsertType
<1>2. DOMAIN CONTAINER_INSERT(C, <<e, v>>) = DOMAIN C \cup {e}
    BY DEF CONTAINER_INSERT
<1>3. IfLoop!IsFiniteSet(DOMAIN C \cup {e})
    BY IfLoop!FS_AddElement, FiniteIsLoops
<1>4. IsFiniteSet(DOMAIN C \cup {e})
    BY <1>3 DEF IsFiniteSet, IfLoop!IsFiniteSet
<1>5. CONTAINER_INSERT(C, <<e, v>>)[e] = v
    BY DEF CONTAINER_INSERT
<1>6. \A k \in DOMAIN C : CONTAINER_INSERT(C, <<e, v>>)[k] = C[k]
    BY DEF CONTAINER_INSERT
<1> QED
    BY <1>1, <1>2, <1>4, <1>5, <1>6

(* No rows have the sums 0.                                                *)
LEMMA MatchNothing ==
    Match(Empty, [v4 |-> NoCounters, v6 |-> NoCounters])
<1>1. Empty \in Tables(Keys, Counters)
    BY EmptyIsTable
<1>2. DOMAIN Empty = {}
    BY DEF Empty
<1>3. IsFiniteSet(DOMAIN Empty)
  <2>1. IfLoop!IsFiniteSet({})
      BY IfLoop!FS_EmptySet
  <2> QED
      BY <1>2, <2>1 DEF IsFiniteSet, IfLoop!IsFiniteSet
<1>4. V4(Empty) = {} /\ V6(Empty) = {}
    BY <1>2 DEF V4, V6
<1>5. ASSUME NEW c PROVE TotalOf(Empty, {}, c) = 0
  <2> DEFINE h == [k \in {} |-> Empty[k][c]]
  <2>1. h = [k \in {} |-> h[k]]
      OBVIOUS
  <2> HIDE DEF h
  <2>2. IfLoop!SumFunction(h) = 0
      BY <2>1, IfLoop!SumOfNone
  <2> QED
      BY <2>2, SumIsLoops DEF TotalOf, h
<1>6. \A c \in DOMAIN NoCounters : NoCounters[c] = 0
    BY DEF NoCounters
<1> QED
    BY <1>1, <1>3, <1>4, <1>5, <1>6 DEF Match

\* A new row of IPv4 with a number no row has yet counts for IPv4.
LEMMA MatchOne ==
    ASSUME NEW C, NEW sum, Match(C, sum), NEW n \in Nat, <<1, n>> \notin DOMAIN C,
           <<2, n>> \notin DOMAIN C, NEW v \in Counters, sum.v4 \in Counters,
           NEW b, b.v4 = AddCounters(sum.v4, v), b.v6 = sum.v6
    PROVE  Match(CONTAINER_INSERT(C, <<<<1, n>>, v>>), b)
<1> DEFINE e == <<1, n>>
           D == CONTAINER_INSERT(C, <<e, v>>)
<1>1. e \in Keys /\ e[1] = 1 /\ e[2] = n
    BY DEF Keys
<1>2. C \in Tables(Keys, Counters) /\ IsFiniteSet(DOMAIN C)
    BY DEF Match
<1>2a. e \notin DOMAIN C /\ D = CONTAINER_INSERT(C, <<e, v>>)
    OBVIOUS
<1>3. D \in Tables(Keys, Counters) /\ IsFiniteSet(DOMAIN D) /\ DOMAIN D = DOMAIN C \cup {e}
  <2> HIDE DEF e
  <2> QED
    BY <1>1, <1>2, InsertGrows DEF e
<1>4. \A k \in DOMAIN C : k = <<k[1], k[2]>>
    BY <1>2 DEF Tables, Keys
<1> HIDE DEF D, e
<1>5. V4(D) = V4(C) \cup {e} /\ V4(C) \subseteq DOMAIN C
    BY <1>1, <1>3 DEF V4
<1>6. V6(D) = V6(C) /\ V6(C) \subseteq DOMAIN C
  <2>1. \A k \in DOMAIN C : k[1] = 2 => k[2] # n
      BY <1>4
  <2>2. \A k \in DOMAIN C : k[1] = 2 => <<1, k[2]>> # e
      BY <1>1, <2>1 DEF e
  <2> QED
      BY <1>1, <1>3, <1>5, <2>2 DEF V6
<1>7. ASSUME NEW c \in DOMAIN NoCounters
      PROVE  b.v4[c] = TotalOf(D, V4(D), c) /\ b.v6[c] = TotalOf(D, V6(D), c)
  <2>1. TotalOf(D, V4(C) \cup {e}, c) = TotalOf(C, V4(C), c) + v[c]
      BY <1>1, <1>2, <1>2a, <1>5, TotalGrows
  <2>2. TotalOf(D, V6(C), c) = TotalOf(C, V6(C), c)
      BY <1>1, <1>2, <1>2a, <1>6, TotalStays
  <2>3. b.v4[c] = sum.v4[c] + v[c]
      BY DEF AddCounters, Counters
  <2>4. sum.v4[c] = TotalOf(C, V4(C), c) /\ sum.v6[c] = TotalOf(C, V6(C), c)
      BY DEF Match
  <2> QED
      BY <1>5, <1>6, <2>1, <2>2, <2>3, <2>4
<1>8. Match(D, b)
    BY <1>3, <1>7 DEF Match
<1> QED
    BY <1>8 DEF D, e

\* A new row of IPv6 counts for nothing beside one of IPv4 with its number.
LEMMA MatchHidden ==
    ASSUME NEW C, NEW sum, Match(C, sum), NEW n \in Nat, <<1, n>> \in DOMAIN C,
           <<2, n>> \notin DOMAIN C, NEW v \in Counters
    PROVE  Match(CONTAINER_INSERT(C, <<<<2, n>>, v>>), sum)
<1> DEFINE e == <<2, n>>
           D == CONTAINER_INSERT(C, <<e, v>>)
<1>1. e \in Keys /\ e[1] = 2 /\ e[2] = n
    BY DEF Keys
<1>2. C \in Tables(Keys, Counters) /\ IsFiniteSet(DOMAIN C)
    BY DEF Match
<1>2a. e \notin DOMAIN C /\ D = CONTAINER_INSERT(C, <<e, v>>)
    OBVIOUS
<1>3. D \in Tables(Keys, Counters) /\ IsFiniteSet(DOMAIN D) /\ DOMAIN D = DOMAIN C \cup {e}
  <2> HIDE DEF e
  <2> QED
    BY <1>1, <1>2, InsertGrows DEF e
<1> HIDE DEF D
<1>5. V4(D) = V4(C) /\ V4(C) \subseteq DOMAIN C /\ <<1, n>> \in V4(C)
    BY <1>1, <1>3 DEF V4
<1>6. V6(D) = V6(C) /\ V6(C) \subseteq DOMAIN C
    BY <1>1, <1>3, <1>5 DEF V6
<1> HIDE DEF e
<1>7. ASSUME NEW c \in DOMAIN NoCounters
      PROVE  sum.v4[c] = TotalOf(D, V4(D), c) /\ sum.v6[c] = TotalOf(D, V6(D), c)
  <2>1. TotalOf(D, V4(C), c) = TotalOf(C, V4(C), c)
      BY <1>1, <1>2, <1>2a, <1>5, TotalStays
  <2>2. TotalOf(D, V6(C), c) = TotalOf(C, V6(C), c)
      BY <1>1, <1>2, <1>2a, <1>6, TotalStays
  <2>4. sum.v4[c] = TotalOf(C, V4(C), c) /\ sum.v6[c] = TotalOf(C, V6(C), c)
      BY DEF Match
  <2> QED
      BY <1>5, <1>6, <2>1, <2>2, <2>4
<1>8. Match(D, sum)
    BY <1>3, <1>7 DEF Match
<1> QED
    BY <1>8 DEF D, e

\* A new row of IPv6 counts for IPv6 otherwise.
LEMMA MatchTwo ==
    ASSUME NEW C, NEW sum, Match(C, sum), NEW n \in Nat, <<1, n>> \notin DOMAIN C,
           <<2, n>> \notin DOMAIN C, NEW v \in Counters, sum.v6 \in Counters,
           NEW b, b.v6 = AddCounters(sum.v6, v), b.v4 = sum.v4
    PROVE  Match(CONTAINER_INSERT(C, <<<<2, n>>, v>>), b)
<1> DEFINE e == <<2, n>>
           D == CONTAINER_INSERT(C, <<e, v>>)
<1>1. e \in Keys /\ e[1] = 2 /\ e[2] = n
    BY DEF Keys
<1>2. C \in Tables(Keys, Counters) /\ IsFiniteSet(DOMAIN C)
    BY DEF Match
<1>2a. e \notin DOMAIN C /\ D = CONTAINER_INSERT(C, <<e, v>>)
    OBVIOUS
<1>3. D \in Tables(Keys, Counters) /\ IsFiniteSet(DOMAIN D) /\ DOMAIN D = DOMAIN C \cup {e}
  <2> HIDE DEF e
  <2> QED
    BY <1>1, <1>2, InsertGrows DEF e
<1> HIDE DEF D
<1>5. V4(D) = V4(C) /\ V4(C) \subseteq DOMAIN C /\ <<1, n>> \notin V4(C)
    BY <1>1, <1>3 DEF V4
<1>6. V6(D) = V6(C) \cup {e} /\ V6(C) \subseteq DOMAIN C
    BY <1>1, <1>3, <1>5 DEF V6
<1> HIDE DEF e
<1>7. ASSUME NEW c \in DOMAIN NoCounters
      PROVE  b.v4[c] = TotalOf(D, V4(D), c) /\ b.v6[c] = TotalOf(D, V6(D), c)
  <2>1. TotalOf(D, V6(C) \cup {e}, c) = TotalOf(C, V6(C), c) + v[c]
      BY <1>1, <1>2, <1>2a, <1>6, TotalGrows
  <2>2. TotalOf(D, V4(C), c) = TotalOf(C, V4(C), c)
      BY <1>1, <1>2, <1>2a, <1>5, TotalStays
  <2>3. b.v6[c] = sum.v6[c] + v[c]
      BY DEF AddCounters, Counters
  <2>4. sum.v4[c] = TotalOf(C, V4(C), c) /\ sum.v6[c] = TotalOf(C, V6(C), c)
      BY DEF Match
  <2> QED
      BY <1>5, <1>6, <2>1, <2>2, <2>3, <2>4
<1>8. Match(D, b)
    BY <1>3, <1>7 DEF Match
<1> QED
    BY <1>8 DEF D, e

(* Rows are inserted one after the other.                                  *)
LEMMA InsertedMore ==
    ASSUME NEW entries \in Seq(IpEntries), NEW e \in IpEntries
    PROVE  Inserted(Empty, Append(entries, e)) = CONTAINER_INSERT(Inserted(Empty, entries), e)
<1> DEFINE K == {1, 2} \X Nat
<1>1. entries \in Seq(K \X Counters) /\ e \in K \X Counters
    BY DEF IpEntries
<1> HIDE DEF K
<1> QED
    BY <1>1, InsertedAppend

(* The rows of D are those of C and those of p.                            *)
OnlyMore(ports, p, C, D) ==
    \A e \in DOMAIN D : e \in DOMAIN C \/ (p \in DOMAIN ports /\ e[2] = Number[p])

(* p has no rows yet.                                                      *)
NotYet(ports, p, C) ==
    p \in DOMAIN ports => <<1, Number[p]>> \notin DOMAIN C /\ <<2, Number[p]>> \notin DOMAIN C

(* A port keeps the sums those over the rows.                              *)
LEMMA PortMatches ==
    ASSUME NEW rows, NEW ports, PortsFit(rows, ports), NEW acc \in IpResults, NEW sums \in Sums,
           NEW p, Number[p] \in Nat,
           NEW C, C = Inserted(Empty, acc.rows), Match(C, sums.sum),
           NotYet(ports, p, C),
           NEW a, a = IpStatsRows(rows, ports, acc, p), ~a.fault,
           NEW b, b = SystemSum(rows, ports, sums, p), ~b.fault
    PROVE  Match(Inserted(Empty, a.rows), b.sum) /\ OnlyMore(ports, p, C, Inserted(Empty, a.rows))
<1> DEFINE n == Number[p]
           e1 == EntryOf(rows, p, "v4", 1)
           e2 == EntryOf(rows, p, "v6", 2)
           Inet(fam) == portTable_inet(ports, p, fam)
           one == IF Inet("v4") = "yes" THEN Append(acc.rows, e1) ELSE acc.rows
           c1 == IpCounters(rows[FirstOf[p]], "v4")
           c2 == IpCounters(rows[FirstOf[p]], "v6")
           D == CONTAINER_INSERT(C, e1)
<1>1. CASE ~Walked(ports, p)
  <2>1. a = acc
      BY <1>1, IpRowsAre
  <2>2. b = sums
    <3>1. p \notin DOMAIN ports \/ (Inet("v4") = "no" /\ Inet("v6") = "no")
      <4>1. Inet("v4") \in {"yes", "no", "fault"} /\ Inet("v6") \in {"yes", "no", "fault"}
          BY InetIs
      <4>2. CASE p \in DOMAIN ports /\ Number[p] = 0
          BY <4>1, <4>2, InetIs
      <4>3. CASE p \in DOMAIN ports /\ ~ports[p].interfaces
        <5>1. Inet("v4") # "yes" /\ (Inet("v4") = "no" => Inet("v6") # "yes")
            BY <4>3, SystemSumIs
        <5>2. Inet("v4") # "fault" /\ (Inet("v4") = "no" => Inet("v6") # "fault")
            BY <4>3 DEF SystemSum
        <5> QED
            BY <4>1, <5>1, <5>2
      <4> QED
          BY <1>1, <4>2, <4>3 DEF Walked
    <3> HIDE DEF Inet
    <3> QED
        BY <3>1, SystemSumIs DEF Inet
  <2> QED
      BY <2>1, <2>2 DEF OnlyMore
<1>2. CASE Walked(ports, p)
  <2>0. p \in DOMAIN ports /\ ports[p].interfaces /\ FirstOf[p] \in DOMAIN rows
      BY <1>2 DEF Walked, PortsFit
  <2>1. /\ Inet("v4") # "fault" /\ Inet("v6") # "fault"
        /\ e1 \in IpEntries /\ e2 \in IpEntries
        /\ a.rows = IF Inet("v6") = "yes" THEN Append(one, e2) ELSE one
      BY <1>2, IpRowsAre
  <2>2. Inet("v4") \in {"yes", "no"} /\ Inet("v6") \in {"yes", "no"}
      BY <2>1, InetIs
  <2>3. c1 \in Counters /\ c2 \in Counters /\ e1 = <<<<1, n>>, c1>> /\ e2 = <<<<2, n>>, c2>>
    <3>1. Schema(rows[FirstOf[p]])
        BY <2>0 DEF PortsFit, SchemaRows
    <3> QED
        BY <3>1, CountersType DEF EntryOf
  <2>4. sums.sum.v4 \in Counters /\ sums.sum.v6 \in Counters /\ acc.rows \in Seq(IpEntries)
      BY DEF Sums, IpResults
  <2>5. /\ Inet("v4") = "yes" => b.sum.v4 = AddCounters(sums.sum.v4, c1) /\ b.sum.v6 = sums.sum.v6
        /\ Inet("v4") = "no" /\ Inet("v6") = "yes" =>
              b.sum.v6 = AddCounters(sums.sum.v6, c2) /\ b.sum.v4 = sums.sum.v4
        /\ Inet("v4") = "no" /\ Inet("v6") = "no" => b = sums
      BY <2>0, SystemSumIs
  <2> HIDE DEF Inet, e1, e2, c1, c2
  <2>6. CASE Inet("v4") = "no" /\ Inet("v6") = "no"
      BY <2>1, <2>5, <2>6 DEF OnlyMore
  <2>7. CASE Inet("v4") = "no" /\ Inet("v6") = "yes"
    <3>1. Inserted(Empty, a.rows) = CONTAINER_INSERT(C, e2)
        BY <2>1, <2>4, <2>7, InsertedMore
    <3>2. Match(CONTAINER_INSERT(C, <<<<2, n>>, c2>>), b.sum)
      <4>1. <<1, n>> \notin DOMAIN C /\ <<2, n>> \notin DOMAIN C
          BY <2>0 DEF NotYet
      <4> QED
          BY <2>3, <2>4, <2>5, <2>7, <4>1, MatchTwo
    <3>3. DOMAIN CONTAINER_INSERT(C, <<<<2, n>>, c2>>) = DOMAIN C \cup {<<2, n>>}
        BY DEF CONTAINER_INSERT
    <3> QED
        BY <2>0, <2>3, <3>1, <3>2, <3>3 DEF OnlyMore
  <2>8. CASE Inet("v4") = "yes"
    <3>1. Inserted(Empty, one) = D /\ one \in Seq(IpEntries)
        BY <2>1, <2>4, <2>8, InsertedMore
    <3>2. Match(D, b.sum)
      <4>1. Match(CONTAINER_INSERT(C, <<<<1, n>>, c1>>), b.sum)
          BY <2>0, <2>3, <2>4, <2>5, <2>8, MatchOne DEF NotYet
      <4> QED
          BY <2>3, <4>1
    <3>3. DOMAIN D = DOMAIN C \cup {<<1, n>>}
        BY <2>3 DEF CONTAINER_INSERT
    <3>4. CASE Inet("v6") = "no"
        BY <2>0, <2>1, <3>1, <3>2, <3>3, <3>4 DEF OnlyMore
    <3>5. CASE Inet("v6") = "yes"
      <4> HIDE DEF one, D
      <4>1. Inserted(Empty, a.rows) = CONTAINER_INSERT(D, e2)
          BY <2>1, <3>1, <3>5, InsertedMore
      <4>2. <<2, n>> \notin DOMAIN D /\ <<1, n>> \in DOMAIN D
          BY <2>0, <3>3 DEF NotYet
      <4>3. Match(CONTAINER_INSERT(D, <<<<2, n>>, c2>>), b.sum)
          BY <2>3, <3>2, <4>2, MatchHidden
      <4>4. DOMAIN CONTAINER_INSERT(D, <<<<2, n>>, c2>>) = DOMAIN D \cup {<<2, n>>}
          BY DEF CONTAINER_INSERT
      <4> QED
          BY <2>0, <2>3, <3>3, <4>1, <4>3, <4>4 DEF OnlyMore
    <3> QED
        BY <2>2, <3>4, <3>5
  <2> QED
      BY <2>2, <2>6, <2>7, <2>8
<1> QED
    BY <1>1, <1>2

-----------------------------------------------------------------------------
(* Both loops over the ports side by side.                                 *)

IpStep(db, acc, p) == IpStatsRows(db[1], db[2], acc, p)
IpLoop == INSTANCE Loops WITH Step <- IpStep

SumStep(db, acc, p) == SystemSum(db[1], db[2], acc, p)
SumLoop == INSTANCE Loops WITH Step <- SumStep

NoSums == [sum |-> [v4 |-> NoCounters, v6 |-> NoCounters], fault |-> FALSE]

(* What the loops start with.                                              *)
LEMMA StartTypes ==
    NoRows \in IpResults /\ NoSums \in Sums
<1>1. <<>> \in Seq(IpEntries)
    OBVIOUS
<1>2. NoCounters \in Counters
    BY DEF NoCounters, Counters
<1> QED
    BY <1>1, <1>2 DEF NoRows, NoSums, IpResults, Sums

(* The results of ipIfStatsTable_container_load.                           *)
LEMMA IpStatsLoop ==
    ASSUME NEW rows, NEW ports, PortsFit(rows, ports), NEW walk \in Seq(Names), Numbered
    PROVE  \E f : /\ \A k \in 0..Len(walk) : f[k] \in IpResults
                  /\ f[0] = NoRows
                  /\ \A k \in 1..Len(walk) : f[k] = IpStatsRows(rows, ports, f[k - 1], walk[k])
                  /\ ipIfStatsTable_container_load(rows, ports, walk) = f[Len(walk)]
<1> DEFINE db == <<rows, ports>>
<1>1. \A acc \in IpResults, p \in Names : IpStep(db, acc, p) \in IpResults
    BY IpRowsAre DEF IpStep, Numbered
<1>2. ipIfStatsTable_container_load(rows, ports, walk) = IpLoop!Result(db, NoRows, walk)
    BY DEF ipIfStatsTable_container_load, IpStep, IpLoop!Result, FoldLeft, IpLoop!FoldLeft,
           MapThenFoldSet, IpLoop!MapThenFoldSet, Max, IpLoop!Max
<1>3. \A acc, p : IpStep(db, acc, p) = IpStatsRows(rows, ports, acc, p)
    BY DEF IpStep
<1>4. NoRows \in IpResults
    BY StartTypes
<1> HIDE DEF db
<1>5. PICK f : /\ IpLoop!Runs(f, db, NoRows, walk)
               /\ IpLoop!Result(db, NoRows, walk) = f[Len(walk)]
    BY <1>1, <1>4, IpLoop!FoldRuns
<1>6. \A k \in 0..Len(walk) : f[k] \in IpResults
    BY <1>1, <1>4, <1>5, IpLoop!RunStaysIn
<1> QED
    BY <1>2, <1>3, <1>5, <1>6 DEF IpLoop!Runs

(* The results of ipSystemStatsTable_container_load.                       *)
LEMMA SystemLoop ==
    ASSUME NEW rows, NEW ports, PortsFit(rows, ports), NEW walk \in Seq(Names)
    PROVE  \E f : /\ \A k \in 0..Len(walk) : f[k] \in Sums
                  /\ f[0] = NoSums
                  /\ \A k \in 1..Len(walk) : f[k] = SystemSum(rows, ports, f[k - 1], walk[k])
                  /\ SystemSums(rows, ports, walk) = f[Len(walk)]
<1> DEFINE db == <<rows, ports>>
<1>1. \A acc \in Sums, p \in Names : SumStep(db, acc, p) \in Sums
    BY SystemSumIs DEF SumStep
<1>2. SystemSums(rows, ports, walk) = SumLoop!Result(db, NoSums, walk)
    BY DEF SystemSums, NoSums, SumStep, SumLoop!Result, FoldLeft, SumLoop!FoldLeft,
           MapThenFoldSet, SumLoop!MapThenFoldSet, Max, SumLoop!Max
<1>3. \A acc, p : SumStep(db, acc, p) = SystemSum(rows, ports, acc, p)
    BY DEF SumStep
<1>4. NoSums \in Sums
    BY StartTypes
<1> HIDE DEF db
<1>5. PICK f : /\ SumLoop!Runs(f, db, NoSums, walk)
               /\ SumLoop!Result(db, NoSums, walk) = f[Len(walk)]
    BY <1>1, <1>4, SumLoop!FoldRuns
<1>6. \A k \in 0..Len(walk) : f[k] \in Sums
    BY <1>1, <1>4, <1>5, SumLoop!RunStaysIn
<1> QED
    BY <1>2, <1>3, <1>5, <1>6 DEF SumLoop!Runs

Distinct(ports) == \A p, q \in DOMAIN ports : Number[p] = Number[q] => p = q

(* The loads of the two tables are cut short by incomplete ports only, and *)
(* otherwise the sums are those over the rows.                             *)
LEMMA PortTablesMatch ==
    ASSUME NEW rows, NEW ports, PortsFit(rows, ports), NEW walk \in Seq(Names), Numbered,
           \A j, k \in 1..Len(walk) : walk[j] = walk[k] => j = k
    PROVE  LET a == ipIfStatsTable_container_load(rows, ports, walk)
               b == SystemSums(rows, ports, walk)
           IN  /\ a \in IpResults /\ b \in Sums
               /\ a.fault \/ b.fault => Incomplete(ports)
               /\ Distinct(ports) /\ ~a.fault /\ ~b.fault => Match(Inserted(Empty, a.rows), b.sum)
<1> DEFINE n == Len(walk)
           a == ipIfStatsTable_container_load(rows, ports, walk)
           b == SystemSums(rows, ports, walk)
<1>1. n \in Nat /\ \A k \in 1..n : walk[k] \in Names /\ Number[walk[k]] \in Nat
    BY DEF Numbered
<1>2. PICK f : /\ \A k \in 0..n : f[k] \in IpResults
               /\ f[0] = NoRows
               /\ \A k \in 1..n : f[k] = IpStatsRows(rows, ports, f[k - 1], walk[k])
               /\ a = f[n]
    BY IpStatsLoop
<1>3. PICK g : /\ \A k \in 0..n : g[k] \in Sums
               /\ g[0] = NoSums
               /\ \A k \in 1..n : g[k] = SystemSum(rows, ports, g[k - 1], walk[k])
               /\ b = g[n]
    BY SystemLoop
<1> HIDE DEF a, b
<1> DEFINE S == {k \in 0..n : f[k].fault \/ g[k].fault => Incomplete(ports)}
           C(k) == Inserted(Empty, f[k].rows)
           Seen(k) == \A e \in DOMAIN C(k) :
                         \E j \in 1..k : walk[j] \in DOMAIN ports /\ e[2] = Number[walk[j]]
           M == {k \in 0..n : ~f[k].fault /\ ~g[k].fault => Match(C(k), g[k].sum) /\ Seen(k)}
<1>4. 0 \in S
    BY <1>1, <1>2, <1>3 DEF NoRows, NoSums
<1>5. ASSUME NEW k \in 1..n, k - 1 \in S PROVE k \in S
  <2>1. k \in 0..n /\ k - 1 \in 0..n
      BY <1>1
  <2>2. f[k].fault => f[k - 1].fault \/ Incomplete(ports)
      BY <1>1, <1>2, <2>1, IpRowsAre
  <2>3. g[k].fault => g[k - 1].fault \/ Incomplete(ports)
      BY <1>1, <1>3, <2>1, SystemSumIs
  <2> QED
      BY <1>5, <2>1, <2>2, <2>3
<1>6. n \in 0..n /\ \A k \in 0..n : k \in S
  <2> HIDE DEF S
  <2>1. \A k \in 0..n : k \in S
      BY <1>1, <1>4, <1>5, IpLoop!InductionUpTo
  <2> QED
      BY <1>1, <2>1
<1>7. ASSUME Distinct(ports) PROVE \A k \in 0..n : k \in M
  <2>1. 0 \in M
    <3>1. C(0) = Empty /\ g[0].sum = [v4 |-> NoCounters, v6 |-> NoCounters]
        BY <1>2, <1>3, InsertedNone DEF NoRows, NoSums
    <3>2. DOMAIN Empty = {} /\ 0 \in 0..n
        BY <1>1 DEF Empty
    <3> HIDE DEF C
    <3> QED
        BY <3>1, <3>2, MatchNothing
  <2>2. ASSUME NEW k \in 1..n, k - 1 \in M PROVE k \in M
    <3> DEFINE p == walk[k]
    <3>1. k \in 0..n /\ k - 1 \in 0..n /\ Number[p] \in Nat /\ p \in Names
        BY <1>1
    <3>2. /\ f[k - 1] \in IpResults /\ f[k] = IpStatsRows(rows, ports, f[k - 1], p)
          /\ g[k - 1] \in Sums /\ g[k] = SystemSum(rows, ports, g[k - 1], p)
        BY <1>2, <1>3, <3>1
    <3>3. SUFFICES ASSUME ~f[k].fault, ~g[k].fault PROVE Match(C(k), g[k].sum) /\ Seen(k)
        BY <3>1
    <3>4. ~f[k - 1].fault
        BY <3>1, <3>2, <3>3, IpRowsAre
    <3>5. ~g[k - 1].fault
        BY <3>1, <3>2, <3>3, SystemSumIs
    <3>6. Match(C(k - 1), g[k - 1].sum) /\ Seen(k - 1)
        BY <2>2, <3>4, <3>5
    <3> DEFINE B == C(k - 1)
    <3>7. ASSUME p \in DOMAIN ports, NEW e \in DOMAIN B PROVE e[2] # Number[p]
      <4>1. PICK j \in 1..(k - 1) : walk[j] \in DOMAIN ports /\ e[2] = Number[walk[j]]
          BY <3>6, <3>7
      <4>2. j \in 1..n /\ j # k
          BY <1>1
      <4>3. walk[j] # p
          BY <4>2
      <4> QED
          BY <1>7, <3>7, <4>1, <4>3 DEF Distinct
    <3>8. p \in DOMAIN ports => <<1, Number[p]>> \notin DOMAIN B /\ <<2, Number[p]>> \notin DOMAIN B
      <4> HIDE DEF B
      <4>1. <<1, Number[p]>>[2] = Number[p] /\ <<2, Number[p]>>[2] = Number[p]
          OBVIOUS
      <4> QED
          BY <3>7, <4>1
    <3>9. /\ Match(C(k), g[k].sum)
          /\ \A e \in DOMAIN C(k) : e \in DOMAIN B \/ (p \in DOMAIN ports /\ e[2] = Number[p])
      <4>1. B = Inserted(Empty, f[k - 1].rows) /\ Match(B, g[k - 1].sum)
          BY <3>6
      <4> DEFINE x == f[k - 1]
                 y == g[k - 1]
                 v == f[k]
                 w == g[k]
      <4>2. /\ x \in IpResults /\ v = IpStatsRows(rows, ports, x, p) /\ ~v.fault
            /\ y \in Sums /\ w = SystemSum(rows, ports, y, p) /\ ~w.fault
            /\ B = Inserted(Empty, x.rows) /\ Match(B, y.sum)
          BY <3>2, <3>3, <4>1
      <4> HIDE DEF B, p, x, y, v, w
      <4>3. /\ Match(Inserted(Empty, v.rows), w.sum)
            /\ \A e \in DOMAIN Inserted(Empty, v.rows) :
                  e \in DOMAIN B \/ (p \in DOMAIN ports /\ e[2] = Number[p])
        <5>1. Number[p] \in Nat /\ NotYet(ports, p, B)
            BY <3>1, <3>8 DEF NotYet
        <5>2. /\ Match(Inserted(Empty, v.rows), w.sum)
              /\ OnlyMore(ports, p, B, Inserted(Empty, v.rows))
            BY <4>2, <5>1, PortMatches
        <5> QED
            BY <5>2, Zenon DEF OnlyMore
      <4> QED
          BY <4>3 DEF v, w
    <3>10. Seen(k)
      <4>1. k \in 1..k /\ \A j \in 1..(k - 1) : j \in 1..k
          BY <3>1
      <4> QED
          BY <3>6, <3>9, <4>1
    <3> QED
        BY <3>9, <3>10
  <2> HIDE DEF M
  <2> QED
      BY <1>1, <2>1, <2>2, IpLoop!InductionUpTo
<1>8. a \in IpResults /\ b \in Sums
    BY <1>2, <1>3, <1>6
<1>9. a.fault \/ b.fault => Incomplete(ports)
    BY <1>2, <1>3, <1>6
<1>10. Distinct(ports) /\ ~a.fault /\ ~b.fault => Match(Inserted(Empty, a.rows), b.sum)
    BY <1>2, <1>3, <1>6, <1>7
<1> QED
    BY <1>8, <1>9, <1>10 DEF a, b

-----------------------------------------------------------------------------
(* The inductive invariant: a table in exact holds what a load of the rows *)
(* there are now puts into an empty container.                             *)

RowsInv ==
    /\ intf \in [DOMAIN intf -> InterfaceRows] /\ DOMAIN intf \subseteq Interface
    /\ port \in [DOMAIN port -> PortRows] /\ DOMAIN port \subseteq Port
    /\ \A p \in DOMAIN port : port[p].interfaces => FirstOf[p] \in DOMAIN intf
    /\ order \in Seq(Names) /\ IsInjective(order) /\ Range(order) = Names
    /\ polled \subseteq Table
    /\ agent \in {"running", "dead"}

IsCache(c) ==
    /\ c = [valid |-> c.valid, expired |-> c.expired, rows |-> c.rows]
    /\ c.valid \in BOOLEAN /\ c.expired \in BOOLEAN
    /\ c.valid \/ c = NoCache

CacheInv ==
    /\ cache = [t \in Table |-> cache[t]]
    /\ \A t \in Table : IsCache(cache[t])
    /\ exact \subseteq {t \in Table : cache[t].valid}

Leftovers(t) == IF t = "ifTable" THEN Garbage ELSE {0}

Held(t, rows, ports, walk, g, container) ==
    /\ ~ContainerLoad(t, rows, ports, walk, g).fault
    /\ container = Inserted(Empty, ContainerLoad(t, rows, ports, walk, g).rows)

ExactInv == \A t \in exact : \E g \in Leftovers(t) : Held(t, intf, port, order, g, cache[t].rows)

SnmpInv == RowsInv /\ CacheInv /\ ExactInv

(* What the lemmas about the loads take for granted.                       *)
LEMMA RowsFit ==
    ASSUME RowsInv
    PROVE  /\ SchemaRows(intf) /\ DOMAIN intf \subseteq Names
           /\ PortsFit(intf, port) /\ Numbered
           /\ order \in Seq(Names) /\ Len(order) \in Nat
           /\ \A j, k \in 1..Len(order) : order[j] = order[k] => j = k
           /\ \A i \in Names : \E k \in 1..Len(order) : order[k] = i
           /\ Unset \notin {"up", "down", "testing"}
<1>1. SchemaRows(intf) /\ DOMAIN intf \subseteq Names /\ DOMAIN port \subseteq Names
    BY SnmpAssumption DEF RowsInv, SchemaRows, Names
<1>2. \A p \in DOMAIN port : port[p].interfaces \in BOOLEAN
    BY SnmpAssumption DEF RowsInv
<1>3. PortsFit(intf, port)
    BY <1>1, <1>2 DEF PortsFit, RowsInv
<1>4. Numbered
    BY SnmpAssumption DEF Numbered, Names
<1>5. order \in Seq(Names) /\ Len(order) \in Nat /\ DOMAIN order = 1..Len(order)
    BY DEF RowsInv
<1>6. \A j, k \in DOMAIN order : order[j] = order[k] => j = k
    BY DEF RowsInv, IsInjective
<1>7. \A i \in Names : \E k \in DOMAIN order : order[k] = i
    BY DEF RowsInv, Range
<1> QED
    BY <1>1, <1>3, <1>4, <1>5, <1>6, <1>7, SnmpAssumption

(* The rows ipSystemStatsTable_container_load inserts.                     *)
LEMMA SystemLoadIs ==
    ASSUME RowsInv
    PROVE  LET b == SystemSums(intf, port, order)
               load == ipSystemStatsTable_container_load(intf, port, order)
               e1 == <<1, b.sum.v4>>
               e2 == <<2, b.sum.v6>>
           IN  /\ load.fault = b.fault
               /\ load.rows = IF b.fault THEN <<>> ELSE <<e1, e2>>
               /\ load.rows \in Seq({e1, e2})
<1> DEFINE b == SystemSums(intf, port, order)
           e1 == <<1, b.sum.v4>>
           e2 == <<2, b.sum.v6>>
<1>1. ipSystemStatsTable_container_load(intf, port, order)
        = [rows |-> IF b.fault THEN <<>> ELSE <<e1, e2>>, fault |-> b.fault]
    BY DEF ipSystemStatsTable_container_load
<1> HIDE DEF e1, e2, b
<1>2. <<>> \in Seq({e1, e2}) /\ <<e1, e2>> \in Seq({e1, e2})
    OBVIOUS
<1> DEFINE load == ipSystemStatsTable_container_load(intf, port, order)
<1>3. /\ load.fault = b.fault
      /\ load.rows = IF b.fault THEN <<>> ELSE <<e1, e2>>
    BY <1>1
<1> HIDE DEF load
<1>4. load.rows \in Seq({e1, e2})
    BY <1>2, <1>3
<1> QED
    BY <1>3, <1>4 DEF b, e1, e2, load

(* What a load inserts is a sequence.                                      *)
LEMMA LoadedRows ==
    ASSUME RowsInv, NEW t \in Table, NEW g
    PROVE  \E X : ContainerLoad(t, intf, port, order, g).rows \in Seq(X)
<1> USE RowsFit
<1>1. CASE t = "ifTable"
    BY <1>1, IfTableShows DEF ContainerLoad
<1>2. CASE t = "ifXTable"
    BY <1>2, IfXTableShows DEF ContainerLoad
<1>3. CASE t = "ipIfStatsTable"
  <2>1. ipIfStatsTable_container_load(intf, port, order) \in IpResults
      BY PortTablesMatch
  <2> QED
      BY <1>3, <2>1 DEF ContainerLoad, IpResults
<1>4. CASE t = "ipSystemStatsTable"
    BY <1>4, SystemLoadIs DEF ContainerLoad
<1> QED
    BY <1>1, <1>2, <1>3, <1>4 DEF Table

(* A load to the end inserts all rows.                                     *)
LEMMA WholeSequence ==
    ASSUME NEW X, NEW s \in Seq(X)
    PROVE  SubSeq(s, 1, Len(s)) = s
    OBVIOUS

(* The invariant holds at the start.                                       *)
LEMMA SnmpInit ==
    Init => SnmpInv
<1> SUFFICES ASSUME Init PROVE SnmpInv
    OBVIOUS
<1>1. PICK s \in Systems : intf = s.intf /\ port = s.port /\ order = s.order /\ polled = s.polled
    BY DEF Init
<1>2. System(s)
    BY SnmpAssumption
<1>3. RowsInv
    BY <1>1, <1>2 DEF Init, System, RowsInv, Names, Table
<1>4. CacheInv /\ ExactInv
    BY DEF Init, CacheInv, ExactInv, IsCache, NoCache
<1> QED
    BY <1>3, <1>4 DEF SnmpInv

(* Other daemons forget exact.                                             *)
LEMMA RowChange ==
    ASSUME SnmpInv, NEW i \in Interface, InterfaceChange(i)
    PROVE  SnmpInv'
<1>1. /\ exact' = {} /\ port' = port /\ order' = order /\ polled' = polled
      /\ cache' = cache /\ agent' = agent
    BY DEF InterfaceChange
<1>2. /\ intf' \in [DOMAIN intf' -> InterfaceRows] /\ DOMAIN intf' \subseteq Interface
      /\ \A p \in DOMAIN port : port[p].interfaces => FirstOf[p] \in DOMAIN intf'
  <2>1. ASSUME NEW r \in InterfaceRows, intf' = With(intf, i, r)
        PROVE  <1>2!:
      BY <2>1 DEF With, SnmpInv, RowsInv
  <2>2. CASE /\ \A p \in DOMAIN port : ~(port[p].interfaces /\ FirstOf[p] = i)
             /\ intf' = Without(intf, i)
      BY <2>2 DEF Without, SnmpInv, RowsInv
  <2> QED
      BY <2>1, <2>2 DEF InterfaceChange
<1>3. RowsInv'
    BY <1>1, <1>2 DEF SnmpInv, RowsInv
<1> QED
    BY <1>1, <1>3 DEF SnmpInv, CacheInv, ExactInv

(* So for ports.                                                           *)
LEMMA PortRowChange ==
    ASSUME SnmpInv, NEW p \in Port, PortChange(p)
    PROVE  SnmpInv'
<1>1. /\ exact' = {} /\ intf' = intf /\ order' = order /\ polled' = polled
      /\ cache' = cache /\ agent' = agent
    BY DEF PortChange
<1>2. /\ port' \in [DOMAIN port' -> PortRows] /\ DOMAIN port' \subseteq Port
      /\ \A q \in DOMAIN port' : port'[q].interfaces => FirstOf[q] \in DOMAIN intf
  <2>1. ASSUME NEW r \in PortRows, r.interfaces => FirstOf[p] \in DOMAIN intf, port' = With(port, p, r)
        PROVE  <1>2!:
      BY <2>1 DEF With, SnmpInv, RowsInv
  <2>2. CASE port' = Without(port, p)
      BY <2>2 DEF Without, SnmpInv, RowsInv
  <2> QED
      BY <2>1, <2>2 DEF PortChange
<1>3. RowsInv'
    BY <1>1, <1>2 DEF SnmpInv, RowsInv
<1> QED
    BY <1>1, <1>3 DEF SnmpInv, CacheInv, ExactInv

(* A table gets another cache.                                             *)
LEMMA CacheUpdate ==
    ASSUME CacheInv, ExactInv, NEW t \in Table, NEW c, IsCache(c),
           cache' = [u \in Table |-> IF u = t THEN c ELSE cache[u]],
           intf' = intf, port' = port, order' = order, exact' \subseteq exact \cup {t},
           t \in exact' => c.valid /\ \E g \in Leftovers(t) : Held(t, intf, port, order, g, c.rows)
    PROVE  CacheInv' /\ ExactInv'
<1>1. \A u \in Table : cache'[u] = IF u = t THEN c ELSE cache[u]
    OBVIOUS
<1>2. CacheInv'
  <2>1. cache' = [u \in Table |-> cache'[u]]
      OBVIOUS
  <2>2. \A u \in Table : IsCache(cache'[u])
      BY <1>1 DEF CacheInv
  <2>3. \A u \in exact' : u \in Table /\ cache'[u].valid
      BY <1>1 DEF CacheInv
  <2> QED
      BY <2>1, <2>2, <2>3 DEF CacheInv
<1>3. ASSUME NEW u \in exact'
      PROVE  \E g \in Leftovers(u) : Held(u, intf', port', order', g, cache'[u].rows)
  <2>1. u \in Table
      BY DEF CacheInv
  <2>2. CASE u = t
      BY <1>1, <2>2
  <2>3. CASE u # t
      BY <1>1, <2>1, <2>3 DEF ExactInv
  <2> QED
      BY <2>2, <2>3
<1> QED
    BY <1>2, <1>3 DEF ExactInv

(* A cache that expires keeps its rows.                                    *)
LEMMA TimeoutStep ==
    ASSUME SnmpInv, NEW t \in Table, CacheTimeout(t)
    PROVE  SnmpInv'
<1> DEFINE c == [valid |-> cache[t].valid, expired |-> TRUE, rows |-> cache[t].rows]
<1>1. /\ intf' = intf /\ port' = port /\ order' = order /\ polled' = polled /\ agent' = agent
      /\ exact' = exact
    BY DEF CacheTimeout
<1>2. cache[t] = [valid |-> cache[t].valid, expired |-> cache[t].expired, rows |-> cache[t].rows]
    BY DEF SnmpInv, CacheInv, IsCache
<1>3. [cache[t] EXCEPT !.expired = TRUE] = c
  <2> DEFINE d == [cache[t] EXCEPT !.expired = TRUE]
  <2>1. cache[t] \in [valid : {cache[t].valid}, expired : {cache[t].expired}, rows : {cache[t].rows}]
      BY <1>2
  <2>2. d \in [valid : {cache[t].valid}, expired : {TRUE}, rows : {cache[t].rows}]
      BY <2>1
  <2> HIDE DEF d
  <2>3. d = c
      BY <2>2
  <2> QED
      BY <2>3 DEF d
<1>4. cache' = [u \in Table |-> IF u = t THEN c ELSE cache[u]]
  <2>1. cache' = [cache EXCEPT ![t] = [cache[t] EXCEPT !.expired = TRUE]]
      BY DEF CacheTimeout
  <2> HIDE DEF c
  <2> QED
      BY <1>3, <2>1 DEF SnmpInv, CacheInv
<1>5. IsCache(c) /\ c.rows = cache[t].rows /\ c.valid = cache[t].valid
    BY DEF CacheTimeout, IsCache, SnmpInv, CacheInv
<1>6. t \in exact => c.valid /\ \E g \in Leftovers(t) : Held(t, intf, port, order, g, c.rows)
    BY <1>5 DEF SnmpInv, CacheInv, ExactInv
<1> HIDE DEF c
<1>7. CacheInv' /\ ExactInv'
  <2>1. CacheInv /\ ExactInv
      BY DEF SnmpInv
  <2> QED
      BY <1>1, <1>4, <1>5, <1>6, <2>1, CacheUpdate
<1> QED
    BY <1>1, <1>7 DEF SnmpInv, RowsInv

(* The cache that is not valid.                                            *)
LEMMA NoCacheIsCache == IsCache(NoCache)
    BY DEF IsCache, NoCache

(* A cache that is released has no rows.                                   *)
LEMMA ReleaseStep ==
    ASSUME SnmpInv, NEW t \in Table, CacheRelease(t)
    PROVE  SnmpInv'
<1>1. /\ intf' = intf /\ port' = port /\ order' = order /\ polled' = polled /\ agent' = agent
      /\ exact' = exact \ {t}
    BY DEF CacheRelease
<1>2. cache' = [u \in Table |-> IF u = t THEN NoCache ELSE cache[u]]
    BY DEF CacheRelease, SnmpInv, CacheInv
<1>3. CacheInv /\ ExactInv
    BY DEF SnmpInv
<1>4. CacheInv' /\ ExactInv'
    BY <1>1, <1>2, <1>3, NoCacheIsCache, CacheUpdate
<1> QED
    BY <1>1, <1>4 DEF SnmpInv, RowsInv

(* A load that is not cut short puts its rows into an empty container.     *)
LEMMA LoadStep ==
    ASSUME SnmpInv, NEW t \in Table, _cache_load(t)
    PROVE  SnmpInv'
<1>1. /\ intf' = intf /\ port' = port /\ order' = order /\ polled' = polled
      /\ agent' \in {"running", "dead"}
    BY DEF _cache_load, SnmpInv, RowsInv
<1>2. _cache_free(cache[t]) = Empty
    BY DEF _cache_free, SnmpInv, CacheInv, IsCache, NoCache
<1>3. CacheInv /\ ExactInv /\ RowsInv
    BY DEF SnmpInv
<1>4. CASE /\ cache' = [cache EXCEPT ![t] = [NoCache EXCEPT !.rows = _cache_free(cache[t])]]
           /\ exact' = exact \ {t}
  <2>1. [NoCache EXCEPT !.rows = Empty] = NoCache
    <3> DEFINE d == [NoCache EXCEPT !.rows = Empty]
    <3>1. d \in [valid : {FALSE}, expired : {FALSE}, rows : {Empty}]
        BY DEF NoCache
    <3> HIDE DEF d
    <3>2. d = NoCache
        BY <3>1 DEF NoCache
    <3> QED
        BY <3>2 DEF d
  <2>2. cache' = [cache EXCEPT ![t] = NoCache]
      BY <1>2, <1>4, <2>1
  <2>3. cache' = [u \in Table |-> IF u = t THEN NoCache ELSE cache[u]]
      BY <1>3, <2>2 DEF CacheInv
  <2>4. CacheInv' /\ ExactInv'
      BY <1>1, <1>3, <1>4, <2>3, NoCacheIsCache, CacheUpdate
  <2> QED
      BY <1>1, <2>4 DEF SnmpInv, RowsInv
<1>5. ASSUME NEW g \in Leftovers(t),
             NEW load, load = ContainerLoad(t, intf, port, order, g),
             NEW n, NEW c, c = [valid |-> TRUE, expired |-> FALSE,
                                rows |-> Inserted(Empty, SubSeq(load.rows, 1, n))],
             cache' = [cache EXCEPT ![t] = c],
             \/ exact' = exact \ {t}
             \/ exact' = exact \cup {t} /\ ~load.fault /\ n = Len(load.rows)
      PROVE  SnmpInv'
  <2>1. IsCache(c) /\ c.valid /\ c.rows = Inserted(Empty, SubSeq(load.rows, 1, n))
      BY <1>5 DEF IsCache
  <2>2. cache' = [u \in Table |-> IF u = t THEN c ELSE cache[u]]
      BY <1>3, <1>5 DEF CacheInv
  <2>3. t \in exact' => Held(t, intf, port, order, g, c.rows)
    <3>1. SUFFICES ASSUME t \in exact' PROVE Held(t, intf, port, order, g, c.rows)
        OBVIOUS
    <3>2. ~load.fault /\ n = Len(load.rows)
        BY <1>5, <3>1
    <3>3. PICK X : load.rows \in Seq(X)
        BY <1>3, <1>5, LoadedRows
    <3>4. SubSeq(load.rows, 1, n) = load.rows
        BY <3>2, <3>3, WholeSequence
    <3> QED
        BY <1>5, <2>1, <3>2, <3>4 DEF Held
  <2>4. exact' \subseteq exact \cup {t}
      BY <1>5
  <2>5. CacheInv' /\ ExactInv'
      BY <1>1, <1>3, <2>1, <2>2, <2>3, <2>4, CacheUpdate
  <2> QED
      BY <1>1, <2>5 DEF SnmpInv, RowsInv
<1>6. CASE exact' = {} /\ cache' = [u \in Table |-> NoCache]
  <2>1. CacheInv' /\ ExactInv'
      BY <1>6, NoCacheIsCache DEF CacheInv, ExactInv
  <2> QED
      BY <1>1, <1>3, <2>1 DEF SnmpInv, RowsInv
<1> QED
    BY <1>2, <1>4, <1>5, <1>6 DEF _cache_load, Leftovers

(* Every step keeps the invariant.                                         *)
LEMMA SnmpStep ==
    ASSUME SnmpInv, [Next]_vars
    PROVE  SnmpInv'
<1>1. polled \subseteq Table
    BY DEF SnmpInv, RowsInv
<1>2. CASE AgentStart
    BY <1>2 DEF AgentStart, SnmpInv, RowsInv, CacheInv, ExactInv
<1>3. CASE UNCHANGED vars
    BY <1>3 DEF vars, SnmpInv, RowsInv, CacheInv, ExactInv
<1> QED
    BY <1>1, <1>2, <1>3, RowChange, PortRowChange, TimeoutStep, LoadStep, ReleaseStep DEF Next

(* The invariant of every behaviour.                                       *)
LEMMA SnmpInvariant == Spec => []SnmpInv
<1>1. SnmpInv /\ [Next]_vars => SnmpInv'
    BY SnmpStep
<1> QED
    BY SnmpInit, <1>1, PTL DEF Spec

(* Rows, caches and the agent have the shape the code gives them, and a    *)
(* cache that is not valid has no rows, whatever the rows of the database. *)
THEOREM SnmpTypeOK == Spec => []TypeOK
<1>1. SnmpInv => TypeOK
    BY DEF SnmpInv, RowsInv, CacheInv, IsCache, TypeOK
<1> QED
    BY <1>1, SnmpInvariant, PTL

(* A load that reads through NULL has met such a row.                      *)
LEMMA FaultyLoad ==
    ASSUME RowsInv, NEW t \in Table, NEW g, ContainerLoad(t, intf, port, order, g).fault
    PROVE  Lacks(intf) \/ Incomplete(port)
<1> USE RowsFit
<1>1. CASE t = "ifTable"
    BY <1>1, IfTableShows DEF ContainerLoad
<1>2. CASE t = "ifXTable"
    BY <1>2, IfXTableShows DEF ContainerLoad
<1>3. CASE t = "ipIfStatsTable"
  <2>1. ipIfStatsTable_container_load(intf, port, order).fault => Incomplete(port)
      BY PortTablesMatch
  <2> QED
      BY <1>3, <2>1 DEF ContainerLoad
<1>4. CASE t = "ipSystemStatsTable"
  <2>1. SystemSums(intf, port, order).fault => Incomplete(port)
      BY PortTablesMatch
  <2> QED
      BY <1>4, <2>1, SystemLoadIs DEF ContainerLoad
<1> QED
    BY <1>1, <1>2, <1>3, <1>4 DEF Table

(* Whatever rows there are, a request ends the agent only while a row      *)
(* lacks what a load takes for granted.                                    *)
THEOREM SnmpDies == Spec => DiesOfIncompleteRows
<1>1. ASSUME SnmpInv, [Next]_vars, agent = "running", agent' = "dead"
      PROVE  Lacks(intf) \/ Incomplete(port)
  <2>1. PICK t \in polled : _cache_load(t)
    <3>1. agent' # agent
        BY <1>1
    <3>2. ~UNCHANGED vars /\ ~AgentStart
        BY <1>1, <3>1 DEF vars, AgentStart
    <3>3. \A i \in Interface : ~InterfaceChange(i)
        BY <3>1 DEF InterfaceChange
    <3>4. \A p \in Port : ~PortChange(p)
        BY <3>1 DEF PortChange
    <3>5. \A t \in polled : ~CacheTimeout(t) /\ ~CacheRelease(t)
        BY <3>1 DEF CacheTimeout, CacheRelease
    <3> QED
        BY <1>1, <3>2, <3>3, <3>4, <3>5 DEF Next
  <2>2. t \in Table /\ RowsInv
      BY <1>1 DEF SnmpInv, RowsInv
  <2>3. PICK g : ContainerLoad(t, intf, port, order, g).fault
      BY <1>1, <2>1 DEF _cache_load
  <2> QED
      BY <2>2, <2>3, FaultyLoad
<1>2. Lacks(intf) => \E i \in Shown : intf[i].admin_state = Unset
    BY DEF Lacks, Contributes, Shown
<1>3. SnmpInv /\ [Next]_vars =>
         (agent = "running" /\ agent' = "dead" =>
            \/ \E i \in Shown : intf[i].admin_state = Unset
            \/ \E p \in DOMAIN port, fam \in {"v4", "v6"} :
                  /\ Number[p] # 0
                  /\ \/ port[p].address[fam] = "secondary"
                     \/ port[p].address[fam] = "primary" /\ ~port[p].interfaces)
    BY <1>1, <1>2 DEF Incomplete
<1> QED
    BY <1>3, SnmpInvariant, PTL DEF Spec, DiesOfIncompleteRows

-----------------------------------------------------------------------------
(* Interfaces and positions of the walk.                                   *)

(* A name has one position in the walk.                                    *)
LEMMA PositionIs ==
    ASSUME RowsInv, NEW k \in 1..Len(order)
    PROVE  Position(order[k]) = k
<1>1. k \in DOMAIN order /\ \A j \in DOMAIN order : order[j] = order[k] => j = k
    BY DEF RowsInv, IsInjective
<1> QED
    BY <1>1 DEF Position

(* The interfaces that are shown are those that contribute.                *)
LEMMA ShownIs ==
    ASSUME RowsInv
    PROVE  /\ \A i : i \in Shown <=> Contributes(intf, i)
           /\ \A i \in Shown : /\ Position(i) \in 1..Len(order)
                               /\ order[Position(i)] = i
           /\ Numbers(intf, order, Len(order)) = {Number[i] : i \in Shown}
<1>1. \A i : i \in Shown <=> Contributes(intf, i)
    BY DEF Shown, Contributes
<1>2. \A i \in Shown : \E k \in 1..Len(order) : order[k] = i
    BY RowsFit DEF Shown
<1>3. \A i \in Shown : Position(i) \in 1..Len(order) /\ order[Position(i)] = i
    BY <1>2, PositionIs
<1>4. Numbers(intf, order, Len(order)) = {Number[i] : i \in Shown}
    BY <1>1, <1>2 DEF Numbers
<1> QED
    BY <1>1, <1>3, <1>4

(* The first interface with a number is that of the first position.        *)
LEMMA FirstIs ==
    ASSUME RowsInv, NEW n, NEW j, FirstAt(intf, order, n, j)
    PROVE  FirstWith(Shown, n) = order[j] /\ order[j] \in Shown /\ Position(order[j]) = j
<1>1. j \in 1..Len(order) /\ order[j] \in Shown /\ Number[order[j]] = n
    BY ShownIs DEF FirstAt
<1>2. Position(order[j]) = j
    BY <1>1, PositionIs
<1>3. ASSUME NEW i \in Shown, Number[i] = n PROVE j <= Position(i)
  <2>1. Position(i) \in 1..Len(order) /\ order[Position(i)] = i /\ Contributes(intf, i)
      BY ShownIs
  <2>2. Len(order) \in Nat
      BY RowsFit
  <2>3. Position(i) \notin 1..(j - 1)
      BY <1>3, <2>1 DEF FirstAt
  <2> QED
      BY <1>1, <2>1, <2>2, <2>3
<1>4. ASSUME NEW i \in Shown, Number[i] = n, \A l \in Shown : Number[l] = n => Position(i) <= Position(l)
      PROVE  i = order[j]
  <2>1. Position(i) <= j /\ j <= Position(i)
      BY <1>1, <1>2, <1>3, <1>4
  <2>2. Position(i) \in 1..Len(order) /\ order[Position(i)] = i /\ Len(order) \in Nat
      BY ShownIs, RowsFit
  <2>3. Position(i) = j
      BY <1>1, <2>1, <2>2
  <2> QED
      BY <2>2, <2>3
<1>5. \A l \in Shown : Number[l] = n => Position(order[j]) <= Position(l)
    BY <1>2, <1>3
<1> QED
    BY <1>1, <1>2, <1>4, <1>5 DEF FirstWith

(* What ifTable serves while no row has changed.                           *)
LEMMA IfTableServed ==
    ASSUME SnmpInv, "ifTable" \in exact
    PROVE  \E g \in Garbage : ShowsNearest(intf, order, g, Served("ifTable"))
<1>1. RowsInv /\ ExactInv
    BY DEF SnmpInv
<1>2. PICK g \in Garbage : Held("ifTable", intf, port, order, g, cache["ifTable"].rows)
    BY <1>1 DEF ExactInv, Leftovers
<1> DEFINE load == ifTable_container_load(intf, order, g)
<1>3. ~load.fault /\ Served("ifTable") = Inserted(Empty, load.rows)
    BY <1>2 DEF Held, ContainerLoad, Served
<1>4. ShowsNearest(intf, order, g, Inserted(Empty, load.rows))
    BY <1>1, <1>3, RowsFit, IfTableShows
<1> HIDE DEF load
<1> QED
    BY <1>3, <1>4

(* The nearest link state before a position.                               *)
LEMMA NearestIs ==
    ASSUME RowsInv, NEW j \in 1..Len(order), NEW g, NEW o, OperIs(intf, order, g, j, o),
           NEW before, before = {l \in Shown : Position(l) <= j /\ intf[l].link_state # Unset}
    PROVE  IF before = {} THEN o = g
           ELSE o = StateValue(intf[CHOOSE l \in before : \A k \in before :
                                       Position(k) <= Position(l)].link_state)
<1>1. Len(order) \in Nat /\ j \in Nat /\ \A m \in 1..j : m \in 1..Len(order)
    BY RowsFit
<1>2. \A m \in 1..j : Contributes(intf, order[m]) /\ intf[order[m]].link_state # Unset
                         => order[m] \in before /\ Position(order[m]) = m
    BY <1>1, ShownIs, PositionIs
<1>3. \A l \in before : /\ Position(l) \in 1..j /\ order[Position(l)] = l
                        /\ ~Silent(intf, l)
    BY <1>1, ShownIs DEF Silent
<1>4. CASE (\A l \in 1..j : Silent(intf, order[l])) /\ o = g
  <2>1. before = {}
    <3>1. ASSUME NEW l \in before PROVE FALSE
        BY <1>3, <1>4
    <3> QED
        BY <3>1
  <2> QED
      BY <1>4, <2>1
<1>5. CASE ~((\A l \in 1..j : Silent(intf, order[l])) /\ o = g)
  <2>1. PICK m \in 1..j : /\ Contributes(intf, order[m]) /\ intf[order[m]].link_state # Unset
                          /\ \A l \in (m + 1)..j : Silent(intf, order[l])
                          /\ o = StateValue(intf[order[m]].link_state)
      BY <1>5 DEF OperIs
  <2>2. order[m] \in before /\ Position(order[m]) = m
      BY <1>2, <2>1
  <2>3. ASSUME NEW l \in before PROVE Position(l) <= m
    <3>1. Position(l) \in 1..j /\ Position(l) \notin (m + 1)..j
        BY <1>3, <2>1
    <3> QED
        BY <1>1, <3>1
  <2>4. ASSUME NEW l \in before, \A k \in before : Position(k) <= Position(l) PROVE l = order[m]
    <3>1. m <= Position(l) /\ Position(l) <= m /\ Position(l) \in 1..j /\ order[Position(l)] = l
        BY <1>3, <2>2, <2>3, <2>4
    <3>2. Position(l) = m
        BY <1>1, <3>1
    <3> QED
        BY <3>1, <3>2
  <2>5. (CHOOSE l \in before : \A k \in before : Position(k) <= Position(l)) = order[m]
      BY <2>2, <2>3, <2>4
  <2> HIDE DEF Position
  <2> QED
      BY <2>1, <2>2, <2>5
<1> QED
    BY <1>4, <1>5

(* For any interfaces, rows, order of the walk and garbage: a table that   *)
(* was loaded to the end shows, of the first interface with a number, its  *)
(* own admin status and the nearest operational status.                    *)
THEOREM SnmpStatus == Spec => []StatusFromNearestRow
<1>1. ASSUME SnmpInv, "ifTable" \in exact
      PROVE  /\ DOMAIN Served("ifTable") = {Number[i] : i \in Shown}
             /\ \A n \in DOMAIN Served("ifTable") :
                  LET i == FirstWith(Shown, n)
                      row == Served("ifTable")[n]
                      before == {j \in Shown : Position(j) <= Position(i) /\ intf[j].link_state # Unset}
                      nearest == CHOOSE j \in before : \A k \in before : Position(k) <= Position(j)
                  IN  /\ row.ifAdminStatus = IF intf[i].admin_state = "up" THEN 1 ELSE 2
                      /\ IF before = {} THEN row.ifOperStatus \in Garbage
                         ELSE row.ifOperStatus = IF intf[nearest].link_state = "up" THEN 1 ELSE 2
  <2>1. RowsInv
      BY <1>1 DEF SnmpInv
  <2>1a. PICK g \in Garbage : ShowsNearest(intf, order, g, Served("ifTable"))
      BY <1>1, IfTableServed
  <2>2. PICK R :
              /\ Shows(intf, order, Len(order), Served("ifTable"), R)
              /\ \A j \in 1..Len(order) : Contributes(intf, order[j]) =>
                    \E o : /\ OperIs(intf, order, g, j, o)
                           /\ R[j] = IfRow(intf[order[j]], StateValue(intf[order[j]].admin_state), o)
      BY <2>1a DEF ShowsNearest
  <2>3. DOMAIN Served("ifTable") = {Number[i] : i \in Shown}
      BY <2>1, <2>2, ShownIs DEF Shows
  <2>4. ASSUME NEW n \in DOMAIN Served("ifTable")
        PROVE  LET i == FirstWith(Shown, n)
                   row == Served("ifTable")[n]
                   before == {j \in Shown : Position(j) <= Position(i) /\ intf[j].link_state # Unset}
                   nearest == CHOOSE j \in before : \A k \in before : Position(k) <= Position(j)
               IN  /\ row.ifAdminStatus = IF intf[i].admin_state = "up" THEN 1 ELSE 2
                   /\ IF before = {} THEN row.ifOperStatus \in Garbage
                      ELSE row.ifOperStatus = IF intf[nearest].link_state = "up" THEN 1 ELSE 2
    <3>1. PICK j \in 1..Len(order) : FirstAt(intf, order, n, j) /\ Served("ifTable")[n] = R[j]
        BY <2>2 DEF Shows
    <3> DEFINE i == FirstWith(Shown, n)
               row == Served("ifTable")[n]
               before == {l \in Shown : Position(l) <= Position(i) /\ intf[l].link_state # Unset}
               nearest == CHOOSE l \in before : \A k \in before : Position(k) <= Position(l)
    <3>2. i = order[j] /\ Position(i) = j
        BY <2>1, <3>1, FirstIs
    <3>3. PICK o : /\ OperIs(intf, order, g, j, o)
                   /\ row = IfRow(intf[i], StateValue(intf[i].admin_state), o)
        BY <2>2, <3>1, <3>2 DEF FirstAt
    <3>4. row.ifAdminStatus = StateValue(intf[i].admin_state) /\ row.ifOperStatus = o
        BY <3>3 DEF IfRow
    <3> HIDE DEF row, i
    <3>5. before = {l \in Shown : Position(l) <= j /\ intf[l].link_state # Unset}
        BY <3>2
    <3> HIDE DEF before
    <3>6. IF before = {} THEN o = g ELSE o = StateValue(intf[nearest].link_state)
        BY <2>1, <3>3, <3>5, NearestIs
    <3> HIDE DEF nearest
    <3>7. /\ row.ifAdminStatus = IF intf[i].admin_state = "up" THEN 1 ELSE 2
          /\ IF before = {} THEN row.ifOperStatus \in Garbage
             ELSE row.ifOperStatus = IF intf[nearest].link_state = "up" THEN 1 ELSE 2
        BY <2>2, <3>4, <3>6 DEF StateValue
    <3> QED
        BY <3>7 DEF row, i, before, nearest
  <2> QED
      BY <2>3, <2>4
<1>2. SnmpInv => StatusFromNearestRow
    BY <1>1 DEF StatusFromNearestRow
<1> QED
    BY <1>2, SnmpInvariant, PTL

(* What ifXTable serves while no row has changed.                          *)
LEMMA IfXTableServed ==
    ASSUME SnmpInv, "ifXTable" \in exact
    PROVE  ShowsColumns(intf, order, Served("ifXTable"))
<1>1. RowsInv /\ ExactInv
    BY DEF SnmpInv
<1>2. PICK g : Held("ifXTable", intf, port, order, g, cache["ifXTable"].rows)
    BY <1>1 DEF ExactInv
<1> DEFINE load == ifXTable_container_load(intf, order)
<1>3. Served("ifXTable") = Inserted(Empty, load.rows)
    BY <1>2 DEF Held, ContainerLoad, Served
<1>4. ShowsColumns(intf, order, Inserted(Empty, load.rows))
    BY <1>1, RowsFit, IfXTableShows
<1> HIDE DEF load
<1> QED
    BY <1>3, <1>4

(* For any rows and any walk, and any two loads with no change of a row    *)
(* between: ifTable and ifXTable show the same interfaces, speeds and      *)
(* counters.                                                               *)
THEOREM SnmpIfTables == Spec => []IfTablesAgree
<1>1. ASSUME SnmpInv, {"ifTable", "ifXTable"} \subseteq exact
      PROVE  /\ DOMAIN Served("ifTable") = DOMAIN Served("ifXTable")
             /\ \A n \in DOMAIN Served("ifTable") :
                  LET a == Served("ifTable")[n]
                      b == Served("ifXTable")[n]
                      Whole(u) == u.high * Word + u.low
                  IN  /\ IF a.ifSpeed < Word - 1 THEN b.ifHighSpeed = a.ifSpeed \div Mega
                         ELSE b.ifHighSpeed >= (Word - 1) \div Mega
                      /\ b.ifHighSpeed > 0 => intf[FirstWith(Shown, n)].link_state = "up"
                      /\ Whole(b.hc.ifHCInOctets) = a.in.ifInOctets
                      /\ Whole(b.hc.ifHCInUcastPkts) = a.in.ifInUcastPkts
                      /\ Whole(b.hc.ifHCOutOctets) = a.out.ifOutOctets
                      /\ Whole(b.hc.ifHCOutUcastPkts) = a.out.ifOutUcastPkts
  <2>1. RowsInv /\ "ifTable" \in exact /\ "ifXTable" \in exact
      BY <1>1 DEF SnmpInv
  <2>2. PICK g \in Garbage : ShowsNearest(intf, order, g, Served("ifTable"))
      BY <1>1, <2>1, IfTableServed
  <2>3. PICK R :
              /\ Shows(intf, order, Len(order), Served("ifTable"), R)
              /\ \A j \in 1..Len(order) : Contributes(intf, order[j]) =>
                    \E o : /\ OperIs(intf, order, g, j, o)
                           /\ R[j] = IfRow(intf[order[j]], StateValue(intf[order[j]].admin_state), o)
      BY <2>2 DEF ShowsNearest
  <2>4. ShowsColumns(intf, order, Served("ifXTable"))
      BY <1>1, <2>1, IfXTableServed
  <2>5. PICK Q : /\ Shows(intf, order, Len(order), Served("ifXTable"), Q)
                 /\ \A j \in 1..Len(order) : Q[j] = IfXRow(intf[order[j]])
      BY <2>4 DEF ShowsColumns
  <2>6. DOMAIN Served("ifTable") = DOMAIN Served("ifXTable")
      BY <2>3, <2>5 DEF Shows
  <2>7. ASSUME NEW n \in DOMAIN Served("ifTable")
        PROVE  \E admin, oper : LET r == intf[FirstWith(Shown, n)]
                                IN  /\ Schema(r)
                                    /\ Served("ifTable")[n] = IfRow(r, admin, oper)
                                    /\ Served("ifXTable")[n] = IfXRow(r)
    <3>1. PICK j \in 1..Len(order) : FirstAt(intf, order, n, j) /\ Served("ifTable")[n] = R[j]
        BY <2>3 DEF Shows
    <3>2. PICK k \in 1..Len(order) : FirstAt(intf, order, n, k) /\ Served("ifXTable")[n] = Q[k]
        BY <2>5, <2>6 DEF Shows
    <3>3. order[j] = FirstWith(Shown, n) /\ order[k] = FirstWith(Shown, n) /\ order[j] \in Shown
        BY <2>1, <3>1, <3>2, FirstIs
    <3>4. PICK o : R[j] = IfRow(intf[order[j]], StateValue(intf[order[j]].admin_state), o)
        BY <2>3, <3>1 DEF FirstAt
    <3>5. Q[k] = IfXRow(intf[order[k]])
        BY <2>5
    <3>6. Schema(intf[order[j]])
        BY <2>1, <3>3, RowsFit DEF SchemaRows, Shown
    <3> QED
        BY <3>1, <3>2, <3>3, <3>4, <3>5, <3>6
  <2>8. ASSUME NEW n \in DOMAIN Served("ifTable")
        PROVE  LET a == Served("ifTable")[n]
                   b == Served("ifXTable")[n]
                   Whole(u) == u.high * Word + u.low
               IN  /\ IF a.ifSpeed < Word - 1 THEN b.ifHighSpeed = a.ifSpeed \div Mega
                      ELSE b.ifHighSpeed >= (Word - 1) \div Mega
                   /\ b.ifHighSpeed > 0 => intf[FirstWith(Shown, n)].link_state = "up"
                   /\ Whole(b.hc.ifHCInOctets) = a.in.ifInOctets
                   /\ Whole(b.hc.ifHCInUcastPkts) = a.in.ifInUcastPkts
                   /\ Whole(b.hc.ifHCOutOctets) = a.out.ifOutOctets
                   /\ Whole(b.hc.ifHCOutUcastPkts) = a.out.ifOutUcastPkts
    <3> DEFINE r == intf[FirstWith(Shown, n)]
               a == Served("ifTable")[n]
               b == Served("ifXTable")[n]
    <3>1. PICK admin, oper : Schema(r) /\ a = IfRow(r, admin, oper) /\ b = IfXRow(r)
        BY <2>7
    <3> HIDE DEF r, a, b
    <3>2. Word \in Nat \ {0} /\ Mega \in Nat \ {0}
        BY SnmpAssumption
    <3>3. LET Whole(u) == u.high * Word + u.low
          IN  /\ IF a.ifSpeed < Word - 1 THEN b.ifHighSpeed = a.ifSpeed \div Mega
                 ELSE b.ifHighSpeed >= (Word - 1) \div Mega
              /\ b.ifHighSpeed > 0 => r.link_state = "up"
              /\ Whole(b.hc.ifHCInOctets) = a.in.ifInOctets
              /\ Whole(b.hc.ifHCInUcastPkts) = a.in.ifInUcastPkts
              /\ Whole(b.hc.ifHCOutOctets) = a.out.ifOutOctets
              /\ Whole(b.hc.ifHCOutUcastPkts) = a.out.ifOutUcastPkts
        BY <3>1, <3>2, ColumnsAgree
    <3> QED
        BY <3>3 DEF r, a, b
  <2> QED
      BY <2>6, <2>8
<1>2. SnmpInv => IfTablesAgree
    BY <1>1 DEF IfTablesAgree
<1> QED
    BY <1>2, SnmpInvariant, PTL

(* A sequence of two.                                                      *)
LEMMA AppendToOne ==
    ASSUME NEW X, NEW x \in X, NEW y \in X
    PROVE  Append(<<x>>, y) = <<x, y>>
<1> DEFINE u == <<x>>
           s == Append(u, y)
           t == <<x, y>>
<1>1. u \in Seq(X) /\ Len(u) = 1 /\ u[1] = x
    OBVIOUS
<1>2. t \in Seq(X) /\ Len(t) = 2 /\ t[1] = x /\ t[2] = y
    OBVIOUS
<1> HIDE DEF u, t
<1>3. /\ s \in Seq(X) /\ Len(s) = Len(u) + 1 /\ s[Len(u) + 1] = y
      /\ \A i \in 1..Len(u) : s[i] = u[i]
  <2>1. u \in Seq(X)
      BY <1>1
  <2>2. Append(u, y) \in Seq(X) /\ Len(Append(u, y)) = Len(u) + 1
      BY <2>1, AppendProperties
  <2>3. Append(u, y)[Len(u) + 1] = y /\ \A i \in 1..Len(u) : Append(u, y)[i] = u[i]
      BY <2>1, AppendProperties
  <2> QED
      BY <2>2, <2>3
<1>4. Len(s) = 2 /\ s[1] = x /\ s[2] = y
  <2>1. Len(u) + 1 = 2 /\ 1 \in 1..Len(u)
      BY <1>1
  <2> HIDE DEF s
  <2> QED
      BY <1>1, <1>3, <2>1
<1> HIDE DEF s
<1>5. s = t
    BY <1>2, <1>3, <1>4, SeqEqual
<1> QED
    BY <1>5 DEF s, t, u

(* A container of two entries.                                             *)
LEMMA TwoEntries ==
    ASSUME NEW v \in Counters, NEW w \in Counters
    PROVE  LET C == Inserted(Empty, <<<<1, v>>, <<2, w>>>>)
           IN  C[1] = v /\ C[2] = w
<1> DEFINE K == {1, 2}
           e1 == <<1, v>>
           e2 == <<2, w>>
           D == CONTAINER_INSERT(Empty, e1)
           E == CONTAINER_INSERT(D, e2)
<1>1. <<>> \in Seq(K \X Counters) /\ e1 \in K \X Counters /\ e2 \in K \X Counters
    OBVIOUS
<1>2. D[1] = v /\ DOMAIN D = {1}
    BY DEF CONTAINER_INSERT, Empty
<1>3. 1 \in DOMAIN D /\ 2 \notin DOMAIN D
    BY <1>2
<1> HIDE DEF D
<1>4. E[1] = v /\ E[2] = w
    BY <1>2, <1>3 DEF CONTAINER_INSERT
<1> DEFINE s0 == <<>>
           s1 == Append(s0, e1)
<1>5. s0 \in Seq(K \X Counters) /\ s1 \in Seq(K \X Counters)
    BY <1>1
<1>6. Append(s1, e2) = <<e1, e2>>
  <2> DEFINE X == K \X Counters
  <2>1. e1 \in X /\ e2 \in X
      OBVIOUS
  <2>2. s1 = <<e1>>
      OBVIOUS
  <2> HIDE DEF X, e1, e2, s1
  <2> QED
      BY <2>1, <2>2, AppendToOne
<1>7. Inserted(Empty, s0) = Empty
    BY InsertedNone
<1> HIDE DEF K, e1, e2, E, s0
<1>8. Inserted(Empty, s1) = CONTAINER_INSERT(Inserted(Empty, s0), e1)
    BY <1>1, <1>5, InsertedAppend
<1>9. Inserted(Empty, s1) = D
    BY <1>7, <1>8 DEF D
<1> HIDE DEF s1
<1>10. Inserted(Empty, Append(s1, e2)) = CONTAINER_INSERT(Inserted(Empty, s1), e2)
    BY <1>1, <1>5, InsertedAppend
<1>11. Inserted(Empty, <<e1, e2>>) = E
    BY <1>6, <1>9, <1>10 DEF E
<1> QED
    BY <1>4, <1>11 DEF e1, e2

(* For any ports with different numbers, whatever their counters: the      *)
(* totals of ipSystemStatsTable are the sums of the rows of                *)
(* ipIfStatsTable.                                                         *)
THEOREM SnmpTotals == Spec => []TotalsMatchRows
<1>1. ASSUME SnmpInv, {"ipIfStatsTable", "ipSystemStatsTable"} \subseteq exact,
             \A p, q \in DOMAIN port : Number[p] = Number[q] => p = q
      PROVE  LET rows == Served("ipIfStatsTable")
                 v4 == {k \in DOMAIN rows : k[1] = 1}
                 v6 == {k \in DOMAIN rows : k[1] = 2 /\ <<1, k[2]>> \notin v4}
                 Total(ks, c) == SumFunction([k \in ks |-> rows[k][c]])
             IN  \A c \in DOMAIN NoCounters :
                   /\ Served("ipSystemStatsTable")[1][c] = Total(v4, c)
                   /\ Served("ipSystemStatsTable")[2][c] = Total(v6, c)
  <2> DEFINE a == ipIfStatsTable_container_load(intf, port, order)
             b == SystemSums(intf, port, order)
  <2>1. RowsInv /\ ExactInv
      BY <1>1 DEF SnmpInv
  <2>2. PICK g : Held("ipIfStatsTable", intf, port, order, g, cache["ipIfStatsTable"].rows)
      BY <1>1, <2>1 DEF ExactInv
  <2>3. PICK h : Held("ipSystemStatsTable", intf, port, order, h, cache["ipSystemStatsTable"].rows)
      BY <1>1, <2>1 DEF ExactInv
  <2>4. ~a.fault /\ Served("ipIfStatsTable") = Inserted(Empty, a.rows)
      BY <2>2 DEF Held, ContainerLoad, Served
  <2>5. ~b.fault /\ Served("ipSystemStatsTable") = Inserted(Empty, <<<<1, b.sum.v4>>, <<2, b.sum.v6>>>>)
      BY <2>1, <2>3, SystemLoadIs DEF Held, ContainerLoad, Served
  <2>6. Distinct(port)
      BY <1>1 DEF Distinct
  <2>7. b \in Sums /\ Match(Inserted(Empty, a.rows), b.sum)
      BY <2>1, <2>4, <2>5, <2>6, RowsFit, PortTablesMatch
  <2> HIDE DEF a, b
  <2>8. b.sum.v4 \in Counters /\ b.sum.v6 \in Counters
      BY <2>7 DEF Sums
  <2>9. Served("ipSystemStatsTable")[1] = b.sum.v4 /\ Served("ipSystemStatsTable")[2] = b.sum.v6
      BY <2>5, <2>8, TwoEntries
  <2> QED
      BY <2>4, <2>7, <2>9 DEF Match, TotalOf, V4, V6
<1>2. SnmpInv => TotalsMatchRows
    BY <1>1 DEF TotalsMatchRows
<1> QED
    BY <1>2, SnmpInvariant, PTL
=============================================================================
