-------------------------- MODULE FundCatalogProofs --------------------------
(***************************************************************************)
(* For every list of tracked funds and wherever starts break off: the      *)
(* catalogue stays sound, ids are stable, and the process serves only with *)
(* a row for every tracked fund.                                           *)
(***************************************************************************)
EXTENDS FundCatalog, SequenceTheorems, TLAPS

-----------------------------------------------------------------------------
(* The inductive invariant *)

\* The statements of the loop over the tracked funds.
Looping == step \in {"select", "insert", "upsert"}

\* The id found or made for the AMC, or the category, of the fund at hand.
Refers(t) == ids[t] \in DOMAIN names[t] /\ names[t][ids[t]] = NameOf(at, t)

\* What the process knows when it is about to run a statement.
Position ==
  /\ Looping => at \in Listed
  /\ step = "upsert" \/ (Looping /\ table = "category") => Refers("amc")
  /\ step = "upsert" => Refers("category")

HasRow(n) == \E i \in DOMAIN funds : IsRowOf(funds[i], n)

\* The funds before the one at hand, and in the end all, have their rows.
Progress ==
  /\ Looping \/ step = "up" => windows = SeedWindows
  /\ Looping => \A n \in Listed : n < at => HasRow(n)
  /\ step = "up" => \A n \in Listed : HasRow(n)

IInv == TypeOK /\ Position /\ CatalogueSound /\ Progress

-----------------------------------------------------------------------------
(* Lemmas *)

\* The fields of a tracked fund.
LEMMA TrackedTyped ==
  ASSUME NEW n \in Listed
  PROVE  /\ TrackedFunds[n] \in [scheme : Schemes, amc : Names, category : Names]
         /\ \A t \in Table : NameOf(n, t) \in Names
         /\ n \in 1..Len(TrackedFunds) /\ Len(TrackedFunds) \in Nat
<1> DEFINE Entry == [scheme : Schemes, amc : Names, category : Names]
<1>1. TrackedFunds \in Seq(Entry)
  BY TrackedAssumption
<1> HIDE DEF Entry
<1>2. Len(TrackedFunds) \in Nat /\ n \in 1..Len(TrackedFunds) /\ TrackedFunds[n] \in Entry
  BY <1>1 DEF Listed
<1>3. TrackedFunds[n].amc \in Names /\ TrackedFunds[n].category \in Names
  BY <1>2 DEF Entry
<1>4. \A t \in Table : NameOf(n, t) \in Names
  BY <1>3 DEF NameOf
<1>5. QED BY <1>2, <1>4 DEF Entry

\* The first tracked fund is there.
LEMMA FirstListed == 1 \in Listed
BY TrackedAssumption DEF Listed

\* With its two ids known, the row to write is that of the fund at hand.
LEMMA RowIsTracked ==
  ASSUME TypeOK, Position, step = "upsert"
  PROVE  /\ at \in Listed
         /\ Row \in FundRow
         /\ Row.scheme = TrackedFunds[at].scheme
         /\ IsRowOf(Row, at)
<1>1. at \in Listed /\ Refers("amc") /\ Refers("category")
  BY DEF Position, Looping
<1>2. TrackedFunds[at].scheme \in Schemes
  BY <1>1, TrackedTyped
<1>3. ids["amc"] \in Nat \ {0} /\ ids["category"] \in Nat \ {0}
  BY <1>1 DEF TypeOK, Refers, Table
<1>4. Row \in FundRow /\ Row.scheme = TrackedFunds[at].scheme
  BY <1>2, <1>3 DEF Row, FundRow, Tracked
<1>5. \A t \in Table : Row[t] = ids[t]
  BY DEF Table, Row
<1>6. QED BY <1>1, <1>4, <1>5 DEF IsRowOf, Refers, Table

\* Rows are only added at the end or replaced in place, by the row of the fund
\* at hand and only where that fund's row was (UpsertFund).
LEMMA UpsertedRows ==
  ASSUME TypeOK, Position, step = "upsert", funds' = Upserted
  PROVE  /\ funds' \in Seq(FundRow)
         /\ \A i \in DOMAIN funds :
              /\ i \in DOMAIN funds'
              /\ funds'[i].scheme = funds[i].scheme
              /\ funds'[i] = funds[i] \/ (Conflicts(i) /\ funds'[i] = Row)
         /\ \A i \in DOMAIN funds' :
              i \in DOMAIN funds \/ (funds'[i] = Row /\ \A j \in DOMAIN funds : ~Conflicts(j))
         /\ \A i, j \in DOMAIN funds' :
              i \notin DOMAIN funds /\ j \notin DOMAIN funds => i = j
         /\ \E i \in DOMAIN funds' : funds'[i] = Row
<1>1. Row \in FundRow /\ Row.scheme = Tracked.scheme
  BY RowIsTracked DEF Tracked
<1>2. funds \in Seq(FundRow) /\ DOMAIN funds = 1..Len(funds) /\ Len(funds) \in Nat
  BY DEF TypeOK
<1>3. CASE \E id \in DOMAIN funds : Conflicts(id)
  <2> DEFINE new == [id \in DOMAIN funds |-> IF Conflicts(id) THEN Row ELSE funds[id]]
  <2>1. funds' = new
    BY <1>3 DEF Upserted
  <2>2. new \in [1..Len(funds) -> FundRow]
    BY <1>1, <1>2
  <2>3. new \in Seq(FundRow)
    BY <1>2, <2>2, SeqDef
  <2>4. DOMAIN funds' = DOMAIN funds
    BY <2>1
  <2>5. \A i \in DOMAIN funds : funds'[i] = (IF Conflicts(i) THEN Row ELSE funds[i])
    BY <2>1
  <2> HIDE DEF new
  <2>6. QED BY <1>1, <1>3, <2>1, <2>3, <2>4, <2>5 DEF Conflicts
<1>4. CASE ~\E id \in DOMAIN funds : Conflicts(id)
  <2>1. funds' = Append(funds, Row)
    BY <1>4 DEF Upserted
  <2>2. /\ funds' \in Seq(FundRow)
        /\ Len(funds') = Len(funds) + 1
        /\ \A i \in 1..Len(funds) : funds'[i] = funds[i]
        /\ funds'[Len(funds) + 1] = Row
    BY <1>1, <1>2, <2>1, AppendProperties
  <2>3. DOMAIN funds' = 1..(Len(funds) + 1)
    BY <2>2
  <2>4. QED BY <1>2, <1>4, <2>2, <2>3
<1>5. QED BY <1>3, <1>4

\* What holds of a row and its tracked fund goes on holding when the tables of
\* names only gain rows.
LEMMA RowsKeepNames ==
  ASSUME \A t \in Table : \A i \in DOMAIN names[t] :
           i \in DOMAIN names'[t] /\ names'[t][i] = names[t][i],
         NEW r, NEW n, IsRowOf(r, n)
  PROVE  IsRowOf(r, n)'
BY DEF IsRowOf, NameOf

-----------------------------------------------------------------------------
(* Types and the positions they depend on *)

\* A name is added where there was none: the tables only gain rows, and the new
\* id leads to the name (GetOrCreateAMC, GetOrCreateCategory).
LEMMA InsertedNames ==
  ASSUME TypeOK, Position, InsertName
  PROVE  /\ names' \in [Table -> Seq(Names)]
         /\ \A t \in Table : \A i \in DOMAIN names[t] :
              i \in DOMAIN names'[t] /\ names'[t][i] = names[t][i]
         /\ LastInsertId \in DOMAIN names'[table]
         /\ names'[table][LastInsertId] = NameOf(at, table)
         /\ \A i \in DOMAIN names'[table] : i \in DOMAIN names[table] \/ i = LastInsertId
         /\ \A t \in Table : t # table => names'[t] = names[t]
         /\ LastInsertId \in Nat \ {0}
<1> DEFINE old == names[table]
           new == Append(old, NameOf(at, table))
<1>1. old \in Seq(Names) /\ Len(old) \in Nat /\ DOMAIN old = 1..Len(old)
  BY DEF TypeOK
<1>2. NameOf(at, table) \in Names
  BY TrackedTyped DEF InsertName, Position, Looping, TypeOK
<1>3. /\ new \in Seq(Names) /\ Len(new) = Len(old) + 1
      /\ \A i \in 1..Len(old) : new[i] = old[i]
      /\ new[Len(old) + 1] = NameOf(at, table)
      /\ DOMAIN new = 1..(Len(old) + 1)
  BY <1>1, <1>2, AppendProperties
<1>4. names' = [names EXCEPT ![table] = new]
  BY DEF InsertName
<1>5. LastInsertId = Len(old) + 1
  BY DEF LastInsertId
<1> HIDE DEF new
<1>6. names'[table] = new /\ \A t \in Table : t # table => names'[t] = names[t]
  BY <1>4 DEF TypeOK
<1>7. names' \in [Table -> Seq(Names)]
  BY <1>3, <1>4 DEF TypeOK
<1> HIDE DEF old
<1>8. /\ LastInsertId \in DOMAIN new /\ LastInsertId \in Nat \ {0}
      /\ new[LastInsertId] = NameOf(at, table)
      /\ \A i \in DOMAIN new : i \in DOMAIN old \/ i = LastInsertId
      /\ \A i \in DOMAIN old : i \in DOMAIN new /\ new[i] = old[i]
  BY <1>1, <1>3, <1>5
<1>9. QED BY <1>6, <1>7, <1>8 DEF old

\* An id that leads to the right name moves the process to its next statement.
LEMMA GotIdTyped ==
  ASSUME TypeOK, NEW id \in Nat, GotId(id)
  PROVE  /\ ids' \in [Table -> Nat] /\ ids'[table] = id
         /\ \A t \in Table : t # table => ids'[t] = ids[t]
         /\ table' = "category"
         /\ step' = IF table = "amc" THEN "select" ELSE "upsert"
         /\ step' \in Steps /\ table' \in Table
BY DEF TypeOK, GotId, Table, Steps

\* With the id it got, the process knows what its next statement needs.
LEMMA GotIdPosition ==
  ASSUME TypeOK, Position, step \in {"select", "insert"}, UNCHANGED at,
         NEW id \in Nat, GotId(id),
         id \in DOMAIN names'[table], names'[table][id] = NameOf(at, table),
         \A t \in Table : \A i \in DOMAIN names[t] :
           i \in DOMAIN names'[t] /\ names'[t][i] = names[t][i]
  PROVE  Position'
<1>1. at \in Listed /\ at' = at
  BY DEF Position, Looping
<1>2. CASE table = "amc"
  <2>1. ids'["amc"] = id /\ step' = "select"
    BY <1>2, GotIdTyped
  <2>2. Refers("amc")'
    BY <1>1, <1>2, <2>1 DEF Refers, NameOf
  <2>3. QED BY <1>1, <2>1, <2>2 DEF Position, Looping
<1>3. CASE table = "category"
  <2>1. ids'["category"] = id /\ ids'["amc"] = ids["amc"] /\ step' = "upsert"
    BY <1>3, GotIdTyped DEF Table
  <2>2. Refers("category")'
    BY <1>1, <1>3, <2>1 DEF Refers, NameOf
  <2>3. Refers("amc")
    BY <1>3 DEF Position, Looping
  <2>4. Refers("amc")'
    BY <1>1, <2>1, <2>3 DEF Refers, NameOf, Table
  <2>5. QED BY <1>1, <2>1, <2>2, <2>4 DEF Position, Looping
<1>4. QED BY <1>2, <1>3 DEF TypeOK, Table

\* A start that stops is at its beginning.
LEMMA StopTyped ==
  ASSUME Stop
  PROVE  step' = "down" /\ at' = 1 /\ table' \in Table /\ ids' \in [Table -> Nat]
BY DEF Stop, Table

\* Every step keeps the types, and the process knows what it is about to use.
LEMMA TypeStep == TypeOK /\ Position /\ [Next]_vars => TypeOK' /\ Position'
<1> SUFFICES ASSUME TypeOK, Position, [Next]_vars PROVE TypeOK' /\ Position'
  OBVIOUS
<1>1. CASE Start
  BY <1>1 DEF Start, TypeOK, Position, Looping, Steps, tables
<1>2. CASE Migrate
  <2>1. windows' \subseteq SeedWindows /\ step' = "select" /\ at' = 1 /\ table' = "amc"
    BY <1>2 DEF Migrate, TypeOK
  <2>2. QED BY <1>2, <2>1, FirstListed DEF Migrate, TypeOK, Position, Looping, Steps, Table, Listed
<1>3. CASE SelectId
  <2>1. step = "select" /\ UNCHANGED <<tables, at, mishaps>> /\ at \in Listed
    BY <1>3 DEF SelectId, Position, Looping
  <2>2. CASE \E id \in DOMAIN names[table] : Found(id) /\ GotId(id)
    <3>1. PICK id \in DOMAIN names[table] : Found(id) /\ GotId(id)
      BY <2>2
    <3>2. id \in Nat
      BY <3>1 DEF TypeOK
    <3>3. TypeOK'
      BY <2>1, <3>1, <3>2, GotIdTyped DEF TypeOK, tables
    <3>4. Position'
      BY <2>1, <3>1, <3>2, GotIdPosition DEF Found, tables
    <3>5. QED BY <3>3, <3>4
  <2>3. CASE step' = "insert" /\ UNCHANGED <<table, ids>>
    BY <2>1, <2>3 DEF TypeOK, Position, Looping, Steps, Refers, NameOf, tables
  <2>4. QED BY <1>3, <2>2, <2>3 DEF SelectId
<1>4. CASE InsertName
  <2>1. /\ step = "insert" /\ UNCHANGED <<windows, funds, at, mishaps>> /\ at \in Listed
        /\ GotId(LastInsertId)
    BY <1>4 DEF InsertName, Position, Looping
  <2>2. LastInsertId \in Nat
    BY <1>4, InsertedNames
  <2>3. TypeOK'
    BY <1>4, <2>1, <2>2, InsertedNames, GotIdTyped DEF TypeOK
  <2>4. Position'
    BY <1>4, <2>1, <2>2, InsertedNames, GotIdPosition
  <2>5. QED BY <2>3, <2>4
<1>5. CASE UpsertFund
  <2>1. /\ step = "upsert" /\ funds' = Upserted /\ table' = "amc" /\ at' = at + 1
        /\ step' = (IF LastFund THEN "up" ELSE "select")
        /\ UNCHANGED <<windows, names, ids, mishaps>>
    BY <1>5 DEF UpsertFund
  <2>2. funds' \in Seq(FundRow) /\ at \in Listed
    BY <2>1, UpsertedRows, RowIsTracked
  <2>3. TypeOK'
    BY <2>1, <2>2 DEF TypeOK, Steps, Table
  <2>4. ~LastFund => at' \in Listed
    BY <2>1, <2>2, TrackedTyped DEF LastFund, Listed
  <2>5. QED BY <2>1, <2>3, <2>4 DEF Position, Looping
<1>6. CASE StartFails
  <2>1. mishaps' \in 0..MaxMishaps
    BY <1>6, CatalogBoundsAssumption DEF StartFails, TypeOK
  <2>2. QED BY <1>6, <2>1, StopTyped DEF StartFails, TypeOK, Position, Looping, Steps, tables
<1>7. CASE Crash
  <2>1. mishaps' \in 0..MaxMishaps
    BY <1>7, CatalogBoundsAssumption DEF Crash, TypeOK
  <2>2. QED BY <1>7, <2>1, StopTyped DEF Crash, TypeOK, Position, Looping, Steps, tables
<1>8. CASE UNCHANGED vars
  BY <1>8 DEF vars, TypeOK, Position, Looping, Refers, NameOf
<1>9. QED BY <1>1, <1>2, <1>3, <1>4, <1>5, <1>6, <1>7, <1>8 DEF Next, Boot

\* The first state has its types.
LEMMA TypeInit == Init => TypeOK /\ Position
<1> SUFFICES ASSUME Init PROVE TypeOK /\ Position
  OBVIOUS
<1>1. names \in [Table -> Seq(Names)] /\ funds \in Seq(FundRow)
  BY EmptySeq DEF Init
<1>2. QED BY <1>1, CatalogBoundsAssumption DEF Init, TypeOK, Position, Looping, Steps, Table

\* Every variable has its type, and every id that a statement uses is known by
\* then (InitializeTrackedFunds).
THEOREM TypeCorrect == Spec => []TypeOK
<1>1. QED BY TypeInit, TypeStep, PTL DEF Spec

-----------------------------------------------------------------------------
(* Soundness and completeness *)

\* Every step keeps the catalogue sound.
LEMMA SoundStep == TypeOK /\ Position /\ CatalogueSound /\ [Next]_vars => CatalogueSound'
<1> SUFFICES ASSUME TypeOK, Position, CatalogueSound, [Next]_vars PROVE CatalogueSound'
  OBVIOUS
<1>1. CASE UNCHANGED <<names, funds>>
  BY <1>1 DEF CatalogueSound, NoTwins, IsRowOf, NameOf
<1>2. CASE InsertName
  <2>1. NoTwins'
    <3> SUFFICES ASSUME NEW t \in Table, NEW i \in DOMAIN names'[t], NEW j \in DOMAIN names'[t],
                        names'[t][i] = names'[t][j]
                 PROVE  i = j
      BY DEF NoTwins
    <3>1. CASE t # table
      BY <1>2, <3>1, InsertedNames DEF CatalogueSound, NoTwins
    <3>2. CASE t = table
      <4>1. \A k \in DOMAIN names[t] : names'[t][k] = names[t][k] /\ names[t][k] # NameOf(at, t)
        BY <1>2, <3>2, InsertedNames DEF InsertName, NewName
      <4>2. \A k \in DOMAIN names'[t] :
              k \in DOMAIN names[t] \/ (k = LastInsertId /\ names'[t][k] = NameOf(at, t))
        BY <1>2, <3>2, InsertedNames
      <4>3. \A k, l \in DOMAIN names[t] : names[t][k] = names[t][l] => k = l
        BY DEF CatalogueSound, NoTwins
      <4>4. QED BY <4>1, <4>2, <4>3
    <3>3. QED BY <3>1, <3>2
  <2>2. funds' = funds /\ \A r, n : IsRowOf(r, n) => IsRowOf(r, n)'
    BY <1>2, InsertedNames, RowsKeepNames DEF InsertName
  <2>3. QED BY <2>1, <2>2 DEF CatalogueSound
<1>3. CASE UpsertFund
  <2>1. step = "upsert" /\ funds' = Upserted /\ names' = names
    BY <1>3 DEF UpsertFund
  <2>2. at \in Listed /\ Row.scheme = TrackedFunds[at].scheme /\ IsRowOf(Row, at)
    BY <2>1, RowIsTracked
  <2>3. NoTwins'
    BY <2>1 DEF CatalogueSound, NoTwins
  <2>4. ASSUME NEW i \in DOMAIN funds', NEW j \in DOMAIN funds', funds'[i].scheme = funds'[j].scheme
        PROVE  i = j
    <3>1. \A k \in DOMAIN funds : funds'[k].scheme = funds[k].scheme
      BY <2>1, UpsertedRows
    <3>2. \A k \in DOMAIN funds' : k \in DOMAIN funds \/
            (funds'[k].scheme = Row.scheme /\ \A l \in DOMAIN funds : funds[l].scheme # Row.scheme)
      BY <2>1, <2>2, UpsertedRows DEF Conflicts, Tracked
    <3>3. \A k, l \in DOMAIN funds : funds[k].scheme = funds[l].scheme => k = l
      BY DEF CatalogueSound
    <3>4. i \notin DOMAIN funds /\ j \notin DOMAIN funds => i = j
      BY <2>1, UpsertedRows
    <3>5. QED BY <2>4, <3>1, <3>2, <3>3, <3>4
  <2>5. ASSUME NEW i \in DOMAIN funds' PROVE \E n \in Listed : IsRowOf(funds[i], n)'
    <3>1. funds'[i] = Row \/ (i \in DOMAIN funds /\ funds'[i] = funds[i])
      BY <2>1, <2>5, UpsertedRows
    <3>2. PICK n \in Listed : IsRowOf(funds'[i], n)
      BY <2>2, <3>1 DEF CatalogueSound
    <3>3. IsRowOf(funds[i], n)'
      BY <2>1, <3>2 DEF IsRowOf, NameOf
    <3>4. QED BY <3>3
  <2>6. QED BY <2>3, <2>4, <2>5 DEF CatalogueSound
<1>4. QED
  BY <1>1, <1>2, <1>3 DEF Next, Boot, Start, Migrate, SelectId, StartFails, Crash, vars, tables

\* Every step keeps the rows that are there, and leaves behind the row of the
\* fund it goes on from.
LEMMA ProgressStep ==
  TypeOK /\ Position /\ Progress /\ [Next]_vars => Progress'
<1> SUFFICES ASSUME TypeOK, Position, Progress, [Next]_vars PROVE Progress'
  OBVIOUS
<1>1. CASE Start \/ StartFails \/ Crash
  BY <1>1 DEF Start, StartFails, Crash, Stop, Progress, Looping
<1>2. CASE Migrate
  <2>1. windows' = SeedWindows /\ step' = "select" /\ at' = 1
    BY <1>2 DEF Migrate, TypeOK
  <2>2. \A n \in Listed : ~(n < 1)
    BY TrackedTyped
  <2>3. QED BY <2>1, <2>2 DEF Progress, Looping
<1>3. CASE SelectId
  <2>1. step = "select" /\ step' \in {"select", "insert", "upsert"} /\ UNCHANGED <<tables, at>>
    BY <1>3 DEF SelectId, GotId
  <2>2. QED BY <2>1 DEF tables, Progress, Looping, HasRow, IsRowOf, NameOf
<1>4. CASE InsertName
  <2>1. step = "insert" /\ step' \in {"select", "upsert"} /\ UNCHANGED <<windows, funds, at>>
    BY <1>4 DEF InsertName, GotId
  <2>2. \A n \in Listed : HasRow(n) => HasRow(n)'
    <3>1. \A r, n : IsRowOf(r, n) => IsRowOf(r, n)'
      BY <1>4, InsertedNames, RowsKeepNames
    <3>2. QED BY <2>1, <3>1 DEF HasRow
  <2>3. QED BY <2>1, <2>2 DEF Progress, Looping
<1>5. CASE UpsertFund
  <2>1. /\ step = "upsert" /\ funds' = Upserted /\ names' = names /\ windows' = windows
        /\ at' = at + 1 /\ step' = (IF LastFund THEN "up" ELSE "select")
    BY <1>5 DEF UpsertFund
  <2>2. at \in Listed /\ IsRowOf(Row, at)
    BY <2>1, RowIsTracked
  <2>3. ASSUME NEW n \in Listed, HasRow(n) \/ n = at PROVE HasRow(n)'
    <3>1. \E i \in DOMAIN funds' : IsRowOf(funds'[i], n)
      <4>1. CASE n = at
        BY <2>1, <2>2, <4>1, UpsertedRows
      <4>2. CASE n # at
        <5>1. PICK i \in DOMAIN funds : IsRowOf(funds[i], n)
          BY <2>3, <4>2 DEF HasRow
        <5>2. funds[i].scheme # TrackedFunds[at].scheme
          BY <2>2, <4>2, <5>1, TrackedAssumption DEF IsRowOf
        <5>3. i \in DOMAIN funds' /\ funds'[i] = funds[i]
          BY <2>1, <5>2, UpsertedRows DEF Conflicts, Tracked
        <5>4. QED BY <5>1, <5>3
      <4>3. QED BY <4>1, <4>2
    <3>2. QED BY <2>1, <3>1 DEF HasRow, IsRowOf, NameOf
  <2>4. \A n \in Listed : n < at' => HasRow(n)'
    <3> SUFFICES ASSUME NEW n \in Listed, n < at' PROVE HasRow(n)'
      OBVIOUS
    <3>1. n < at \/ n = at
      BY <2>1, <2>2, TrackedTyped
    <3>2. QED BY <2>1, <2>3, <3>1 DEF Progress, Looping
  <2>5. LastFund => \A n \in Listed : n < at'
    BY <2>1, <2>2, TrackedTyped DEF LastFund
  <2>6. windows' = SeedWindows
    BY <2>1 DEF Progress, Looping
  <2>7. QED BY <2>1, <2>4, <2>5, <2>6 DEF Progress, Looping
<1>6. CASE UNCHANGED vars
  BY <1>6 DEF vars, Progress, Looping, HasRow, IsRowOf, NameOf
<1>7. QED BY <1>1, <1>2, <1>3, <1>4, <1>5, <1>6 DEF Next, Boot

\* The inductive invariant holds at every step.
LEMMA Invariance == Spec => []IInv
<1>1. Init => IInv
  <2> SUFFICES ASSUME Init PROVE IInv
    OBVIOUS
  <2>1. TypeOK /\ Position
    BY TypeInit
  <2>2. \A t \in Table : names[t] = <<>> /\ funds = <<>> /\ step = "down"
    BY DEF Init
  <2>3. CatalogueSound
    BY <2>2 DEF CatalogueSound, NoTwins, Table
  <2>4. Progress
    BY <2>2 DEF Progress, Looping, Table
  <2>5. QED BY <2>1, <2>3, <2>4 DEF IInv
<1>2. IInv /\ [Next]_vars => IInv'
  BY TypeStep, SoundStep, ProgressStep DEF IInv
<1>3. QED BY <1>1, <1>2, PTL DEF Spec

\* Wherever earlier starts broke off, no name and no fund is in its table twice
\* and every fund row leads to the names of its tracked fund
\* (InitializeTrackedFunds).
THEOREM SoundCatalogue == Spec => []CatalogueSound
<1>1. IInv => CatalogueSound
  BY DEF IInv
<1>2. QED BY <1>1, Invariance, PTL

\* The process serves only with a row for every tracked fund and all windows
\* (main, InitializeTrackedFunds).
THEOREM CompleteService == Spec => []ServesComplete
<1>1. IInv => ServesComplete
  BY DEF IInv, Progress, HasRow, ServesComplete
<1>2. QED BY <1>1, Invariance, PTL

\* No step takes a scheme away from its id (UpsertFund).
THEOREM StableIds == Spec => IdsStable
<1> DEFINE Stable == \A i \in DOMAIN funds :
                       i \in DOMAIN funds' /\ funds'[i].scheme = funds[i].scheme
<1>1. IInv /\ [Next]_vars => [Stable]_vars
  <2> SUFFICES ASSUME IInv, Next PROVE Stable
    OBVIOUS
  <2>1. CASE UpsertFund
    BY <2>1, UpsertedRows DEF UpsertFund, IInv
  <2>2. CASE UNCHANGED funds
    BY <2>2
  <2>3. QED
    BY <2>1, <2>2 DEF Next, Boot, Start, Migrate, SelectId, InsertName, StartFails, Crash, tables
<1>2. QED BY <1>1, Invariance, PTL DEF Spec, IdsStable

-----------------------------------------------------------------------------
(* A start and what earlier ones left *)

\* Nobody else adds the name that SELECT did not find.
NameIsNew == step = "insert" => NewName

\* Every statement of a start takes it nearer to serving, and the INSERT is
\* never rejected.
LEMMA GetsOnStep ==
  TypeOK /\ Position /\ NameIsNew /\ [Next]_vars =>
    /\ NameIsNew'
    /\ UNCHANGED vars \/ (step # "up" /\ mishaps' = mishaps => Remaining' < Remaining)
<1> SUFFICES ASSUME TypeOK, Position, NameIsNew, [Next]_vars
             PROVE  /\ NameIsNew'
                    /\ UNCHANGED vars \/ (step # "up" /\ mishaps' = mishaps => Remaining' < Remaining)
  OBVIOUS
<1> DEFINE N == Len(TrackedFunds)
<1>1. N \in Nat /\ Listed = 1..N
  BY FirstListed, TrackedTyped DEF Listed
<1>2. mishaps \in Nat /\ at \in Nat /\ (Looping => at \in 1..N)
  BY <1>1, CatalogBoundsAssumption DEF TypeOK, Position
<1> HIDE DEF N
<1>3. /\ step = "up" => Remaining = 0
      /\ step = "down" => Remaining = 5 * N + 2
      /\ step = "migrate" => Remaining = 5 * N + 1
      /\ step = "select" => Remaining = 5 * (N - at) + (IF table = "amc" THEN 5 ELSE 3)
      /\ step = "insert" => Remaining = 5 * (N - at) + (IF table = "amc" THEN 4 ELSE 2)
      /\ step = "upsert" => Remaining = 5 * (N - at) + 1
  BY DEF Remaining, Before, N
<1>4. /\ step' = "up" => Remaining' = 0
      /\ step' = "migrate" => Remaining' = 5 * N + 1
      /\ step' = "select" => Remaining' = 5 * (N - at') + (IF table' = "amc" THEN 5 ELSE 3)
      /\ step' = "insert" => Remaining' = 5 * (N - at') + (IF table' = "amc" THEN 4 ELSE 2)
      /\ step' = "upsert" => Remaining' = 5 * (N - at') + 1
  BY DEF Remaining, Before, N
<1>5. CASE Start
  BY <1>1, <1>3, <1>4, <1>5 DEF Start, NameIsNew
<1>6. CASE Migrate
  BY <1>1, <1>3, <1>4, <1>6 DEF Migrate, NameIsNew
<1>7. CASE SelectId
  <2>1. step = "select" /\ UNCHANGED <<names, at>> /\ at \in 1..N
    BY <1>2, <1>7 DEF SelectId, tables, Looping
  <2>2. ASSUME NEW id, GotId(id)
        PROVE  /\ step' = (IF table = "amc" THEN "select" ELSE "upsert") /\ table' = "category"
    BY <2>2 DEF GotId
  <2>3. CASE \E id \in DOMAIN names[table] : Found(id) /\ GotId(id)
    BY <1>1, <1>3, <1>4, <2>1, <2>2, <2>3 DEF NameIsNew
  <2>4. CASE /\ \A id \in DOMAIN names[table] : ~Found(id)
             /\ step' = "insert" /\ UNCHANGED <<table, ids>>
    <3>1. NewName'
      BY <2>1, <2>4 DEF NewName, Found, NameOf
    <3>2. QED BY <1>1, <1>3, <1>4, <2>1, <2>4, <3>1 DEF NameIsNew
  <2>5. QED BY <1>7, <2>3, <2>4 DEF SelectId
<1>8. CASE InsertName
  <2>1. /\ step = "insert" /\ at' = at /\ at \in 1..N /\ table' = "category"
        /\ step' = (IF table = "amc" THEN "select" ELSE "upsert")
    BY <1>2, <1>8 DEF InsertName, GotId, Looping
  <2>2. QED BY <1>1, <1>3, <1>4, <2>1 DEF NameIsNew
<1>9. CASE UpsertFund
  <2>1. /\ step = "upsert" /\ at' = at + 1 /\ at \in 1..N /\ table' = "amc"
        /\ step' = (IF LastFund THEN "up" ELSE "select")
    BY <1>2, <1>9 DEF UpsertFund, Looping
  <2>2. QED BY <1>1, <1>3, <1>4, <2>1 DEF NameIsNew
<1>10. CASE StartFails
  <2>1. step' = "down" /\ mishaps' = mishaps + 1
    BY <1>10 DEF StartFails, Stop, NameIsNew
  <2>2. QED BY <1>2, <2>1 DEF NameIsNew
<1>11. CASE Crash
  BY <1>2, <1>11 DEF Crash, Stop, NameIsNew
<1>12. CASE UNCHANGED vars
  BY <1>12 DEF vars, NameIsNew, NewName, NameOf
<1>13. QED BY <1>5, <1>6, <1>7, <1>8, <1>9, <1>10, <1>11, <1>12 DEF Next, Boot

\* Whatever earlier starts left behind, no statement of a start is rejected, and
\* each of them leaves fewer to come: after finitely many the process serves,
\* unless it is stopped (GetOrCreateAMC, GetOrCreateCategory).
THEOREM GetsOn == Spec => StartGetsOn
<1>1. Init => NameIsNew
  BY DEF Init, NameIsNew
<1>2. IInv /\ NameIsNew /\ [Next]_vars =>
        /\ NameIsNew'
        /\ [step # "up" /\ mishaps' = mishaps => Remaining' < Remaining]_vars
  BY GetsOnStep DEF IInv
<1>3. QED BY <1>1, <1>2, Invariance, PTL DEF Spec, StartGetsOn
=============================================================================
