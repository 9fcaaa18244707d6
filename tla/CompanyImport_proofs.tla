------------------------ MODULE CompanyImport_proofs ------------------------
(***************************************************************************)
(* Theorems about CompanyImport, for any requests, files and websites, and *)
(* however often the database fails or a request dies.                     *)
(***************************************************************************)
EXTENDS CompanyImport, FiniteSetTheorems, SequenceTheorems, TLAPS

Outcomes == {"created", "skipped_existing", "skipped_invalid", "failed"}

\* The shape of what the requests keep.
Typed ==
  /\ pc \in [Requests -> {"new", "checking", "inserting", "refused", "dead"}]
  /\ outcomes \in [Requests -> Seq(Outcomes)]
  /\ rows = [q \in Requests |-> rows[q]]
  /\ file = [q \in Requests |-> file[q]]

\* A request reports on its rows one after the other, and inserts only what
\* is valid.
Progress ==
  \A q \in Requests :
    /\ pc[q] \in {"new", "refused"} => outcomes[q] = <<>>
    /\ DOMAIN outcomes[q] \subseteq DOMAIN rows[q]
    /\ pc[q] = "inserting" => HasRow(q) /\ Row(q).status = "valid"

\* Row i of a request is valid and about a domain.
About(q, i, d) == rows[q][i].status = "valid" /\ Domain(q, i) = d
Reported(q, i, outcome) == i \in DOMAIN outcomes[q] /\ outcomes[q][i] = outcome

\* Who is told of a creation made it, and nobody else is told.
Claims ==
  /\ \A q \in Requests : \A i \in DOMAIN outcomes[q] : Reported(q, i, "created") =>
       /\ rows[q][i].status = "valid"
       /\ Domain(q, i) \in DOMAIN store \ DOMAIN AtFirst
       /\ store[Domain(q, i)] = rows[q][i].country
  /\ \A q, p \in Requests : \A i \in DOMAIN outcomes[q], j \in DOMAIN outcomes[p] :
       Reported(q, i, "created") /\ Reported(p, j, "created") /\ Domain(q, i) = Domain(p, j)
         => q = p /\ i = j

\* Every company that was not there at first comes from a valid row, one that
\* was reported as created or failed, or at which its request died.
MadeBy(q, i, d) ==
  /\ pc[q] # "new" /\ i \in DOMAIN rows[q]
  /\ About(q, i, d) /\ rows[q][i].country = store[d]
  /\ \/ Reported(q, i, "created") \/ Reported(q, i, "failed")
     \/ pc[q] = "dead" /\ i = Position(q)

Origins ==
  /\ DOMAIN AtFirst \subseteq DOMAIN store
  /\ \A d \in DOMAIN store \ DOMAIN AtFirst :
       \E q \in Requests : \E i \in DOMAIN rows[q] : MadeBy(q, i, d)

IInv == Typed /\ Progress /\ Claims /\ Origins

-----------------------------------------------------------------------------
(* What a step does, whichever action it is.                               *)

\* The store after an insert of the row a request is at.
Stored(q) ==
  LET d == Domain(q, Position(q)) IN
  /\ DOMAIN store' = DOMAIN store \cup {d}
  /\ \A e \in DOMAIN store : store'[e] = store[e]
  /\ d \notin DOMAIN store => store'[d] = Row(q).country

Starts(q) ==
  /\ pc[q] = "new" /\ pc' = [pc EXCEPT ![q] = pc'[q]] /\ pc'[q] \in {"checking", "refused"}
  /\ rows' = [rows EXCEPT ![q] = rows'[q]] /\ file' = [file EXCEPT ![q] = file'[q]]
  /\ UNCHANGED <<outcomes, store>>

Answers(q) ==
  /\ pc[q] \in {"checking", "inserting"} /\ HasRow(q)
  /\ \E o \in Outcomes :
       /\ Report(q, o)
       /\ \/ o = "skipped_invalid" /\ Row(q).status = "invalid" /\ UNCHANGED store
          \/ /\ o = "skipped_existing" /\ UNCHANGED store
             /\ Row(q).status # "valid" /\ Row(q).status # "invalid"
          \/ /\ o = "skipped_existing" /\ Row(q).status = "valid"
             /\ Domain(q, Position(q)) \in DOMAIN store /\ (Stored(q) \/ UNCHANGED store)
          \/ o = "failed" /\ Row(q).status = "valid" /\ (Stored(q) \/ UNCHANGED store)
          \/ /\ o = "created" /\ Row(q).status = "valid"
             /\ Domain(q, Position(q)) \notin DOMAIN store /\ Stored(q)

Moves(q) ==
  /\ pc[q] \in {"checking", "inserting"}
  /\ \/ pc' = [pc EXCEPT ![q] = "inserting"] /\ HasRow(q) /\ Row(q).status = "valid" /\ UNCHANGED store
     \/ pc' = [pc EXCEPT ![q] = "dead"] /\ UNCHANGED store
     \/ pc' = [pc EXCEPT ![q] = "dead"] /\ HasRow(q) /\ Row(q).status = "valid" /\ Stored(q)
  /\ UNCHANGED <<file, rows, outcomes>>

LEMMA InsertStores ==
  ASSUME NEW q \in Requests, Insert(q)
  PROVE  Stored(q)
<1>1. DOMAIN store' = DOMAIN store \cup {Domain(q, Position(q))}  BY DEF Insert
<1>2. ASSUME NEW e \in DOMAIN store PROVE store'[e] = store[e]  BY DEF Insert
<1>3. Domain(q, Position(q)) \notin DOMAIN store
        => store'[Domain(q, Position(q))] = Row(q).country
  BY DEF Insert
<1> QED  BY <1>1, <1>2, <1>3 DEF Stored

LEMMA StepKinds ==
  ASSUME Typed, Progress, [Next]_vars
  PROVE  \/ \E q \in Requests : Starts(q) \/ Answers(q) \/ Moves(q)
         \/ UNCHANGED vars
<1>1. ASSUME NEW q \in Importers, SubmitFile(q) PROVE Starts(q)
  <2>1. q \in Requests  BY DEF Requests
  <2>2. PICK f \in Files :
          /\ file' = [file EXCEPT ![q] = f]
          /\ \/ pc' = [pc EXCEPT ![q] = "refused"] /\ UNCHANGED rows
             \/ /\ pc' = [pc EXCEPT ![q] = "checking"]
                /\ rows' = [rows EXCEPT ![q] = PreviewRows(ParseRawRows(f))]
    BY <1>1 DEF SubmitFile
  <2>3. rows' = [rows EXCEPT ![q] = rows'[q]]  BY <2>1, <2>2 DEF Typed
  <2>4. file' = [file EXCEPT ![q] = file'[q]]  BY <2>1, <2>2 DEF Typed
  <2>5. pc' = [pc EXCEPT ![q] = pc'[q]] /\ pc'[q] \in {"checking", "refused"}
    BY <2>1, <2>2 DEF Typed
  <2> QED  BY <1>1, <2>3, <2>4, <2>5 DEF SubmitFile, Starts
<1>2. ASSUME NEW c \in Clients, SubmitCompany(c) PROVE Starts(c)
  <2>1. c \in Requests  BY DEF Requests
  <2>2. rows' = [rows EXCEPT ![c] = rows'[c]]  BY <1>2, <2>1 DEF SubmitCompany, Typed
  <2>3. file' = [file EXCEPT ![c] = file'[c]]  BY <1>2, <2>1 DEF SubmitCompany, Typed
  <2> QED  BY <1>2, <2>1, <2>2, <2>3 DEF SubmitCompany, Starts, Typed
<1>3. ASSUME NEW q \in Requests, SkipRow(q) PROVE Answers(q)
  <2>1. CASE Row(q).status = "invalid"
    <3>1. Report(q, "skipped_invalid")  BY <1>3, <2>1 DEF SkipRow
    <3> QED  BY <1>3, <2>1, <3>1 DEF SkipRow, Answers, Outcomes
  <2>2. CASE Row(q).status # "invalid"
    <3>1. Report(q, "skipped_existing")  BY <1>3, <2>2 DEF SkipRow
    <3> QED  BY <1>3, <2>2, <3>1 DEF SkipRow, Answers, Outcomes
  <2> QED  BY <2>1, <2>2
<1>4. ASSUME NEW q \in Requests, CheckCompany(q) PROVE Answers(q) \/ Moves(q)
  <2>1. CASE Domain(q, Position(q)) \in DOMAIN store
    <3>1. Report(q, "skipped_existing")  BY <1>4, <2>1 DEF CheckCompany
    <3> QED  BY <1>4, <2>1, <3>1 DEF CheckCompany, Answers, Outcomes
  <2>2. CASE Domain(q, Position(q)) \notin DOMAIN store
    BY <1>4, <2>2 DEF CheckCompany, Moves
  <2> QED  BY <2>1, <2>2
<1>5. ASSUME NEW q \in Requests, InsertCompany(q) PROVE Answers(q)
  <2>1. Stored(q)  BY <1>5, InsertStores DEF InsertCompany
  <2>2. HasRow(q) /\ Row(q).status = "valid"  BY <1>5 DEF Progress, InsertCompany
  <2>3. CASE Domain(q, Position(q)) \in DOMAIN store
    <3>1. Report(q, "skipped_existing")  BY <1>5, <2>3 DEF InsertCompany
    <3> QED  BY <1>5, <2>1, <2>2, <2>3, <3>1 DEF InsertCompany, Answers, Outcomes
  <2>4. CASE Domain(q, Position(q)) \notin DOMAIN store
    <3>1. Report(q, "created")  BY <1>5, <2>4 DEF InsertCompany
    <3> QED  BY <1>5, <2>1, <2>2, <2>4, <3>1 DEF InsertCompany, Answers, Outcomes
  <2> QED  BY <2>3, <2>4
<1>6. ASSUME NEW q \in Requests, FailRow(q) PROVE Answers(q)
  <2>1. HasRow(q) /\ Row(q).status = "valid" /\ pc[q] \in {"checking", "inserting"}
    BY <1>6 DEF Progress, FailRow
  <2>2. Stored(q) \/ UNCHANGED store  BY <1>6, InsertStores DEF FailRow
  <2>3. Report(q, "failed")  BY <1>6 DEF FailRow
  <2> QED  BY <2>1, <2>2, <2>3 DEF Answers, Outcomes
<1>7. ASSUME NEW q \in Requests, Die(q) PROVE Moves(q)
  <2>1. CASE pc[q] = "inserting" /\ Insert(q)
    <3>1. HasRow(q) /\ Row(q).status = "valid"  BY <2>1 DEF Progress
    <3>2. Stored(q)  BY <2>1, InsertStores
    <3> QED  BY <1>7, <3>1, <3>2 DEF Die, Moves
  <2>2. CASE UNCHANGED store  BY <1>7, <2>2 DEF Die, Moves
  <2> QED  BY <1>7, <2>1, <2>2 DEF Die
<1>8. Importers \subseteq Requests /\ Clients \subseteq Requests  BY DEF Requests
<1> QED  BY <1>1, <1>2, <1>3, <1>4, <1>5, <1>6, <1>7, <1>8 DEF Next

\* Rows are given to a request once, and what it reported stays.
LEMMA RowsStay ==
  ASSUME Typed, Progress, NEW p \in Requests, Starts(p) \/ Answers(p) \/ Moves(p),
         NEW q \in Requests
  PROVE  /\ pc[q] # "new" => pc'[q] # "new" /\ rows'[q] = rows[q]
         /\ ~Answers(p) \/ q # p => outcomes'[q] = outcomes[q]
         /\ DOMAIN outcomes[q] \subseteq DOMAIN outcomes'[q]
         /\ \A i \in DOMAIN outcomes[q] : outcomes'[q][i] = outcomes[q][i]
<1>1. CASE Starts(p)  BY <1>1 DEF Typed, Starts
<1>2. CASE Moves(p)  BY <1>2 DEF Typed, Moves
<1>3. CASE Answers(p)
  <2>1. PICK o \in Outcomes : Report(p, o)  BY <1>3 DEF Answers
  <2>2. outcomes[p] \in Seq(Outcomes) /\ outcomes' = [outcomes EXCEPT ![p] = Append(outcomes[p], o)]
    BY <2>1 DEF Typed, Report
  <2>3. CASE q = p
    <3>1. outcomes'[q] = Append(outcomes[q], o)  BY <2>2, <2>3 DEF Typed
    <3>2. DOMAIN outcomes[q] = 1..Len(outcomes[q]) /\ Len(outcomes[q]) \in Nat
      BY <2>2, <2>3, LenProperties
    <3>3. DOMAIN outcomes'[q] = 1..(Len(outcomes[q]) + 1)
      BY <2>2, <2>3, <3>1, AppendProperties, LenProperties
    <3>4. \A i \in DOMAIN outcomes[q] : outcomes'[q][i] = outcomes[q][i]
      BY <2>2, <2>3, <3>1, <3>2, AppendProperties
    <3> QED  BY <1>3, <2>1, <2>3, <3>2, <3>3, <3>4 DEF Typed, Report
  <2>4. CASE q # p  BY <2>1, <2>2, <2>4 DEF Typed, Report
  <2> QED  BY <2>3, <2>4
<1> QED  BY <1>1, <1>2, <1>3

\* The report of a step is about the row its request was at.
LEMMA ReportAdds ==
  ASSUME Typed, Progress, NEW q \in Requests, NEW o \in Outcomes, Report(q, o), HasRow(q)
  PROVE  /\ Position(q) \in Nat \ {0} /\ Position(q) \notin DOMAIN outcomes[q]
         /\ DOMAIN outcomes'[q] = DOMAIN outcomes[q] \cup {Position(q)}
         /\ outcomes'[q][Position(q)] = o
         /\ outcomes'[q] \in Seq(Outcomes)
         /\ pc'[q] = "checking" /\ rows' = rows
<1>1. outcomes[q] \in Seq(Outcomes)  BY DEF Typed
<1>2. outcomes'[q] = Append(outcomes[q], o)  BY DEF Typed, Report
<1>3. Len(outcomes[q]) \in Nat /\ DOMAIN outcomes[q] = 1..Len(outcomes[q])  BY <1>1, LenProperties
<1>4. outcomes'[q] \in Seq(Outcomes) /\ Len(outcomes'[q]) = Len(outcomes[q]) + 1
        /\ outcomes'[q][Len(outcomes[q]) + 1] = o
  BY <1>1, <1>2, AppendProperties
<1>5. DOMAIN outcomes'[q] = 1..(Len(outcomes[q]) + 1)  BY <1>4, LenProperties
<1>6. pc'[q] = "checking" /\ rows' = rows  BY DEF Typed, Report
<1> QED  BY <1>3, <1>4, <1>5, <1>6 DEF Position

\* The store only grows, by the domain of the valid row a request is at.
LEMMA StoreGrows ==
  ASSUME NEW p \in Requests, Starts(p) \/ Answers(p) \/ Moves(p)
  PROVE  /\ DOMAIN store \subseteq DOMAIN store'
         /\ \A d \in DOMAIN store : store'[d] = store[d]
         /\ DOMAIN store' \subseteq DOMAIN store \cup {Domain(p, Position(p))}
         /\ \A d \in DOMAIN store' \ DOMAIN store :
              HasRow(p) /\ About(p, Position(p), d) /\ store'[d] = rows[p][Position(p)].country
<1>1. CASE Starts(p)  BY <1>1 DEF Starts
<1>2. CASE UNCHANGED store  BY <1>2
<1>3. CASE Stored(p) /\ HasRow(p) /\ Row(p).status = "valid"
  BY <1>3 DEF Stored, About, Row
<1>4. CASE Answers(p)  BY <1>2, <1>3, <1>4 DEF Answers
<1>5. CASE Moves(p)  BY <1>2, <1>3, <1>5 DEF Moves
<1> QED  BY <1>1, <1>4, <1>5

-----------------------------------------------------------------------------
(* Every step keeps the invariant.                                         *)

LEMMA StepShape ==
  ASSUME Typed, Progress, NEW p \in Requests, Starts(p) \/ Answers(p) \/ Moves(p)
  PROVE  Typed' /\ Progress'
<1>1. CASE Starts(p)
  <2>1. Typed'  BY <1>1 DEF Typed, Starts
  <2>2. outcomes[p] = <<>> /\ pc'[p] # "inserting"
    BY <1>1 DEF Progress, Starts
  <2>3. ASSUME NEW q \in Requests
        PROVE  /\ pc'[q] \in {"new", "refused"} => outcomes'[q] = <<>>
               /\ DOMAIN outcomes'[q] \subseteq DOMAIN rows'[q]
               /\ pc'[q] = "inserting" => HasRow(q)' /\ Row(q)'.status = "valid"
    <3>1. CASE q = p
      <4>1. outcomes'[q] = <<>> /\ DOMAIN <<>> = {}  BY <1>1, <2>2, <3>1 DEF Starts
      <4> QED  BY <2>2, <3>1, <4>1
    <3>2. CASE q # p
      <4>1. pc'[q] = pc[q] /\ rows'[q] = rows[q] /\ outcomes'[q] = outcomes[q]
        BY <1>1, <3>2 DEF Starts, Typed
      <4> QED  BY <4>1 DEF Progress, HasRow, Row, Position
    <3> QED  BY <3>1, <3>2
  <2> QED  BY <2>1, <2>3 DEF Progress
<1>2. CASE Moves(p)
  <2>1. Typed'  BY <1>2 DEF Typed, Moves
  <2>2. Progress'  BY <1>2 DEF Typed, Progress, Moves, HasRow, Row, Position
  <2> QED  BY <2>1, <2>2
<1>3. CASE Answers(p)
  <2>1. PICK o \in Outcomes : Report(p, o)  BY <1>3 DEF Answers
  <2>2. HasRow(p)  BY <1>3 DEF Answers
  <2>3. Typed'
    BY <2>1, <2>2, ReportAdds DEF Typed, Report
  <2>4. ASSUME NEW q \in Requests
        PROVE  /\ pc'[q] \in {"new", "refused"} => outcomes'[q] = <<>>
               /\ DOMAIN outcomes'[q] \subseteq DOMAIN rows'[q]
               /\ pc'[q] = "inserting" => HasRow(q)' /\ Row(q)'.status = "valid"
    <3>1. CASE q = p
      BY <2>1, <2>2, <3>1, ReportAdds DEF Progress, HasRow
    <3>2. CASE q # p
      <4>1. pc'[q] = pc[q] /\ rows'[q] = rows[q] /\ outcomes'[q] = outcomes[q]
        BY <2>1, <3>2 DEF Report, Typed
      <4> QED  BY <4>1 DEF Progress, HasRow, Row, Position
    <3> QED  BY <3>1, <3>2
  <2> QED  BY <2>3, <2>4 DEF Progress
<1> QED  BY <1>1, <1>2, <1>3

\* A report of a creation that is new is the one of the step's own request,
\* for a domain the store did not have.
LEMMA NewClaim ==
  ASSUME Typed, Progress, NEW p \in Requests, Starts(p) \/ Answers(p) \/ Moves(p),
         NEW q \in Requests, NEW i \in DOMAIN outcomes'[q], Reported(q, i, "created")',
         ~Reported(q, i, "created")
  PROVE  /\ q = p /\ i = Position(p) /\ About(p, i, Domain(p, i))
         /\ rows' = rows
         /\ Domain(p, i) \in DOMAIN store' \ DOMAIN store
<1>1. i \notin DOMAIN outcomes[q]  BY RowsStay DEF Reported
<1>2. Answers(p) /\ q = p  BY <1>1, RowsStay
<1>3. PICK o \in Outcomes :
        /\ Report(p, o)
        /\ o = "created" => /\ Row(p).status = "valid"
                            /\ Domain(p, Position(p)) \notin DOMAIN store /\ Stored(p)
  BY <1>2 DEF Answers
<1>4. HasRow(p)  BY <1>2 DEF Answers
<1>5. i = Position(p) /\ o = "created" /\ rows' = rows
  BY <1>1, <1>2, <1>3, <1>4, ReportAdds DEF Reported
<1> QED  BY <1>2, <1>3, <1>5 DEF Stored, About, Row

LEMMA StepClaims ==
  ASSUME IInv, NEW p \in Requests, Starts(p) \/ Answers(p) \/ Moves(p)
  PROVE  Claims'
<1> USE DEF IInv
<1>1. ASSUME NEW q \in Requests, NEW i \in DOMAIN outcomes'[q], Reported(q, i, "created")',
             Reported(q, i, "created")
      PROVE  /\ rows'[q] = rows[q] /\ rows[q][i].status = "valid" /\ Domain(q, i)' = Domain(q, i)
             /\ Domain(q, i) \in DOMAIN store \ DOMAIN AtFirst
             /\ store[Domain(q, i)] = rows[q][i].country
  <2>1. i \in DOMAIN outcomes[q]  BY <1>1 DEF Reported
  <2>2. pc[q] # "new"
    <3>1. DOMAIN <<>> = {}  OBVIOUS
    <3> QED  BY <2>1, <3>1 DEF Progress
  <2>3. rows'[q] = rows[q]  BY <2>2, RowsStay
  <2> QED  BY <1>1, <2>1, <2>3 DEF Claims, Domain
<1>2. ASSUME NEW q \in Requests, NEW i \in DOMAIN outcomes'[q], Reported(q, i, "created")'
      PROVE  /\ rows'[q][i].status = "valid"
             /\ Domain(q, i)' \in DOMAIN store' \ DOMAIN AtFirst
             /\ store'[Domain(q, i)'] = rows'[q][i].country
  <2>1. CASE Reported(q, i, "created")
    <3>1. Domain(q, i)' \in DOMAIN store' /\ store'[Domain(q, i)] = store[Domain(q, i)]
      BY <1>1, <1>2, <2>1, StoreGrows
    <3> QED  BY <1>1, <1>2, <2>1, <3>1
  <2>2. CASE ~Reported(q, i, "created")
    <3>1. /\ q = p /\ i = Position(p) /\ About(p, i, Domain(p, i)) /\ rows' = rows
          /\ Domain(p, i) \in DOMAIN store' \ DOMAIN store
      BY <1>2, <2>2, NewClaim
    <3>2. store'[Domain(p, i)] = rows[p][i].country  BY <3>1, StoreGrows
    <3>3. Domain(p, i)' = Domain(p, i)  BY <3>1 DEF Domain
    <3> QED  BY <3>1, <3>2, <3>3 DEF About, Origins
  <2> QED  BY <2>1, <2>2
<1>3. ASSUME NEW q \in Requests, NEW r \in Requests,
             NEW i \in DOMAIN outcomes'[q], NEW j \in DOMAIN outcomes'[r],
             Reported(q, i, "created")', Reported(r, j, "created")', Domain(q, i)' = Domain(r, j)'
      PROVE  q = r /\ i = j
  <2>1. CASE Reported(q, i, "created") /\ Reported(r, j, "created")
    <3>1. Domain(q, i) = Domain(r, j)  BY <1>1, <1>3, <2>1
    <3> QED  BY <2>1, <3>1 DEF Claims, Reported
  <2>2. CASE Reported(q, i, "created") /\ ~Reported(r, j, "created")
    <3>1. Domain(q, i)' \in DOMAIN store  BY <1>1, <1>3, <2>2
    <3>2. r = p /\ rows' = rows /\ Domain(r, j) \notin DOMAIN store  BY <1>3, <2>2, NewClaim
    <3> QED  BY <1>3, <3>1, <3>2 DEF Domain
  <2>3. CASE ~Reported(q, i, "created") /\ Reported(r, j, "created")
    <3>1. Domain(r, j)' \in DOMAIN store  BY <1>1, <1>3, <2>3
    <3>2. q = p /\ rows' = rows /\ Domain(q, i) \notin DOMAIN store  BY <1>3, <2>3, NewClaim
    <3> QED  BY <1>3, <3>1, <3>2 DEF Domain
  <2>4. CASE ~Reported(q, i, "created") /\ ~Reported(r, j, "created")
    BY <1>3, <2>4, NewClaim
  <2> QED  BY <2>1, <2>2, <2>3, <2>4
<1> QED  BY <1>2, <1>3 DEF Claims

LEMMA StepOrigins ==
  ASSUME IInv, NEW p \in Requests, Starts(p) \/ Answers(p) \/ Moves(p)
  PROVE  Origins'
<1> USE DEF IInv
<1>1. DOMAIN AtFirst \subseteq DOMAIN store'  BY StoreGrows DEF Origins
<1>2. ASSUME NEW d \in DOMAIN store, d \notin DOMAIN AtFirst
      PROVE  \E q \in Requests : \E i \in DOMAIN rows'[q] : MadeBy(q, i, d)'
  <2>1. PICK q \in Requests : \E i \in DOMAIN rows[q] : MadeBy(q, i, d)  BY <1>2 DEF Origins
  <2>2. PICK i \in DOMAIN rows[q] : MadeBy(q, i, d)  BY <2>1
  <2>3. pc'[q] # "new" /\ rows'[q] = rows[q] /\ store'[d] = store[d]
    BY <2>2, RowsStay, StoreGrows DEF MadeBy
  <2>4. About(q, i, d)' /\ rows'[q][i].country = store'[d] /\ i \in DOMAIN rows'[q]
    BY <2>2, <2>3 DEF MadeBy, About, Domain
  <2>5. CASE \E o \in {"created", "failed"} : Reported(q, i, o)
    <3>1. PICK o \in {"created", "failed"} : Reported(q, i, o)  BY <2>5
    <3>2. Reported(q, i, o)'  BY <3>1, RowsStay DEF Reported
    <3> QED  BY <2>3, <2>4, <3>1, <3>2 DEF MadeBy
  <2>6. CASE pc[q] = "dead" /\ i = Position(q)
    <3>1. pc'[q] = "dead" /\ outcomes'[q] = outcomes[q]
      <4>1. q # p  BY <2>6 DEF Starts, Answers, Moves
      <4>2. pc'[q] = pc[q]  BY <4>1 DEF Starts, Answers, Moves, Report, Typed
      <4> QED  BY <2>6, <4>1, <4>2, RowsStay
    <3>2. i = Position(q)'  BY <2>6, <3>1 DEF Position
    <3> QED  BY <2>3, <2>4, <3>1, <3>2 DEF MadeBy
  <2> QED  BY <2>2, <2>5, <2>6 DEF MadeBy
<1>3. ASSUME NEW d \in DOMAIN store' \ DOMAIN store
      PROVE  \E q \in Requests : \E i \in DOMAIN rows'[q] : MadeBy(q, i, d)'
  <2>1. PICK i : i = Position(p)  OBVIOUS
  <2>2. i \in DOMAIN rows[p] /\ About(p, i, d) /\ store'[d] = rows[p][i].country
    BY <1>3, <2>1, StoreGrows DEF HasRow
  <2>3. CASE Answers(p)
    <3>1. PICK o \in {"created", "failed", "skipped_existing"} :
            Report(p, o) /\ (o = "skipped_existing" => DOMAIN store' = DOMAIN store)
      BY <1>3, <2>3 DEF Answers, Stored
    <3>2. o \in {"created", "failed"} /\ o \in Outcomes  BY <1>3, <3>1 DEF Outcomes
    <3>3. i \in DOMAIN outcomes'[p] /\ outcomes'[p][i] = o /\ pc'[p] = "checking" /\ rows' = rows
      BY <2>1, <2>2, <3>1, <3>2, ReportAdds DEF HasRow
    <3>4. MadeBy(p, i, d)'
      BY <2>2, <3>2, <3>3 DEF MadeBy, Reported, About, Domain
    <3> QED  BY <2>2, <3>3, <3>4
  <2>4. CASE Moves(p)
    <3>1. pc'[p] = "dead" /\ rows' = rows /\ outcomes' = outcomes
      BY <1>3, <2>4 DEF Moves, Typed
    <3>2. MadeBy(p, i, d)'
      BY <2>1, <2>2, <3>1 DEF MadeBy, About, Domain, Position
    <3> QED  BY <2>2, <3>1, <3>2
  <2>5. CASE Starts(p)  BY <1>3, <2>5 DEF Starts
  <2> QED  BY <2>3, <2>4, <2>5
<1> QED  BY <1>1, <1>2, <1>3 DEF Origins

LEMMA InitIInv == Init => IInv
<1> SUFFICES ASSUME Init PROVE IInv  OBVIOUS
<1>1. DOMAIN <<>> = {}  OBVIOUS
<1>2. Typed  BY EmptySeq DEF Init, Typed
<1>3. Progress  BY <1>1 DEF Init, Progress
<1>4. Claims /\ Origins  BY <1>1 DEF Init, Claims, Origins
<1> QED  BY <1>2, <1>3, <1>4 DEF IInv

LEMMA StepIInv == IInv /\ [Next]_vars => IInv'
<1> SUFFICES ASSUME IInv, [Next]_vars PROVE IInv'  OBVIOUS
<1>1. CASE UNCHANGED vars
  BY <1>1 DEF vars, IInv, Typed, Progress, HasRow, Row, Position, Claims, Reported,
              Origins, MadeBy, About, Domain
<1>2. ASSUME NEW p \in Requests, Starts(p) \/ Answers(p) \/ Moves(p) PROVE IInv'
  BY <1>2, StepShape, StepClaims, StepOrigins DEF IInv
<1> QED  BY <1>1, <1>2, StepKinds DEF IInv

THEOREM Invariance == Spec => []IInv
BY InitIInv, StepIInv, PTL DEF Spec

-----------------------------------------------------------------------------
(* Of all who want a company at most one is told that it created it, its   *)
(* data are stored, and a company nobody claims has a creator who was told *)
(* of a failure, or nothing (OneCreator).                                  *)

LEMMA ClaimsOfDomain ==
  ASSUME IInv, NEW d
  PROVE  /\ Cardinality(RowsFor(d, "created")) <= 1
         /\ \A r \in RowsFor(d, "created") :
              d \in DOMAIN store \ DOMAIN AtFirst /\ store[d] = rows[r[1]][r[2]].country
<1> DEFINE claims == RowsFor(d, "created")
<1>1. ASSUME NEW r \in claims
      PROVE  /\ r = <<r[1], r[2]>> /\ r[1] \in Requests /\ r[2] \in DOMAIN outcomes[r[1]]
             /\ Reported(r[1], r[2], "created") /\ Domain(r[1], r[2]) = d
  BY DEF RowsFor, Reported
<1>2. ASSUME NEW r \in claims, NEW s \in claims PROVE r = s
  BY <1>1 DEF IInv, Claims
<1>3. Cardinality(claims) <= 1
  <2>1. CASE claims = {}  BY <2>1, FS_EmptySet
  <2>2. CASE claims # {}
    <3>1. PICK r : r \in claims  BY <2>2
    <3>2. claims = {r}  BY <1>2, <3>1
    <3>3. Cardinality({r}) = 1  BY FS_Singleton
    <3> QED  BY <3>2, <3>3
  <2> QED  BY <2>1, <2>2
<1>4. \A r \in claims : d \in DOMAIN store \ DOMAIN AtFirst /\ store[d] = rows[r[1]][r[2]].country
  BY <1>1 DEF IInv, Claims
<1> QED  BY <1>3, <1>4

LEMMA CreatorOfDomain ==
  ASSUME IInv, NEW d \in DOMAIN store \ DOMAIN AtFirst, RowsFor(d, "created") = {}
  PROVE  RowsFor(d, "failed") # {} \/ DiedAt(d) # {}
<1>1. PICK q \in Requests : \E i \in DOMAIN rows[q] : MadeBy(q, i, d)  BY DEF IInv, Origins
<1>2. PICK i \in DOMAIN rows[q] : MadeBy(q, i, d)  BY <1>1
<1>3. ASSUME NEW o \in {"created", "failed"}, Reported(q, i, o) PROVE <<q, i>> \in RowsFor(d, o)
  <2>1. i \in DOMAIN outcomes[q] /\ outcomes[q][i] = o  BY <1>3 DEF Reported
  <2>2. <<q, i>> \in UNION {{p} \X DOMAIN outcomes[p] : p \in Requests}  BY <2>1
  <2>3. rows[q][i].status # "invalid" /\ Domain(q, i) = d  BY <1>2 DEF MadeBy, About
  <2> QED  BY <2>1, <2>2, <2>3 DEF RowsFor
<1>4. ASSUME pc[q] = "dead", i = Position(q) PROVE q \in DiedAt(d)
  BY <1>2, <1>4 DEF DiedAt, MadeBy, About, HasRow, Row
<1> QED  BY <1>2, <1>3, <1>4 DEF MadeBy

THEOREM CreatorIsOne == Spec => []OneCreator
<1>1. IInv => OneCreator
  <2> SUFFICES ASSUME IInv, NEW d \in Domains
      PROVE  /\ Cardinality(RowsFor(d, "created")) <= 1
             /\ RowsFor(d, "created") # {} => d \in DOMAIN store \ DOMAIN AtFirst
             /\ \A r \in RowsFor(d, "created") : store[d] = rows[r[1]][r[2]].country
             /\ d \in DOMAIN store \ DOMAIN AtFirst /\ RowsFor(d, "created") = {}
                  => RowsFor(d, "failed") # {} \/ DiedAt(d) # {}
    BY DEF OneCreator
  <2> QED  BY ClaimsOfDomain, CreatorOfDomain
<1> QED  BY <1>1, Invariance, PTL

-----------------------------------------------------------------------------
(* Imports are whole, given that the parsers read the files (FilesAreRead, *)
(* which TLC evaluates for the files of its runs): what the preview makes  *)
(* of repeated lines, other requests, failures and deaths lose nothing.    *)

\* The rows of an import are the preview of its file.
FileRows ==
  \A q \in Importers : pc[q] \notin {"new", "refused"} =>
    /\ file[q] \in Files
    /\ ~\E i \in DOMAIN ParseRawRows(file[q]) : Raises(ParseRawRows(file[q])[i])
    /\ rows[q] = PreviewRows(ParseRawRows(file[q]))

\* The domain of every usable row an import is past is stored, or reported
\* as failed in a row of the same import.
FailedFor(q, d) ==
  \E j \in DOMAIN outcomes[q] :
    Reported(q, j, "failed") /\ rows[q][j].status # "invalid" /\ Domain(q, j) = d
Handled ==
  \A q \in Importers : \A i \in DOMAIN outcomes[q] : rows[q][i].status # "invalid" =>
    Domain(q, i) \in DOMAIN store \/ FailedFor(q, Domain(q, i))

LEMMA PreviewedRows ==
  ASSUME NEW raws, Len(raws) \in Nat, DOMAIN raws = 1..Len(raws)
  PROVE  /\ DOMAIN PreviewRows(raws) = DOMAIN raws
         /\ \A i \in DOMAIN raws :
              /\ ~IsValid(raws[i]) => PreviewRows(raws)[i].status = "invalid"
              /\ IsValid(raws[i]) => /\ PreviewRows(raws)[i].status # "invalid"
                                     /\ PreviewRows(raws)[i].domain = NormalizeWebsite(raws[i].website)
                                     /\ PreviewRows(raws)[i].country = raws[i].country
              /\ PreviewRows(raws)[i].status \notin {"invalid", "valid"} =>
                   \E j \in DOMAIN raws : /\ j < i /\ IsValid(raws[j])
                                           /\ NormalizeWebsite(raws[j].website) = NormalizeWebsite(raws[i].website)
<1>1. DOMAIN PreviewRows(raws) = DOMAIN raws  BY DEF PreviewRows
<1>2. ASSUME NEW i \in DOMAIN raws, ~IsValid(raws[i])
      PROVE  PreviewRows(raws)[i].status = "invalid"
  BY <1>2 DEF PreviewRows
<1>3. ASSUME NEW i \in DOMAIN raws, IsValid(raws[i])
      PROVE  PreviewRows(raws)[i] =
               [status  |-> IF Repeated(raws, i) THEN "repeated" ELSE "valid",
                domain  |-> NormalizeWebsite(raws[i].website),
                country |-> raws[i].country]
  BY <1>3 DEF PreviewRows
<1> QED
  <2>1. ASSUME NEW i \in DOMAIN raws, NEW j \in 1..(i - 1) PROVE j \in DOMAIN raws /\ j < i
    OBVIOUS
  <2> QED  BY <1>1, <1>2, <1>3, <2>1 DEF Repeated, SameDomain

LEMMA StepFileRows ==
  ASSUME Typed, FileRows, [Next]_vars
  PROVE  FileRows'
<1> SUFFICES ASSUME NEW q \in Importers, pc'[q] \notin {"new", "refused"}
    PROVE  /\ file'[q] \in Files
           /\ ~\E i \in DOMAIN ParseRawRows(file'[q]) : Raises(ParseRawRows(file'[q])[i])
           /\ rows'[q] = PreviewRows(ParseRawRows(file'[q]))
  BY DEF FileRows
<1>1. q \in Requests  BY DEF Requests
<1>2. CASE pc[q] \notin {"new", "refused"} /\ file'[q] = file[q] /\ rows'[q] = rows[q]
  BY <1>2 DEF FileRows
<1>3. ASSUME NEW p \in Importers, SubmitFile(p)
      PROVE  \/ pc[q] \notin {"new", "refused"} /\ file'[q] = file[q] /\ rows'[q] = rows[q]
             \/ /\ file'[q] \in Files
                /\ ~\E i \in DOMAIN ParseRawRows(file'[q]) : Raises(ParseRawRows(file'[q])[i])
                /\ rows'[q] = PreviewRows(ParseRawRows(file'[q]))
  <2>1. PICK f \in Files :
          /\ file' = [file EXCEPT ![p] = f]
          /\ IF \E i \in DOMAIN ParseRawRows(f) : Raises(ParseRawRows(f)[i])
             THEN pc' = [pc EXCEPT ![p] = "refused"] /\ UNCHANGED rows
             ELSE /\ pc' = [pc EXCEPT ![p] = "checking"]
                  /\ rows' = [rows EXCEPT ![p] = PreviewRows(ParseRawRows(f))]
    BY <1>3 DEF SubmitFile
  <2>2. CASE q = p
    <3>1. file'[q] = f /\ (pc'[q] = "checking" \/ pc'[q] = "refused")
      BY <1>1, <2>1, <2>2 DEF Typed
    <3>2. ~\E i \in DOMAIN ParseRawRows(f) : Raises(ParseRawRows(f)[i])
      BY <1>1, <2>1, <2>2 DEF Typed
    <3>3. rows'[q] = PreviewRows(ParseRawRows(f))  BY <1>1, <2>1, <2>2, <3>2 DEF Typed
    <3> QED  BY <3>1, <3>2, <3>3
  <2>3. CASE q # p
    <3>1. file'[q] = file[q] /\ pc'[q] = pc[q] /\ rows'[q] = rows[q]
      BY <1>1, <2>1, <2>3 DEF Typed
    <3> QED  BY <3>1
  <2> QED  BY <2>2, <2>3
<1>4. ASSUME NEW c \in Clients, SubmitCompany(c)
      PROVE  pc[q] \notin {"new", "refused"} /\ file'[q] = file[q] /\ rows'[q] = rows[q]
  <2>1. q # c  BY ImportAssumption
  <2> QED  BY <1>1, <1>4, <2>1 DEF SubmitCompany, Typed
<1>5. ASSUME NEW p \in Requests, SkipRow(p) \/ CheckCompany(p) \/ InsertCompany(p) \/ FailRow(p) \/ Die(p)
      PROVE  pc[q] \notin {"new", "refused"} /\ file'[q] = file[q] /\ rows'[q] = rows[q]
  <2>1. pc[p] \in {"checking", "inserting"}
    BY <1>5 DEF SkipRow, CheckCompany, InsertCompany, FailRow, Die
  <2>2. file' = file /\ rows' = rows
    BY <1>5 DEF SkipRow, CheckCompany, InsertCompany, FailRow, Die, Report
  <2>3. q # p => pc'[q] = pc[q]
    BY <1>1, <1>5 DEF SkipRow, CheckCompany, InsertCompany, FailRow, Die, Report, Typed
  <2> QED  BY <2>1, <2>2, <2>3
<1>6. CASE UNCHANGED vars  BY <1>2, <1>6 DEF vars
<1> QED  BY <1>2, <1>3, <1>4, <1>5, <1>6 DEF Next

LEMMA StepHandled ==
  ASSUME FilesAreRead, IInv, FileRows, Handled,
         NEW p \in Requests, Starts(p) \/ Answers(p) \/ Moves(p)
  PROVE  Handled'
<1> USE DEF IInv
<1> SUFFICES ASSUME NEW q \in Importers, NEW i \in DOMAIN outcomes'[q], rows'[q][i].status # "invalid"
    PROVE  Domain(q, i)' \in DOMAIN store' \/ FailedFor(q, Domain(q, i))'
  BY DEF Handled
<1>1. q \in Requests  BY DEF Requests
<1>2. pc[q] # "new"
  <2>1. DOMAIN <<>> = {}  OBVIOUS
  <2>2. outcomes'[q] = outcomes[q] => pc[q] # "new"  BY <1>1, <2>1 DEF Progress
  <2> QED  BY <1>1, <2>2, RowsStay DEF Answers
<1>3. rows'[q] = rows[q]  BY <1>1, <1>2, RowsStay
<1>4. ASSUME NEW d, FailedFor(q, d) PROVE FailedFor(q, d)'
  BY <1>1, <1>3, <1>4, RowsStay DEF FailedFor, Reported, Domain
<1>5. PICK d : d = Domain(q, i)  OBVIOUS
<1>6. Domain(q, i)' = d  BY <1>3, <1>5 DEF Domain
<1>7. ASSUME i \in DOMAIN outcomes[q] PROVE d \in DOMAIN store' \/ FailedFor(q, d)'
  BY <1>3, <1>4, <1>5, <1>7, StoreGrows DEF Handled
<1>8. ASSUME i \notin DOMAIN outcomes[q] PROVE d \in DOMAIN store' \/ FailedFor(q, d)'
  <2>1. q = p /\ Answers(p)  BY <1>1, <1>8, RowsStay
  <2>2. HasRow(p)  BY <2>1 DEF Answers
  <2>3. PICK o \in Outcomes :
          /\ Report(p, o)
          /\ \/ Row(p).status = "invalid"
             \/ Row(p).status \notin {"valid", "invalid"}
             \/ Domain(p, Position(p)) \in DOMAIN store
             \/ o = "failed" /\ Row(p).status = "valid"
             \/ Stored(p)
    BY <2>1 DEF Answers
  <2>4. i = Position(p) /\ i \in Nat /\ DOMAIN outcomes'[p] = DOMAIN outcomes[p] \cup {i} /\ outcomes'[p][i] = o
    BY <1>8, <2>1, <2>2, <2>3, ReportAdds
  <2>5. CASE Domain(p, Position(p)) \in DOMAIN store \/ Stored(p)
    BY <1>5, <2>1, <2>4, <2>5, StoreGrows DEF Stored
  <2>6. CASE o = "failed" /\ Row(p).status = "valid"
    BY <1>3, <1>6, <2>1, <2>4, <2>6 DEF FailedFor, Reported, Row
  <2>7. CASE Row(p).status \notin {"valid", "invalid"}
    <3>0. PICK raws : raws = ParseRawRows(file[q])  OBVIOUS
    <3>1. rows[q] = PreviewRows(raws) /\ Len(raws) \in Nat /\ DOMAIN raws = 1..Len(raws)
      <4>1. pc[q] \notin {"new", "refused"}  BY <2>1 DEF Answers
      <4> QED  BY <3>0, <4>1 DEF FileRows, FilesAreRead
    <3>2. i \in DOMAIN raws /\ PreviewRows(raws)[i].status \notin {"invalid", "valid"}
      BY <2>1, <2>2, <2>4, <2>7, <3>1, PreviewedRows DEF HasRow, Row
    <3>3. PICK j \in DOMAIN raws : /\ j < i /\ IsValid(raws[j])
                                   /\ NormalizeWebsite(raws[j].website) = NormalizeWebsite(raws[i].website)
      BY <3>1, <3>2, PreviewedRows
    <3>4. rows[q][j].status # "invalid" /\ Domain(q, j) = d
      BY <1>5, <3>1, <3>2, <3>3, PreviewedRows DEF Domain
    <3>5. j \in DOMAIN outcomes[q]
      <4>1. outcomes[q] \in Seq(Outcomes)  BY <1>1 DEF Typed
      <4>2. DOMAIN outcomes[q] = 1..Len(outcomes[q]) /\ Len(outcomes[q]) \in Nat  BY <4>1, LenProperties
      <4>3. j \in 1..Len(raws)  BY <3>1, <3>3
      <4> QED  BY <2>1, <2>4, <3>3, <4>2, <4>3, <3>1 DEF Position
    <3> QED  BY <1>4, <3>4, <3>5, StoreGrows DEF Handled
  <2>8. CASE Row(p).status = "invalid"  BY <1>3, <2>1, <2>4, <2>8 DEF Row
  <2> QED  BY <2>3, <2>5, <2>6, <2>7, <2>8
<1> QED  BY <1>6, <1>7, <1>8

ImportInv == IInv /\ FileRows /\ Handled

LEMMA ImportInvariance ==
  ASSUME FilesAreRead
  PROVE  Spec => []ImportInv
<1>1. Init => ImportInv
  <2> SUFFICES ASSUME Init PROVE FileRows /\ Handled  BY InitIInv DEF ImportInv
  <2>1. DOMAIN <<>> = {} /\ Importers \subseteq Requests  BY DEF Requests
  <2> QED  BY <2>1 DEF Init, FileRows, Handled
<1>2. ImportInv /\ [Next]_vars => ImportInv'
  <2> SUFFICES ASSUME ImportInv, [Next]_vars PROVE Handled'
    BY StepIInv, StepFileRows DEF ImportInv, IInv
  <2>1. CASE UNCHANGED vars
    BY <2>1 DEF vars, ImportInv, Handled, FailedFor, Reported, Domain
  <2>2. ASSUME NEW p \in Requests, Starts(p) \/ Answers(p) \/ Moves(p) PROVE Handled'
    BY <2>2, StepHandled DEF ImportInv
  <2> QED  BY <2>1, <2>2, StepKinds DEF ImportInv, IInv
<1> QED  BY <1>1, <1>2, PTL DEF Spec

\* An import that has answered is past all rows of its file.
LEMMA AnsweredImport ==
  ASSUME FilesAreRead, ImportInv, NEW q \in Importers, pc[q] = "checking", ~HasRow(q),
         NEW line \in Lines(q), NEW d, Names(line, d)
  PROVE  d \in DOMAIN store \/ \E r \in RowsFor(d, "failed") : r[1] = q
<1>1. PICK raws : raws = ParseRawRows(file[q])  OBVIOUS
<1>2. q \in Requests  BY DEF Requests
<1>3. file[q] \in Files /\ rows[q] = PreviewRows(raws) /\ Len(raws) \in Nat /\ DOMAIN raws = 1..Len(raws)
        /\ \A l \in LinesOf(file[q]) : IsValid(l) => \E i \in DOMAIN raws : raws[i].website = l.website
  <2>1. file[q] \in Files /\ rows[q] = PreviewRows(raws) /\ ~\E i \in DOMAIN raws : Raises(raws[i])
    BY <1>1 DEF ImportInv, FileRows
  <2> QED  BY <1>1, <2>1 DEF FilesAreRead
<1>4. PICK i \in DOMAIN raws : raws[i].website = line.website
  BY <1>3 DEF Lines, Names
<1>5. rows[q][i].status # "invalid" /\ Domain(q, i) = d
  <2>1. IsValid(raws[i]) /\ NormalizeDomain(NormalizeWebsite(raws[i].website)) = d
    BY <1>4 DEF Names, IsValid
  <2> QED  BY <1>3, <2>1, PreviewedRows DEF Domain
<1>6. i \in DOMAIN outcomes[q]
  <2>1. outcomes[q] \in Seq(Outcomes) /\ DOMAIN outcomes[q] \subseteq DOMAIN rows[q]
    BY <1>2 DEF ImportInv, IInv, Typed, Progress
  <2>2. DOMAIN outcomes[q] = 1..Len(outcomes[q]) /\ Len(outcomes[q]) \in Nat  BY <2>1, LenProperties
  <2>3. DOMAIN rows[q] = 1..Len(raws)  BY <1>3, PreviewedRows
  <2>4. Len(outcomes[q]) + 1 \notin 1..Len(raws)  BY <2>3 DEF HasRow, Position
  <2>5. Len(raws) <= Len(outcomes[q])  BY <1>3, <2>2, <2>4
  <2> QED  BY <1>3, <2>2, <2>5
<1>7. ASSUME FailedFor(q, d) PROVE \E r \in RowsFor(d, "failed") : r[1] = q
  <2>1. PICK j \in DOMAIN outcomes[q] :
          outcomes[q][j] = "failed" /\ rows[q][j].status # "invalid" /\ Domain(q, j) = d
    BY <1>7 DEF FailedFor, Reported
  <2>2. <<q, j>> \in UNION {{p} \X DOMAIN outcomes[p] : p \in Requests}  BY <1>2
  <2>3. <<q, j>> \in RowsFor(d, "failed")  BY <2>1, <2>2 DEF RowsFor
  <2> QED  BY <2>3
<1> QED  BY <1>5, <1>6, <1>7 DEF ImportInv, Handled

\* What is stored of a company is said by a line or a client that names it.
LEMMA StoredIsSaid ==
  ASSUME FilesAreRead, ImportInv, NEW d \in DOMAIN store \ DOMAIN AtFirst
  PROVE  \/ \E q \in Importers : \E line \in Lines(q) : Names(line, d) /\ line.country = store[d]
         \/ \E c \in Clients : \E i \in DOMAIN rows[c] : Domain(c, i) = d /\ rows[c][i].country = store[d]
<1>1. PICK q \in Requests : \E i \in DOMAIN rows[q] : MadeBy(q, i, d)
  BY DEF ImportInv, IInv, Origins
<1>2. PICK i \in DOMAIN rows[q] : MadeBy(q, i, d)  BY <1>1
<1>3. CASE q \in Clients  BY <1>2, <1>3 DEF MadeBy, About
<1>4. CASE q \in Importers
  <2>1. PICK raws : raws = ParseRawRows(file[q])  OBVIOUS
  <2>2. pc[q] \notin {"new", "refused"}
    <3>1. DOMAIN <<>> = {}  OBVIOUS
    <3> QED  BY <1>2, <3>1 DEF MadeBy, Reported, ImportInv, IInv, Progress
  <2>3. file[q] \in Files /\ rows[q] = PreviewRows(raws) /\ Len(raws) \in Nat /\ DOMAIN raws = 1..Len(raws)
          /\ \A j \in DOMAIN raws : IsValid(raws[j]) =>
               \E line \in LinesOf(file[q]) : line.website = raws[j].website /\ line.country = raws[j].country
    <3>1. file[q] \in Files /\ rows[q] = PreviewRows(raws) /\ ~\E j \in DOMAIN raws : Raises(raws[j])
      BY <1>4, <2>1, <2>2 DEF ImportInv, FileRows
    <3> QED  BY <2>1, <3>1 DEF FilesAreRead
  <2>4. i \in DOMAIN raws /\ IsValid(raws[i])
    BY <1>2, <2>3, PreviewedRows DEF MadeBy, About
  <2>5. rows[q][i].domain = NormalizeWebsite(raws[i].website) /\ rows[q][i].country = raws[i].country
    BY <2>3, <2>4, PreviewedRows
  <2>6. PICK line \in LinesOf(file[q]) : line.website = raws[i].website /\ line.country = raws[i].country
    BY <2>3, <2>4
  <2>7. Names(line, d)
    BY <1>2, <2>4, <2>5, <2>6 DEF Names, IsValid, MadeBy, About, Domain
  <2> QED  BY <1>2, <1>4, <2>5, <2>6, <2>7 DEF Lines, MadeBy
<1> QED  BY <1>3, <1>4 DEF Requests

\* When an import has answered, every shop its file names is stored or
\* reported as failed, and every company's data are those of a line or a
\* request that names it (ImportsAreWhole).
THEOREM WholeImports ==
  ASSUME FilesAreRead
  PROVE  Spec => []ImportsAreWhole
<1>1. ImportInv => ImportsAreWhole
  BY AnsweredImport, StoredIsSaid DEF ImportsAreWhole
<1> QED  BY <1>1, ImportInvariance, PTL
=============================================================================
