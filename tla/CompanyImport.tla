--------------------------- MODULE CompanyImport ---------------------------
(***************************************************************************)
(* How companies come into the store: files copied from StoreLeads         *)
(* (imports/application/import_service.py with its preview and its two     *)
(* parsers) and requests for one company, all through                      *)
(* CompanyService.create_company and the unique index behind it.           *)
(*                                                                         *)
(* A text of a cell is a string; Shown says what a website's text stands   *)
(* for. Platform and city are treated like country, and left out. The      *)
(* discovery a single creation starts is in module Discovery.              *)
(***************************************************************************)
EXTENDS Integers, Sequences, FiniteSets, SequencesExt

CONSTANTS
  Importers, Clients,  \* requests to import a file, to create one company
  Files,               \* what may be copied from StoreLeads: in a grid or a table, with
                       \* columns, lines, and cells cut off the end that say nothing
  Shown,               \* the host each website text names
  Wanted,              \* what clients ask for: a website and a country
  AtFirst,             \* the companies there are at first: domain -> country
  MaxFaults,           \* bound: calls of the database that fail
  MaxDeaths            \* bound: requests that end without an answer

Requests == Importers \cup Clients
Fields == {"website", "country"}
Blank == ""

ASSUME ImportAssumption ==
  /\ Importers \cap Clients = {}
  /\ {MaxFaults, MaxDeaths} \subseteq Nat
  /\ \A f \in Files : \A i \in DOMAIN f.lines : f.lines[i].website \in DOMAIN Shown \cup {Blank}

VARIABLES
  file,      \* the file each importer was given
  rows,      \* its rows after the preview, or the one company of a client
  pc,        \* "new", "checking" a row, "inserting" it, "refused" or "dead"
  outcomes,  \* of the rows so far
  store,     \* the stored companies: normalized domain -> country
  faults, deaths

vars == <<file, rows, pc, outcomes, store, faults, deaths>>

NoFile == [grid |-> FALSE, columns |-> <<>>, lines |-> <<>>, cut |-> 0]

Init ==
  /\ file = [q \in Requests |-> NoFile]
  /\ rows = [q \in Requests |-> <<>>]
  /\ pc = [q \in Requests |-> "new"]
  /\ outcomes = [q \in Requests |-> <<>>]
  /\ store = AtFirst
  /\ faults = 0 /\ deaths = 0

-----------------------------------------------------------------------------
(* The copied markup: a table, or a grid whose cells come one after the    *)
(* other, each row behind the cell of its checkbox. A grid may end before  *)
(* the last cells of its last row.                                         *)

CellsOf(f, line) ==
  [i \in DOMAIN f.columns |-> IF f.columns[i] \in Fields THEN line[f.columns[i]] ELSE "text"]

TableMarkup(f) == <<f.columns>> \o [i \in DOMAIN f.lines |-> CellsOf(f, f.lines[i])]

Cell(text) == [box |-> "none", text |-> text]
GridRow(box, texts) == <<[box |-> box, text |-> Blank]>> \o [i \in DOMAIN texts |-> Cell(texts[i])]
GridMarkup(f) ==
  LET cells == GridRow("all", f.columns)
                 \o FlattenSeq([i \in DOMAIN f.lines |-> GridRow("row", CellsOf(f, f.lines[i]))])
  IN SubSeq(cells, 1, Len(cells) - f.cut)

-----------------------------------------------------------------------------
(* The parsers: rows of texts by field, from whatever columns are known.   *)

Values(columns, cells) ==
  [field \in Fields |->
     LET filled == {i \in DOMAIN columns \cap DOMAIN cells : columns[i] = field /\ cells[i] # Blank}
     IN IF filled = {} THEN Blank ELSE cells[Max(filled)]]

\* The first row that is not empty is the header.
ParseTable(lines) ==
  LET filled == SelectSeq(lines, LAMBDA cells : ToSet(cells) # {Blank})
  IN [i \in 1..(Len(filled) - 1) |-> Values(filled[1], filled[i + 1])]

CellsBehind(cells, box, width) == SubSeq(cells, box + 1, Min({box + width, Len(cells)}))

ParseGrid(columns, cells) ==
  LET boxes == SetToSortSeq({i \in DOMAIN cells : cells[i].box = "row"}, <)
      TextsBehind(box) == LET own == CellsBehind(cells, box, Len(columns))
                          IN [i \in DOMAIN own |-> own[i].text]
  IN IF ToSet(columns) \cap Fields = {} THEN <<>>
     ELSE [i \in DOMAIN boxes |-> Values(columns, TextsBehind(boxes[i]))]

ParseRawRows(f) == IF f.grid THEN ParseGrid(f.columns, GridMarkup(f)) ELSE ParseTable(TableMarkup(f))

-----------------------------------------------------------------------------
(* Domains, and the preview. Both normalizations strip one www.            *)

Stripped(domain) == [domain EXCEPT !.www = Max({0, @ - 1})]
NormalizeDomain(domain) == Stripped(domain)
NormalizeWebsite(text) == Stripped([shop |-> Shown[text].shop, www |-> Shown[text].www])

\* Hosts that are malformed, local, private or addresses are refused one by
\* one; broken brackets raise, through every handler.
IsValid(raw) == raw.website # Blank /\ Shown[raw.website].host = "public"
Raises(raw) == raw.website # Blank /\ Shown[raw.website].host = "brackets"

SameDomain(raws, i, j) ==
  IsValid(raws[j]) /\ NormalizeWebsite(raws[j].website) = NormalizeWebsite(raws[i].website)
RepeatedAnywhere(raws, i) ==  \* mutant: the first row of a domain counts as a repeat of the next
  \E j \in DOMAIN raws \ {i} : SameDomain(raws, i, j)
\* The domain of a row is looked for in the rows before it; whether the store
\* has it, the gateway cannot say.
Repeated(raws, i) == \E j \in 1..(i - 1) : SameDomain(raws, i, j)

PreviewRows(raws) ==
  [i \in DOMAIN raws |->
     IF ~IsValid(raws[i]) THEN [status |-> "invalid"]
     ELSE [status  |-> IF Repeated(raws, i) THEN "repeated" ELSE "valid",
           domain  |-> NormalizeWebsite(raws[i].website),
           country |-> raws[i].country]]

\* POST /api/imports/storeleads: nothing is created before all rows are read.
SubmitFile(q) ==
  /\ pc[q] = "new"
  /\ \E f \in Files :
       LET raws == ParseRawRows(f) IN
       /\ file' = [file EXCEPT ![q] = f]
       /\ IF \E i \in DOMAIN raws : Raises(raws[i])
          THEN pc' = [pc EXCEPT ![q] = "refused"] /\ UNCHANGED rows
          ELSE pc' = [pc EXCEPT ![q] = "checking"] /\ rows' = [rows EXCEPT ![q] = PreviewRows(raws)]
  /\ UNCHANGED <<outcomes, store, faults, deaths>>

\* POST /api/companies: any text is a domain.
SubmitCompany(c) ==
  /\ pc[c] = "new"
  /\ \E w \in Wanted :
       rows' = [rows EXCEPT ![c] =
                  <<[status |-> "valid", country |-> w.country,
                     domain |-> [shop |-> Shown[w.website].shop, www |-> Shown[w.website].www]]>>]
  /\ pc' = [pc EXCEPT ![c] = "checking"]
  /\ UNCHANGED <<file, outcomes, store, faults, deaths>>

-----------------------------------------------------------------------------
(* The rows, one after the other; create_company looks for the domain, and *)
(* inserts. An exception costs the row and no other.                       *)

Position(q) == Len(outcomes[q]) + 1
Row(q) == rows[q][Position(q)]
HasRow(q) == Position(q) \in DOMAIN rows[q]
Domain(q, i) == NormalizeDomain(rows[q][i].domain)

Report(q, outcome) ==
  /\ outcomes' = [outcomes EXCEPT ![q] = Append(@, outcome)]
  /\ pc' = [pc EXCEPT ![q] = "checking"]
  /\ UNCHANGED <<file, rows, deaths>>

SkipRow(q) ==
  /\ pc[q] = "checking" /\ HasRow(q) /\ Row(q).status # "valid"
  /\ Report(q, IF Row(q).status = "invalid" THEN "skipped_invalid" ELSE "skipped_existing")
  /\ UNCHANGED <<store, faults>>

CheckCompany(q) ==
  /\ pc[q] = "checking" /\ HasRow(q) /\ Row(q).status = "valid"
  /\ IF Domain(q, Position(q)) \in DOMAIN store
     THEN Report(q, "skipped_existing")
     ELSE pc' = [pc EXCEPT ![q] = "inserting"] /\ UNCHANGED <<file, rows, outcomes, deaths>>
  /\ UNCHANGED <<store, faults>>

Insert(q) ==
  store' = [d \in DOMAIN store \cup {Domain(q, Position(q))} |->
              IF d \in DOMAIN store THEN store[d] ELSE Row(q).country]

InsertUnchecked(q) ==  \* mutant: the check is trusted, without an index
  pc[q] = "inserting" /\ Insert(q) /\ Report(q, "created") /\ UNCHANGED faults

\* The index refuses a domain that came in between.
InsertCompany(q) ==
  /\ pc[q] = "inserting"
  /\ Insert(q)
  /\ Report(q, IF Domain(q, Position(q)) \in DOMAIN store THEN "skipped_existing" ELSE "created")
  /\ UNCHANGED faults

\* The database fails; an insert may have been made all the same.
FailRow(q) ==
  /\ faults < MaxFaults
  /\ \/ pc[q] = "checking" /\ HasRow(q) /\ Row(q).status = "valid" /\ UNCHANGED store
     \/ pc[q] = "inserting" /\ (Insert(q) \/ UNCHANGED store)
  /\ Report(q, "failed")
  /\ faults' = faults + 1

\* A request ends where it stands; so may an insert the database already has.
Die(q) ==
  /\ pc[q] \in {"checking", "inserting"} /\ deaths < MaxDeaths
  /\ (pc[q] = "inserting" /\ Insert(q)) \/ UNCHANGED store
  /\ pc' = [pc EXCEPT ![q] = "dead"]
  /\ deaths' = deaths + 1
  /\ UNCHANGED <<file, rows, outcomes, faults>>

Next ==
  \/ \E q \in Importers : SubmitFile(q)
  \/ \E c \in Clients : SubmitCompany(c)
  \/ \E q \in Requests : SkipRow(q) \/ CheckCompany(q) \/ InsertCompany(q) \/ FailRow(q) \/ Die(q)

Spec == Init /\ [][Next]_vars

-----------------------------------------------------------------------------
Domains == [shop: {Shown[w].shop : w \in DOMAIN Shown}, www: 0..Max({Shown[w].www : w \in DOMAIN Shown})]
Countries == {w.country : w \in Wanted} \cup {AtFirst[d] : d \in DOMAIN AtFirst}
               \cup UNION {{f.lines[i].country : i \in DOMAIN f.lines} : f \in Files}

\* The shape of the state.
TypeOK ==
  /\ file \in [Requests -> Files \cup {NoFile}]
  /\ pc \in [Requests -> {"new", "checking", "inserting", "refused", "dead"}]
  /\ \A q \in Requests : \A i \in DOMAIN rows[q] : rows[q][i].status \in {"invalid", "repeated", "valid"}
  /\ outcomes \in [Requests -> Seq({"created", "skipped_existing", "skipped_invalid", "failed"})]
  /\ \A q \in Requests : Len(outcomes[q]) <= Len(rows[q])
  /\ DOMAIN store \subseteq Domains /\ \A d \in DOMAIN store : store[d] \in Countries
  /\ faults \in 0..MaxFaults /\ deaths \in 0..MaxDeaths

\* What a file itself says, however it is laid out.
Names(line, d) == IsValid(line) /\ NormalizeDomain(NormalizeWebsite(line.website)) = d
LinesOf(f) == {line \in ToSet(f.lines) : "website" \in ToSet(f.columns)}
Lines(q) == LinesOf(file[q])

\* What an import needs of the parsers: of a file that is not refused, each
\* line with a usable website becomes a row, and each row with one says what
\* one line says.
FilesAreRead ==
  \A f \in Files : LET raws == ParseRawRows(f) IN
    \/ \E i \in DOMAIN raws : Raises(raws[i])
    \/ /\ Len(raws) \in Nat /\ DOMAIN raws = 1..Len(raws)
       /\ \A line \in LinesOf(f) :
            IsValid(line) => \E i \in DOMAIN raws : raws[i].website = line.website
       /\ \A i \in DOMAIN raws :
            IsValid(raws[i]) => \E line \in LinesOf(f) :
                                  line.website = raws[i].website /\ line.country = raws[i].country

\* The rows of all requests that are about a domain: those reported with an
\* outcome, and those at which a request died.
RowsFor(d, outcome) ==
  {r \in UNION {{q} \X DOMAIN outcomes[q] : q \in Requests} :
     /\ outcomes[r[1]][r[2]] = outcome
     /\ rows[r[1]][r[2]].status # "invalid" /\ Domain(r[1], r[2]) = d}
DiedAt(d) ==
  {q \in Requests : pc[q] = "dead" /\ HasRow(q) /\ Row(q).status = "valid" /\ Domain(q, Position(q)) = d}

\* When an import has answered, every shop its file names is in the store, or
\* the answer says that its row failed: whatever the layout of the copy, its
\* repeated and unusable lines, and the other requests around it. And what is
\* stored of a company is what a line or a request says that names it, never
\* what the line beside it says (parse_storeleads_vaadin_grid,
\* preview_storeleads_html, import_storeleads_html).
ImportsAreWhole ==
  /\ \A q \in Importers : pc[q] = "checking" /\ ~HasRow(q) =>
       \A line \in Lines(q) : \A d \in Domains : Names(line, d) =>
         d \in DOMAIN store \/ \E r \in RowsFor(d, "failed") : r[1] = q
  /\ \A d \in DOMAIN store \ DOMAIN AtFirst :
       \/ \E q \in Importers : \E line \in Lines(q) : Names(line, d) /\ line.country = store[d]
       \/ \E c \in Clients : \E i \in DOMAIN rows[c] : Domain(c, i) = d /\ rows[c][i].country = store[d]

\* Of all rows and requests that want a company at once, or again, at most one
\* is told that it created it, and its data are the company's. A company nobody
\* claims is one whose creator was told of a failure, or was told nothing
\* (CompanyService.create_company, MongoCompanyRepository.create).
OneCreator ==
  \A d \in Domains :
    LET claims == RowsFor(d, "created") IN
    /\ Cardinality(claims) <= 1
    /\ claims # {} => d \in DOMAIN store \ DOMAIN AtFirst
    /\ \A r \in claims : store[d] = rows[r[1]][r[2]].country
    /\ d \in DOMAIN store \ DOMAIN AtFirst /\ claims = {} => RowsFor(d, "failed") # {} \/ DiedAt(d) # {}
=============================================================================
