--------------------------- MODULE MCCompanyImport --------------------------
(***************************************************************************)
(* Small files for TLC: tables and grids with their columns in several     *)
(* orders, lines that repeat a shop, name none, or name it oddly.          *)
(***************************************************************************)
EXTENDS CompanyImport

Host(shop, www, host) == [shop |-> shop, www |-> www, host |-> host]
\* A word without a dot is no website.
Words == {"text", "NZ", "AU", "FJ", "UK", "US", "FR", "DE", "IT"}
MCShown ==
  [w \in Words \cup {"a.com", "www.a.com", "www.www.a.com", "b.com", "known.com", "[a.com"} |->
     CASE w = "a.com"         -> Host("a", 0, "public")
       [] w = "www.a.com"     -> Host("a", 1, "public")
       [] w = "www.www.a.com" -> Host("a", 2, "public")
       [] w = "b.com"         -> Host("b", 0, "public")
       [] w = "known.com"     -> Host("known", 0, "public")
       [] w = "[a.com"        -> Host("none", 0, "brackets")
       [] OTHER               -> Host("none", 0, "unusable")]

Line(website, country) == [website |-> website, country |-> country]
A == Line("a.com", "NZ")
A1 == Line("www.a.com", "AU")
A2 == Line("www.www.a.com", "FJ")
B == Line("b.com", "UK")
Bare == Line("b.com", Blank)
Known == Line("known.com", "US")
Word == Line("text", "FR")
Nameless == Line(Blank, "DE")
Empty == Line(Blank, Blank)
Broken == Line("[a.com", "IT")

WebsiteFirst == <<"website", "other", "country">>
WebsiteLast == <<"other", "country", "website">>
Narrow == <<"country", "website">>
File(grid, columns, lines, cut) ==
  [grid |-> grid, columns |-> columns, lines |-> lines, cut |-> cut]
MCFiles ==
  {File(grid, WebsiteFirst, <<A, Nameless, B>>, 0) : grid \in BOOLEAN}
    \cup {File(grid, WebsiteLast, <<A1, A, B>>, 0) : grid \in BOOLEAN}
    \cup {File(grid, Narrow, <<Empty, A2, A>>, 0) : grid \in BOOLEAN}
    \cup {File(TRUE, WebsiteFirst, <<Word, A, Bare>>, 2),
          File(TRUE, WebsiteFirst, <<Known, Bare>>, 1),
          File(FALSE, Narrow, <<B, Broken>>, 0), File(TRUE, <<"other">>, <<A>>, 0)}

\* The parsers read every one of these files, as the theorem about imports asks.
ASSUME MCFilesAssumption == FilesAreRead

MCWanted == {Line("b.com", "CA"), Line("www.www.a.com", "CL")}
MCAtFirst == [d \in {[shop |-> "known", www |-> 0]} |-> "US"]
Symmetry == Permutations(Importers)
=============================================================================
