------------------------------ MODULE MCFacts ------------------------------
(***************************************************************************)
(* The pages of a shop, for TLC.                                           *)
(***************************************************************************)
EXTENDS Facts

Page(type, seen, entities, phrases) ==
  [type |-> type, status |-> "fetched", kinds |-> {"cleaned", "text"},
   seen |-> seen, entities |-> entities, phrases |-> phrases]
Entity(type, has) == [type |-> type, has |-> has]
One(place, value) == place :> <<value>>
Lang(l, r) == [language |-> l, region |-> r]
Someone(name, title) == [name |-> name, title |-> title]

\* Its name in three places of one page, its language in two that differ.
Homepage ==
  Page("homepage",
       One("og:site_name", Shouted("acme")) @@ One("title", Text("acme store")) @@ One("logo", Text("acme"))
         @@ One("host", Text("acme-shop")) @@ One("tld country", Text("nz"))
         @@ One("html lang", Lang("en", "au")) @@ One("content-language", Lang("fr", ""))
         @@ One("footer country", Text("au")) @@ One("trading as, in the footer", Text("acme co"))
         @@ One("trading as", Text("acme co")) @@ One("collection links", Text("sale"))
         @@ ("markers" :> <<<<"generator", "shopify">>, <<"html", "react">>>>)
         @@ One("ai words", Text("chatgpt")),
       <<Entity("organization", One("name", Text("acme")) @@ One("alternateName", Text("acme co"))
                                  @@ One("addressCountry", Text("au")) @@ One("addressLocality", Text("perth"))
                                  @@ One("email", Text("hi@acme")))>>,
       <<"wholesale pricing", "click and collect", "gift set", "we're hiring as we grow">>)

\* Another name, of equal authority; a person listed twice.
About ==
  Page("about",
       One("h1", Text("our story")) @@ One("html lang", Lang("en", "gb"))
         @@ ("team" :> <<Someone("ann", {"founder", "marketing"}), Someone("bob", {})>>)
         @@ One("tel", Text("123")),
       <<Entity("website", One("name", Text("acme group"))),
         Entity("person", One("person", Someone("ann", {"founder"})) @@ One("telephone", Text("123")))>>,
       <<"no wholesale program", "our software engineers">>)

Contact ==
  Page("contact",
       One("address country", Text("nz")) @@ One("address city", Text("auckland"))
         @@ One("mailto", Shouted("hi@acme")) @@ ("emails in the text" :> <<Text("hi@acme"), Text("ops@acme")>>)
         @@ One("numbers in the text", Text("456")),
       <<Entity("store", One("name", Text("city")) @@ One("address", Text("1 main st")) @@ One("named a", "warehouse")),
         Entity("localbusiness", One("name", Shouted("city")) @@ One("addressCountry", Text("nz")))>>,
       <<"click and collect is not available", "pickup available">>)

Stockists ==
  Page("store_locator", One("footer city", Text("perth")),
       <<Entity("store", One("name", Text("other")) @@ One("address", Text("1 main st"))),
         Entity("store", One("name", Text("city")))>>,
       <<"our stockists", "showroom">>)

Locator ==
  Page("store_locator", One("html lang", Lang("en", "")),
       <<Entity("store", One("address", Text("1 main st"))), Entity("store", One("address", Text("2 main st")))>>,
       <<"warehouse", "in-store pickup", "no wholesale program">>)

Collection(items) ==
  Page("collection", One("collection links", Text("sale")),
       <<Entity("collectionpage", One("numberOfItems", items))>>, <<"engraving">>)
Sampled(pages) ==
  Page("category", ("product links" :> <<Text("p"), Text("q")>>) @@ One("pages in all", pages), <<>>, <<>>)

Product ==
  Page("product", One("custom input", Text("monogram")),
       <<Entity("product", ("brand" :> <<Text("b"), Shouted("b")>>) @@ ("offers" :> <<Count(1), Count(2)>>))>>,
       <<"engraving", "subscribe and save">>)

BrandsPage == Page("brands", ("brand links" :> <<Text("b"), Text("c")>>), <<>>, <<>>)
Returns == Page("returns", <<>>, <<Entity("store", One("address", Text("1 main st")))>>, <<>>)

\* One that was not fetched, one without content, two with half of it.
MCPages ==
  <<Homepage, About, Contact, Stockists, Locator, Collection(12), Collection(7), Sampled(3), Sampled(5),
    Product, BrandsPage, Returns,
    [Homepage EXCEPT !.status = "failed"], [Contact EXCEPT !.kinds = {}],
    [Homepage EXCEPT !.kinds = {"text"}], [Contact EXCEPT !.kinds = {"cleaned"}, !.status = "unchanged"]>>

Both(a, b) == {<<a, b>>, <<b, a>>}
\* Some in both orders, one with a page that two batches of the listing hold.
MCPageLists ==
  Both(1, 2) \cup Both(1, 3) \cup Both(3, 5) \cup Both(4, 5) \cup Both(6, 7) \cup Both(8, 9) \cup Both(6, 8)
  \cup {<<10, 11>>, <<10, 2, 10>>, <<12, 3>>, <<13, 14, 3>>, <<14, 15, 16>>, <<2>>, <<5, 2>>, <<2, 2>>, <<2, 15>>}
=============================================================================
