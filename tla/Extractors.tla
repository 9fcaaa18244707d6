----------------------------- MODULE Extractors -----------------------------
(***************************************************************************)
(* The extractors (extraction/domain/extractors): what each one makes of   *)
(* one page, in the order in which it makes it. A page is                  *)
(*                                                                         *)
(*   type      its page type                                               *)
(*   seen      what its HTML and its address show, by the place where it   *)
(*             is shown; several, in order, for some places                *)
(*   entities  its structured data: [type, has]                            *)
(*   phrases   the wordings of its text that a pattern rule may match      *)
(*                                                                         *)
(* A wording stands for all those that the same rules match in the same    *)
(* context. Evidence is identified by the fragment it quotes. The counts a *)
(* page's metadata could carry, which the crawler never puts there, the    *)
(* notes on a candidate and the wording of values are left out.            *)
(***************************************************************************)
EXTENDS Reconciliation

At(where, place) == IF place \in DOMAIN where THEN where[place] ELSE <<>>
Each(s, Make(_)) == [i \in DOMAIN s |-> Make(s[i])]
EntitiesOf(p, types) == SelectSeq(p.entities, LAMBDA e : e.type \in types)
\* One property of every entity that has it.
Structured(entities, property) == FlattenSeq(Each(entities, LAMBDA e : At(e.has, property)))

\* FactCandidateDraft with its EvidenceDraft.
Draft(field, source, confidence, strength, value, fragment) ==
  [field |-> field, source |-> source, confidence |-> confidence, strength |-> strength,
   value |-> value, fragment |-> fragment, key |-> value, exact |-> TRUE, sort_key |-> 0]

\* match_pattern_rule: every wording the rule matches.
Rule(field, confidence, strength, wordings) ==
  [field |-> field, confidence |-> confidence, strength |-> strength, wordings |-> wordings]
Matches(p, wordings) == SelectSeq(p.phrases, LAMBDA w : w \in wordings)
Says(p, rule, b) ==
  Each(Matches(p, rule.wordings),
       LAMBDA w : Draft(rule.field, "html_element", rule.confidence, rule.strength, Truth(b), Text(w)))
SaysAny(p, rules, b) == FlattenSeq(Each(rules, LAMBDA rule : Says(p, rule, b)))

-----------------------------------------------------------------------------
(* Identity.                                                               *)

CompanyNames(p) ==
  LET Name(source, confidence, strength, names) ==
        Each(names, LAMBDA n : Draft("identity.company_name", source, confidence, strength, n, n))
      Quoting(source, confidence, whole, names) ==
        Each(names, LAMBDA n : Draft("identity.company_name", source, confidence, "weak", n, Text(whole)))
  IN IF p.type \notin {"homepage", "about"} THEN <<>>
     ELSE Name("json_ld", 92, "authoritative", Structured(EntitiesOf(p, {"organization"}), "name"))
          \o Name("json_ld", 85, "authoritative", Structured(EntitiesOf(p, {"website"}), "name"))
          \o Name("open_graph", 78, "strong", At(p.seen, "og:site_name"))
          \o (IF p.type = "homepage" THEN Quoting("html_element", 55, "the title", At(p.seen, "title")) ELSE <<>>)
          \o Name("html_element", 50, "weak", At(p.seen, "logo"))
          \o (IF p.type = "about" THEN Name("html_element", 50, "weak", At(p.seen, "h1")) ELSE <<>>)
          \o Quoting("deterministic_inference", 20, "the url", At(p.seen, "host"))

\* A trading name in the footer is in the text of the page as well.
TradingNames(p) ==
  LET Name(source, confidence, strength, names) ==
        Each(names, LAMBDA n : Draft("identity.trading_name", source, confidence, strength, n, n))
  IN Name("json_ld", 80, "authoritative", Structured(EntitiesOf(p, {"organization"}), "alternateName"))
     \o Name("html_element", 75, "moderate", At(p.seen, "trading as, in the footer"))
     \o Name("html_element", 60, "moderate", At(p.seen, "trading as"))

Addresses(p) ==
  LET Of(e) ==
        LET confidence == IF e.type \in {"store", "localbusiness"} THEN 88 ELSE 90
            Part(field, property) ==
              Each(At(e.has, property),
                   LAMBDA v : Draft(field, "json_ld", confidence, "authoritative", v, v))
        IN Part("identity.country", "addressCountry") \o Part("identity.city", "addressLocality")
      Block(place, confidence) ==
        LET Part(field, part) ==
              Each(At(p.seen, place \o part),
                   LAMBDA v : Draft(field, "html_element", confidence, "moderate", v, Text(place)))
        IN Part("identity.country", " country") \o Part("identity.city", " city")
  IN FlattenSeq(Each(p.entities, Of))
     \o (IF p.type = "contact" THEN Block("address", 75) ELSE <<>>)
     \o Block("footer", 60)
     \o Each(At(p.seen, "tld country"),
             LAMBDA v : Draft("identity.country", "deterministic_inference", 25, "weak", v, Text("the url")))

\* A language tag without its region.
Languages(p) ==
  LET Language(place, source, confidence) ==
        Each(At(p.seen, place), LAMBDA tag : Draft("identity.language", source, confidence, "moderate",
                                                   Text(tag.language), tag))
  IN Language("html lang", "html_element", 70) \o Language("content-language", "meta_tag", 60)

-----------------------------------------------------------------------------
(* Business. A denial is worded with what it denies.                       *)

OfferRules ==
  <<Rule("business.wholesale", 80, "strong", {"wholesale pricing"}),
    Rule("business.trade_accounts", 78, "strong", {"trade account"}),
    Rule("business.click_and_collect", 78, "strong",
         {"click and collect", "store pickup", "in-store pickup", "click and collect is not available"}),
    Rule("business.subscription", 78, "strong", {"subscribe and save"}),
    Rule("business.booking", 75, "strong", {"book an appointment"}),
    Rule("business.online_only", 80, "strong", {"exclusively online"}),
    Rule("business.custom_products", 72, "moderate", {"made to order"})>>
DenialRules ==
  <<Rule("business.wholesale", 75, "strong", {"no wholesale program"}),
    Rule("business.click_and_collect", 75, "strong", {"click and collect is not available"})>>

BusinessModel(p) == SaysAny(p, OfferRules, TRUE) \o SaysAny(p, DenialRules, FALSE)

\* sorted({...}): each spelling once.
Brands(p) ==
  LET product == p.type = "product"
      names == ToSet(Structured(p.entities, "brand"))
                 \cup (IF p.type = "brands" THEN ToSet(At(p.seen, "brand links")) ELSE {})
  IN IF p.type \notin {"brands", "product"} THEN <<>>
     ELSE Each(SetToSeq(names),
               LAMBDA n : Draft("business.brands", IF product THEN "json_ld" ELSE "link", 70, "moderate",
                                Normalized(n), n))

-----------------------------------------------------------------------------
(* Organisation.                                                           *)

\* The first draft of each key.
FirstOfEach(drafts) ==
  FoldLeft(LAMBDA kept, d : IF \E i \in DOMAIN kept : kept[i].key = d.key THEN kept ELSE Append(kept, d),
           <<>>, drafts)

Contacts(field, source, confidence, values) ==
  Each(values, LAMBDA v : Draft(field, source, confidence, "moderate", Normalized(v), v))

Emails(p) ==
  FirstOfEach(Contacts("organisation.emails", "link", 82, At(p.seen, "mailto"))
              \o Contacts("organisation.emails", "json_ld", 85, Structured(p.entities, "email"))
              \o Contacts("organisation.emails", "html_element", 70, At(p.seen, "emails in the text")))

Phones(p) ==
  FirstOfEach(Contacts("organisation.phone_numbers", "link", 80, At(p.seen, "tel"))
              \o Contacts("organisation.phone_numbers", "json_ld", 85, Structured(p.entities, "telephone"))
              \o Contacts("organisation.phone_numbers", "html_element", 65, At(p.seen, "numbers in the text")))

\* The first category one of whose words is in the title.
RoleCategories ==
  <<"founder", "owner", "ecommerce", "operations", "marketing", "technology", "customer_service",
    "sales", "executive">>
RoleCategory(title) ==
  LET found == SelectSeq(RoleCategories, LAMBDA c : c \in title)
  IN IF found = <<>> THEN "unknown" ELSE found[1]
ContactPriority(category) ==
  CASE category = "ecommerce" -> 1
    [] category = "operations" -> 2
    [] category \in {"owner", "founder"} -> 3
    [] category = "technology" -> 4
    [] category = "marketing" -> 5
    [] OTHER -> 9

\* A person: [name, title]; those of the structured data, then those of the page.
People(p) ==
  Each(Structured(EntitiesOf(p, {"person"}), "person"), LAMBDA q : q @@ ("source" :> "json_ld"))
  \o Each(At(p.seen, "team"), LAMBDA q : q @@ ("source" :> "html_element"))

\* Two people are one if their names and the categories of their roles are.
PersonDraft(field, source, confidence, strength, q) ==
  LET category == RoleCategory(q.title)
  IN [Draft(field, source, confidence, strength,
            [person |-> q.name, title |-> q.title], [person |-> q.name, title |-> q.title])
        EXCEPT !.key = [person |-> q.name, category |-> category]]

PeopleDrafts(p) ==
  Each(People(p), LAMBDA q : PersonDraft("organisation.people", q.source,
                                         IF q.source = "json_ld" THEN 80 ELSE 68, "moderate", q))

RecommendedContacts(p) ==
  Each(People(p),
       LAMBDA q : [PersonDraft("organisation.recommended_contact_candidates", "deterministic_inference",
                               55, "weak", q)
                     EXCEPT !.sort_key = ContactPriority(RoleCategory(q.title))])

InternalIT(p) ==
  Each(Matches(p, {"our software engineers"}),
       LAMBDA w : Draft("organisation.internal_it_status", "html_element", 72, "moderate",
                        Text("detected"), Text(w)))

Organisation(p) ==
  Emails(p) \o Phones(p) \o PeopleDrafts(p) \o RecommendedContacts(p) \o InternalIT(p)

-----------------------------------------------------------------------------
(* Operations.                                                             *)

Stores(p) == EntitiesOf(p, {"store", "localbusiness"})

\* What its own name says, or else the text of the page.
LocationType(p, e) ==
  CASE At(e.has, "named a") # <<>> -> At(e.has, "named a")[1]
    [] At(e.has, "named a") = <<>> /\ Matches(p, {"warehouse"}) # <<>> -> "warehouse"
    [] At(e.has, "named a") = <<>> /\ Matches(p, {"warehouse"}) = <<>> /\ Matches(p, {"showroom"}) # <<>> ->
         "showroom"
    [] OTHER -> "retail_store"

\* A page about stockists lists nothing the company owns.
Owned(p) == Matches(p, {"our stockists"}) = <<>>

\* The address, or without one the name.
LocationKey(e) ==
  IF At(e.has, "address") # <<>> THEN At(e.has, "address")[1]
  ELSE IF At(e.has, "name") # <<>> THEN Normalized(At(e.has, "name")[1]) ELSE Text("")

Locations(p) ==
  Each(Stores(p),
       LAMBDA e : [Draft("operations.locations", "json_ld", IF Owned(p) THEN 82 ELSE 70, "strong",
                         [location |-> LocationKey(e), is |-> LocationType(p, e), owned |-> Owned(p)],
                         [name |-> At(e.has, "name"), at |-> LocationKey(e)])
                     EXCEPT !.key = LocationKey(e)])

Counted(field, source, confidence, strength, n) ==
  Draft(field, source, confidence, strength, Count(n), Count(n))

PageLevelCounts(p) ==
  LET Number(type) == Len(SelectSeq(Stores(p), LAMBDA e : LocationType(p, e) = type))
      Listed(type, field) ==
        IF Number(type) = 0 THEN <<>> ELSE <<Counted(field, "json_ld", 78, "strong", Number(type))>>
  IN IF ~Owned(p) \/ p.type \notin {"store_locator", "contact"} THEN <<>>
     ELSE Listed("retail_store", "operations.retail_store_count")
          \o Listed("showroom", "operations.showroom_count")
          \o Listed("warehouse", "operations.warehouse_count")
          \o Listed("office", "operations.office_count")

PickupRule ==
  Rule("operations.pickup_available", 75, "strong", {"pickup available", "in-store pickup"})

ReturnsLocations(p) ==
  IF p.type # "returns" \/ Stores(p) = <<>> THEN <<>>
  ELSE <<Counted("operations.returns_location_count", "json_ld", 70, "moderate", Len(Stores(p)))>>

Operations(p) ==
  Locations(p) \o PageLevelCounts(p) \o Says(p, PickupRule, TRUE) \o ReturnsLocations(p)

-----------------------------------------------------------------------------
(* Technology.                                                             *)

\* A technology is known by the hosts of scripts, by the generator of the page
\* or by its HTML; "kinds" are those of the three that its signature has.
Signed(field, confidence, kinds, technologies) ==
  Each(technologies,
       LAMBDA t : [technology |-> t, field |-> field, confidence |-> confidence, kinds |-> kinds])

Signatures ==
  Signed("technology.commerce_platform", 85, {"host", "generator"}, <<"shopify">>)
  \o Signed("technology.commerce_platform", 85, {"generator", "html"}, <<"woocommerce", "magento">>)
  \o Signed("technology.commerce_platform", 85, {"host"}, <<"bigcommerce">>)
  \o Signed("technology.commerce_platform", 80, {"host"}, <<"shopline">>)
  \o Signed("technology.commerce_platform", 80, {"host", "generator"}, <<"squarespace_commerce", "wix_stores">>)
  \o Signed("technology.payment_providers", 75, {"host"},
            <<"stripe", "paypal", "afterpay", "klarna", "laybuy", "windcave">>)
  \o Signed("technology.payment_providers", 75, {"html"}, <<"shopify_payments", "apple_pay", "google_pay">>)
  \o Signed("technology.crm", 75, {"host"}, <<"hubspot", "salesforce">>)
  \o Signed("technology.email_marketing", 75, {"host"}, <<"klaviyo", "mailchimp", "activecampaign">>)
  \o Signed("technology.erp", 75, {"host"}, <<"odoo", "netsuite">>)
  \o Signed("technology.accounting", 75, {"host"}, <<"xero", "myob">>)
  \o Signed("technology.erp", 75, {"host"}, <<"cin7", "unleashed">>)
  \o Signed("technology.review_platforms", 75, {"host"},
            <<"yotpo", "judge_me", "reviews_io", "trustpilot", "stamped">>)
  \o Signed("technology.support_tools", 75, {"host"},
            <<"zendesk", "gorgias", "intercom", "tidio", "freshdesk">>)
  \o Signed("technology.analytics", 75, {"host"},
            <<"google_analytics", "google_tag_manager", "meta_pixel", "hotjar", "microsoft_clarity">>)
  \o Signed("technology.loyalty", 75, {"host"}, <<"smile_io", "loyaltylion", "yotpo_loyalty">>)
  \o Signed("technology.frameworks", 65, {"html"}, <<"react", "vue">>)
  \o Signed("technology.frameworks", 68, {"html"}, <<"nuxt", "nextjs">>)
  \o Signed("technology.frameworks", 65, {"html"}, <<"angular", "svelte">>)

MarkerKinds == <<"host", "generator", "html">>
MarkerSource(kind) ==
  CASE kind = "host" -> "script_marker" [] kind = "generator" -> "meta_tag" [] kind = "html" -> "html_element"

\* The first kind of marker found, in that order.
SignatureMatch(p, sig) ==
  SelectSeq(MarkerKinds, LAMBDA k : k \in sig.kinds /\ Contains(At(p.seen, "markers"), <<k, sig.technology>>))

TechnologySignals(p) ==
  LET matched == SelectSeq(Signatures, LAMBDA sig : SignatureMatch(p, sig) # <<>>)
      ai == At(p.seen, "ai words")
  IN Each(matched,
          LAMBDA sig : Draft(sig.field, MarkerSource(SignatureMatch(p, sig)[1]), sig.confidence, "strong",
                             Text(sig.technology), [technology |-> sig.technology,
                                                    by |-> SignatureMatch(p, sig)[1]]))
     \o (IF ai = <<>> THEN <<>>
         ELSE <<Draft("technology.ai_signals", "html_element", 55, "weak", ai[1], ai[1])>>)

-----------------------------------------------------------------------------
(* Catalogue.                                                              *)

Estimated(field, confidence, n) ==
  [Counted(field, "deterministic_inference", confidence, "weak", n) EXCEPT !.exact = FALSE]

\* The number of items of the first entity that has one; else the product links
\* of one page times the number of pages; else the links alone.
ProductCount(p) ==
  LET items == Structured(p.entities, "numberOfItems")
      links == Cardinality(ToSet(At(p.seen, "product links")))
      pages == At(p.seen, "pages in all")
  IN IF p.type \notin {"collection", "category"} THEN <<>>
     ELSE CASE items # <<>> -> <<Counted("catalogue.product_count", "json_ld", 82, "strong", items[1])>>
            [] items = <<>> /\ links > 0 /\ pages # <<>> ->
                 <<Estimated("catalogue.product_count_estimate", 60, links * pages[1])>>
            [] items = <<>> /\ links > 0 /\ pages = <<>> ->
                 <<Estimated("catalogue.product_count_estimate", 40, links)>>
            [] OTHER -> <<>>

CollectionCount(p) ==
  LET links == Cardinality(ToSet(At(p.seen, "collection links")))
  IN IF links = 0 THEN <<>> ELSE <<Estimated("catalogue.collection_count", 50, links)>>

Variants(p) ==
  LET Variant(source, fragment) ==
        <<Draft("catalogue.variant_evidence", source, 68, "moderate", Truth(TRUE), Text(fragment))>>
      several == \E i \in DOMAIN p.entities : Len(At(p.entities[i].has, "offers")) > 1
  IN IF p.type # "product" THEN <<>>
     ELSE CASE At(p.seen, "variant selector") # <<>> -> Variant("html_element", "selector")
            [] At(p.seen, "variant selector") = <<>> /\ several ->
                 Variant("json_ld", "offers")
            [] OTHER -> <<>>

BundleRule == Rule("catalogue.bundle_evidence", 65, "moderate", {"gift set"})
CustomizationRule == Rule("catalogue.customization_evidence", 65, "moderate", {"engraving"})

Customization(p) ==
  LET control == At(p.seen, "custom input")
  IN Says(p, CustomizationRule, TRUE)
     \o (IF control = <<>> THEN <<>>
         ELSE <<Draft("catalogue.customization_evidence", "form", 75, "strong", Truth(TRUE), control[1])>>)

CatalogueSignals(p) ==
  ProductCount(p) \o CollectionCount(p) \o Variants(p) \o Says(p, BundleRule, TRUE) \o Customization(p)

-----------------------------------------------------------------------------
(* Growth. Hiring only counts next to words about growth.                  *)

GrowthRules ==
  <<Rule("growth.hiring", 68, "moderate", {"we're hiring as we grow"}),
    Rule("growth.new_store", 75, "strong", {"opening a new store"}),
    Rule("growth.warehouse_change", 72, "strong", {"moving to a bigger warehouse"}),
    Rule("growth.expansion", 70, "moderate", {"international expansion"}),
    Rule("growth.platform_migration", 72, "strong", {"migrated to a new platform"}),
    Rule("growth.new_category", 70, "moderate", {"introducing our new category"}),
    Rule("growth.subscription_launch", 72, "strong", {"now offering subscriptions"})>>

GrowthSignals(p) ==
  LET Of(rule) ==
        Each(Matches(p, rule.wordings),
             LAMBDA w : Draft(rule.field, "html_element", rule.confidence, rule.strength, Text(w), Text(w)))
  IN FlattenSeq(Each(GrowthRules, Of))

-----------------------------------------------------------------------------
\* get_registered_extractors, in the order in which they run.
Registered ==
  <<"company_name", "trading_name", "country_city", "language", "business_model", "brands",
    "organisation", "operations", "technology", "catalogue", "growth">>

Extract(extractor, p) ==
  CASE extractor = "company_name" -> CompanyNames(p)
    [] extractor = "trading_name" -> TradingNames(p)
    [] extractor = "country_city" -> Addresses(p)
    [] extractor = "language" -> Languages(p)
    [] extractor = "business_model" -> BusinessModel(p)
    [] extractor = "brands" -> Brands(p)
    [] extractor = "organisation" -> Organisation(p)
    [] extractor = "operations" -> Operations(p)
    [] extractor = "technology" -> TechnologySignals(p)
    [] extractor = "catalogue" -> CatalogueSignals(p)
    [] extractor = "growth" -> GrowthSignals(p)
=============================================================================
