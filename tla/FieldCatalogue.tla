--------------------------- MODULE FieldCatalogue ---------------------------
(***************************************************************************)
(* The fields a company may have facts about, how the candidates of each   *)
(* are merged, and the confidence below which a candidate does not count   *)
(* (extraction/domain/field_catalogue.py). Value types, descriptions and   *)
(* freshness windows, which nothing in the pipeline reads, are left out.   *)
(***************************************************************************)
EXTENDS Naturals

AuthoritativeExact == 70
ContactInfo == 70
BooleanCapability == 65
Technology == 70
CatalogueEstimate == 55
Growth == 65
DeterministicInference == 50

\* Every one of these fields is merged alike, from the same confidence on.
Defined(fields, strategy, threshold) ==
  {[field_path |-> f, merge_strategy |-> strategy, minimum_accepted_confidence |-> threshold] :
     f \in fields}

IdentityFields ==
  Defined({"identity.company_name", "identity.trading_name", "identity.platform",
           "identity.country", "identity.city"}, "scalar_conflict_preserving", AuthoritativeExact)
  \cup Defined({"identity.language"}, "scalar_preferred", DeterministicInference)

BusinessFields ==
  Defined({"business.wholesale", "business.trade_accounts", "business.click_and_collect",
           "business.subscription", "business.booking", "business.online_only",
           "business.custom_products"}, "boolean_explicit", BooleanCapability)
  \cup Defined({"business.brands"}, "set_union", BooleanCapability)

CatalogueFields ==
  Defined({"catalogue.product_count", "catalogue.product_count_estimate",
           "catalogue.sku_count_estimate", "catalogue.collection_count"},
          "numeric_exact_or_estimate", CatalogueEstimate)
  \cup Defined({"catalogue.variant_evidence", "catalogue.bundle_evidence",
              "catalogue.customization_evidence"}, "boolean_positive_only", CatalogueEstimate)

OperationsFields ==
  Defined({"operations.retail_store_count", "operations.showroom_count",
           "operations.warehouse_count", "operations.office_count",
           "operations.returns_location_count"}, "numeric_exact_or_estimate", BooleanCapability)
  \cup Defined({"operations.pickup_available"}, "boolean_explicit", BooleanCapability)
  \cup Defined({"operations.locations"}, "structured_entity_merge", BooleanCapability)

TechnologyFields ==
  Defined({"technology.commerce_platform", "technology.payment_providers", "technology.crm",
           "technology.erp", "technology.accounting", "technology.review_platforms",
           "technology.support_tools", "technology.analytics", "technology.loyalty",
           "technology.email_marketing", "technology.ai_signals", "technology.frameworks"},
          "set_union", Technology)

OrganisationFields ==
  Defined({"organisation.emails", "organisation.phone_numbers"}, "set_union", ContactInfo)
  \cup Defined({"organisation.people"}, "structured_entity_merge", ContactInfo)
  \cup Defined({"organisation.internal_it_status"}, "scalar_conflict_preserving", BooleanCapability)
  \cup Defined({"organisation.recommended_contact_candidates"}, "structured_entity_merge",
             DeterministicInference)

GrowthFields ==
  Defined({"growth.hiring", "growth.expansion", "growth.new_store", "growth.warehouse_change",
           "growth.platform_migration", "growth.new_category", "growth.subscription_launch"},
          "time_series", Growth)

Catalogue ==
  IdentityFields \cup BusinessFields \cup CatalogueFields \cup OperationsFields
  \cup TechnologyFields \cup OrganisationFields \cup GrowthFields

FieldPaths == {definition.field_path : definition \in Catalogue}
DefinitionOf(f) == CHOOSE definition \in Catalogue : definition.field_path = f
MergeStrategy(f) == DefinitionOf(f).merge_strategy
MinimumConfidence(f) == DefinitionOf(f).minimum_accepted_confidence
=============================================================================
