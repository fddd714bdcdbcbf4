--------------------------- MODULE EventListingMC ----------------------------
(* Small instances of EventListing for TLC. *)
EXTENDS EventListing, TLC

(* Users, campaigns, payments and handlers are interchangeable. *)
Symmetry == Permutations(Users) \union Permutations(Campaigns)
              \union Permutations(Payments) \union Permutations(Handlers)
=============================================================================
