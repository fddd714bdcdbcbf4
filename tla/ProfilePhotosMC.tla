--------------------------- MODULE ProfilePhotosMC ---------------------------
(* Small instances of ProfilePhotos for TLC. *)
EXTENDS ProfilePhotos, TLC

(* Editors are interchangeable, and so are the ids of photos. *)
Symmetry == Permutations(Editors) \union Permutations(Photos)
=============================================================================
