------------------------------ MODULE MCCatalog ------------------------------
(* Instances of Catalog for TLC. *)
EXTENDS Catalog, TLC

\* Bodies differ in Readable and Named, so contents are not interchangeable.
Symmetry ==
    Permutations(Version) \cup Permutations(Channel)
    \cup Permutations(Writer) \cup Permutations(Collector)
\* Where no body is readable and no platform is Ios they are.
OpenSymmetry == Symmetry \cup Permutations(Content) \cup Permutations(Platform)
=============================================================================
