-------------------------- MODULE MCOwnershipClaims --------------------------
\* Symmetry for the finite instance of OwnershipClaims: claims, persons and
\* calls are interchangeable.
EXTENDS OwnershipClaims, TLC

OwnershipSymmetry == Permutations(Claim) \union Permutations(Person) \union Permutations(Call)
=============================================================================
