---------------------------- MODULE MCCatalogue ----------------------------
EXTENDS Catalogue, TLC

CONSTANTS ann, bob, sums

MCCreators == {ann, bob}
MCSymmetry == Permutations(MCCreators)
=============================================================================
