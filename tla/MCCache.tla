---- MODULE MCCache ----
EXTENDS QueryCache, CacheShapes, TLC
CONSTANTS s1, s2
MCShapes == AppShapes(Slots, Web) \cup AppShapes(Slots, Mobile)
Alike == Permutations(Slots)
====
