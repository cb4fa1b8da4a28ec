-------------------------- MODULE MCObjectStream --------------------------
\* Instances of ObjectStream: handles are interchangeable, and so are threads,
\* for the clients they make up are all there.
EXTENDS ObjectStream, TLC

CONSTANTS t1, t2, o1, o2, o3, FrontLeft, origin, unity, none

MCThreads == {t1, t2}
MCOneOrBoth == SUBSET MCThreads \ {{}}
MCBoth == {MCThreads}
MCHandles == {o1, o2, o3}
MCRoles == {FrontLeft}
MCOnePosition == {origin}
MCOneVolume == {unity}
Symmetries == Permutations(MCHandles) \cup Permutations(MCThreads)
=============================================================================
