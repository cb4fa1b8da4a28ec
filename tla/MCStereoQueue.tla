--------------------------- MODULE MCStereoQueue ---------------------------
\* A queue of three frames, blocks that divide it unevenly so that a copy
\* wraps at every possible place, and reads shorter and longer than a block.
EXTENDS StereoQueue

MCBlockSizes == {0, 1, 2, 3, 4}
MCReadSizes == {1, 2, 4}
=============================================================================
