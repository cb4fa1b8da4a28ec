-------------------------- MODULE MCRealtimeLanes --------------------------
\* An instance of RealtimeLanes: two lanes, and callbacks of one or three frames
\* against worker blocks of two.
EXTENDS RealtimeLanes

MCKinds == {"stereo", "bed", "objects"}
MCLanes == {1, 2}
MCQuanta == {1, 3}
=============================================================================
