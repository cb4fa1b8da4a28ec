------------------------- MODULE MCDecodeSession -------------------------
\* The captured bit stream with either clock, the captured PCM, and a pipe
\* that is read once.
EXTENDS DecodeSession

MCSessions ==
  {[mode |-> "pipewire_bridge", clock |-> "dac", continuous |-> TRUE, quit |-> "restart"],
   [mode |-> "pipewire_bridge", clock |-> "self", continuous |-> TRUE, quit |-> "shutdown"],
   [mode |-> "live", clock |-> "self", continuous |-> FALSE, quit |-> "shutdown"]}

\* The output's clock and a pipe that is read once: nothing but a standby or a
\* change of the output takes the writer away.
MCOutputClocked ==
  {[mode |-> "pipewire_bridge", clock |-> "dac", continuous |-> FALSE, quit |-> "restart"]}
=============================================================================
