---------------------------- MODULE MCSupervisor ----------------------------
\* An instance of Supervisor with three engine processes, so that one given up
\* may still be ending while its successor ends too and a third is launched.
EXTENDS Supervisor

CONSTANTS e1, e2, e3, none
MCEngines == {e1, e2, e3}
=============================================================================
