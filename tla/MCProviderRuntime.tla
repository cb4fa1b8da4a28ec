------------------------- MODULE MCProviderRuntime -------------------------
\* The queue in half quanta: capacity eight quanta, target four, as in the
\* code, and an endpoint that drains less and more than a quantum at a time. A
\* client makes its control calls between its updates, with the faults of those
\* calls only or with all, or from another thread in the middle of them, with all.
EXTENDS ProviderRuntime

MCDrainSizes == {0, 1, 3}
ControlFaults == {"pump_start", "pump_stop", "thread", "reset"}
MCClients ==
  {[serial |-> TRUE, faults |-> f] : f \in {ControlFaults, FaultKinds}}
    \cup {[serial |-> FALSE, faults |-> FaultKinds]}
MCDrainFault == {[serial |-> TRUE, faults |-> {"drain"}]}
=============================================================================
