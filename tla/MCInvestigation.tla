-------------------------- MODULE MCInvestigation --------------------------
EXTENDS Investigation
\* The protected demo, and a simulation.
SomeSettings ==
    {[remediation |-> "execute", kubernetes |-> "execute", auto |-> FALSE, graph |-> TRUE],
     [remediation |-> "simulate", kubernetes |-> "observe", auto |-> FALSE, graph |-> TRUE]}
=============================================================================
