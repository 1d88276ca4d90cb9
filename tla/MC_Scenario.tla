---------------------------- MODULE MC_Scenario ----------------------------
EXTENDS Scenario

\* Two projects, so that the project step can find the client on the other.
MC_Projects == {"test-a", "test-b"}
=============================================================================
