---------------------------- MODULE MC_Project ----------------------------
EXTENDS Project

\* Two projects, so that a step can find the client on the other one.
MC_Projects == {"test-a", "test-b"}
=============================================================================
