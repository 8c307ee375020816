---------------------------- MODULE MCClusterView ----------------------------
EXTENDS ClusterView
\* The protected demo, a deployment whose configuration does not load, and one without
\* its database.
SomeProfiles == {[mode |-> "execute", loads |-> TRUE, ready |-> TRUE],
                 [mode |-> "observe", loads |-> FALSE, ready |-> TRUE],
                 [mode |-> "execute", loads |-> TRUE, ready |-> FALSE]}
=============================================================================
