---------------------------- MODULE MCSupervisor ----------------------------
\* Instances of Supervisor for TLC.
EXTENDS Supervisor

CONSTANTS v1, v2

Adopting == [assumeCurrent |-> TRUE, troubles |-> {"dies", "unsaved"}]
Stuck == [assumeCurrent |-> TRUE, troubles |-> {"dies", "stuck"}]
Mistaken == [assumeCurrent |-> TRUE, troubles |-> {"dies", "watch"}]
Watching == [assumeCurrent |-> FALSE, troubles |-> {"watch", "panic"}]
Some == {Adopting, Stuck, Mistaken, Watching}
=============================================================================
