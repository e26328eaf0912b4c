-------------------------- MODULE MCEventDispatcher --------------------------
\* The id of command answers (CommandDataReadyEvent), the id scenes react to
\* (VdevDataChangeEvent), one ordinary handler, and stack addresses for waits.
EXTENDS EventDispatcher

CONSTANTS ready, change, scene, a1, a2

MCEventIds == {ready, change}
MCOwnsData == {change}
MCKeys == {scene, a1, a2}
MCAddresses == {a1, a2}
MCWaitIds == {ready}
=============================================================================
