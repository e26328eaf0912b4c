----------------------------- MODULE MCEventPump -----------------------------
\* Small instances of the event pump: two ids, one of which owns its data, two
\* handlers, buffers of two slots, so that a full buffer, a repeated
\* registration and a purge in batches all happen.
EXTENDS EventPump

CONSTANTS owning, plain, h1, h2

MCEventIds == {owning, plain}
MCOwnsData == {owning}
MCKeys == {h1, h2}
=============================================================================
