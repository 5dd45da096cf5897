--------------------------- MODULE MCProcessGroup ---------------------------
\* Model-checking instances of ProcessGroup: a microphone that drops under
\* pressure, and a file replay that waits; the .cfg files bound the rest.
EXTENDS ProcessGroup

CONSTANTS mic, file

TwoSources == <<mic, file>>
OneSource == <<mic>>
=============================================================================
