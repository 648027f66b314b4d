--------------------------- MODULE MCEarlySuspend ---------------------------
\* Early suspend with three handlers, two of them of one level.
EXTENDS EarlySuspend

CONSTANTS screen, touch, fb

MCHandlers == {screen, touch, fb}

\* EARLY_SUSPEND_LEVEL_BLANK_SCREEN twice, EARLY_SUSPEND_LEVEL_DISABLE_FB.
MCLevel == [h \in MCHandlers |-> IF h = fb THEN 150 ELSE 50]
=============================================================================
