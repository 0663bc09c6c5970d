-------------------------- MODULE MCSettingsPatcher --------------------------
EXTENDS SettingsPatcher

CONSTANTS tA, tB, e1, e2, s1, s2
==============================================================================
