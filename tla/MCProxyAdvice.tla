---------------------------- MODULE MCProxyAdvice ----------------------------
EXTENDS ProxyAdvice

\* A proxy whose slots are unknown weighs as much as one with a single slot.
TwoSlotsOrUnknown == {0, 2}
==============================================================================
