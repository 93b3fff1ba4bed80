----------------------------- MODULE MCBackends -----------------------------
EXTENDS Backends

CONSTANTS s1, s2, n1, n2, n3, a1, a2

OneRetry == <<1>>
=============================================================================
