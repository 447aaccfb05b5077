---------------------------- MODULE MCProviders ----------------------------
EXTENDS Providers

CONSTANTS k1, p1

=============================================================================
