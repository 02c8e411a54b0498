---------------------------- MODULE MCTokenCache ----------------------------
EXTENDS TokenCache

CONSTANTS h1, h2
=============================================================================
