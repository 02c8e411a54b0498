------------------------------ MODULE MCInstall ------------------------------
EXTENDS Install, TLC

CONSTANTS s1, s2, d1, d2, app, apk, zip

\* Servers are interchangeable, and so are devices.
Interchangeable == Permutations(Server) \cup Permutations(Device)
==============================================================================
