------------------------------ MODULE MCStream ------------------------------
\* Instances of Stream for TLC: which changes the GM makes.
EXTENDS Stream

AllChanges  == {"edit", "hide", "delete", "role", "remove", "invite"}
AllFaults   == {"lose", "deaf", "db", "listen", "slow", "drop"}
=============================================================================
