------------------------------ MODULE MCBilling ------------------------------
EXTENDS Billing, TLC

CONSTANTS s1, s2

Sessions == {s1, s2}
Same     == Permutations(Sessions)
All      == Events \cup {"redeem", "admin", "checkout", "meter"}
=============================================================================
