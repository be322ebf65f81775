---------------------------- MODULE MCRateLimiter ----------------------------
EXTENDS RateLimiter, TLC

IPSymmetry == Permutations(IP)
=============================================================================
