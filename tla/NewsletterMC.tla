---------------------------- MODULE NewsletterMC ----------------------------
EXTENDS Newsletter, TLC

CONSTANTS p1, p2, p3, b1, b2, j1, j2
=============================================================================
