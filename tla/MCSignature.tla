---------------------------- MODULE MCSignature ----------------------------
\* The instance of Signature that TLC checks.
EXTENDS Signature
=============================================================================
