------------------------------ MODULE MCWallet ------------------------------
EXTENDS WalletProperties

CONSTANTS a1, a2

=============================================================================
