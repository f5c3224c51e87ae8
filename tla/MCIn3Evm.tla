------------------------------ MODULE MCIn3Evm ------------------------------
EXTENDS In3Evm, MCEvmPrograms
=============================================================================
