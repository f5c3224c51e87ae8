-------------------------- MODULE MCTransactionSync --------------------------
EXTENDS TransactionSync

CONSTANTS t1, t2

MCTwo == {t1, t2}
MCOne == {t1}
MCSameNonce == [t \in Txs |-> 7]
MCApart == [t \in Txs |-> IF t = t1 THEN 7 ELSE 8]
=============================================================================
