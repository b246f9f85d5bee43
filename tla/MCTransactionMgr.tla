-------------------------- MODULE MCTransactionMgr --------------------------
EXTENDS TransactionMgr

FirstCmd == CHOOSE c \in Cmds : TRUE

(* Commands are interchangeable: the first transaction is taken to be of    *)
(* the first one.                                                           *)
Explored ==
  (\E o \in Trans : home[o] # NoCmd) => \E o \in Trans : home[o] = FirstCmd
=============================================================================
