------------------------------- MODULE TxHistory -------------------------------
(*****************************************************************************)
(* Histories of transactions, for both transactional memories. A transaction *)
(* is a record of its name tx; of reads, the pairs of an object and the      *)
(* transaction whose contents of it were read; of writes, the pairs of an    *)
(* object and the contents that were replaced; and of after, the             *)
(* transactions that had committed when it began.                            *)
(*****************************************************************************)

\* Transaction a comes before b in every serial order: b read what a wrote, or
\* overwrote what a read, or began after a committed.
Precedes(a, b) ==
  \/ \E r \in b.reads : r[2] = a.tx
  \/ a.reads \cap b.writes # {}
  \/ a.tx \in b.after

Acyclic(txs) ==
  \A S \in (SUBSET txs) \ {{}} :
    \E b \in S : \A a \in S \ {b} : ~Precedes(a, b)

\* tx read initial contents, or what a transaction of committed wrote.
ReadsWhatCommitted(tx, committed, initial) ==
  \A r \in tx.reads :
    r[2] = initial \/ \E c \in committed : c.tx = r[2] /\ r[1] \in {w[1] : w \in c.writes}

\* The committed transactions have a serial order, consistent with real time,
\* in which each read the last contents written before it, and so do they
\* together with any one of the live transactions.
OpaqueHistory(committed, live, initial) ==
  /\ Acyclic(committed)
  /\ \A tx \in committed \cup live : ReadsWhatCommitted(tx, committed, initial)
  /\ \A tx \in live : Acyclic(committed \cup {tx})
===============================================================================
