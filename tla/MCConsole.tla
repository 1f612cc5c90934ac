----------------------------- MODULE MCConsole -----------------------------
EXTENDS Console

(* Readers and writers meet only in the handler, and the printer only at the port. *)
CONSTANTS r1, r2, w1, k1
MCCasts == {{r1, r2}, {w1, k1}}

(* Of a ring buffer only what is between its indices is ever read. *)
View == <<Ring(cons.buf, cons.r, cons.e, INPUT_BUF_SIZE, UINT), cons.r, cons.w, cons.e,
          Ring(tx.buf, tx.r, tx.w, UART_TX_BUF_SIZE, UINT64), tx.r, tx.w,
          lock, thr, lost, rx, irq, at>>
=============================================================================
