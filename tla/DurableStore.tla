---------------------------- MODULE DurableStore ----------------------------
(***************************************************************************)
(* What the durable store promises, with no threads, mutexes, fsyncs,      *)
(* segments or snapshot files: a log of mutations, the part of it that     *)
(* outlives a power failure, the part readers see, and what callers were   *)
(* told is safe.  durable_vdb.h:14-31 states the promise; DurableVDB is    *)
(* shown to implement this module.                                         *)
(***************************************************************************)
EXTENDS WalRecords

CONSTANT Strict     \* strict visibility: the promise of Policy::PerOpSync

VARIABLES log,      \* the mutations, in the order they were logged
          durable,  \* the first so many records outlive any failure
          open,     \* a process serves the store
          visible,  \* the lsns whose effect readers see
          view,     \* what readers see
          promised  \* the lsns callers were told are safe

vars == <<log, durable, open, visible, view, promised>>

Init == /\ log = <<>> /\ durable = 0 /\ open = TRUE
        /\ visible = {} /\ view = EmptyDb /\ promised = {}

\* A mutation joins the log; nobody sees it yet.
LogMutation ==
    /\ open
    /\ log' \in Seq(WalRecord) /\ Len(log') = Len(log) + 1
    /\ SubSeq(log', 1, Len(log)) = log
    /\ UNCHANGED <<durable, open, visible, view, promised>>

\* More of the log becomes durable.
Persist ==
    /\ durable' \in durable + 1..Len(log)
    /\ UNCHANGED <<log, open, visible, view, promised>>

\* One mutation becomes visible, in any order; a strict store waits until it is durable.
\* Readers see the visible mutations as if they had been applied in log order.
Show ==
    /\ open
    /\ \E n \in 1..Len(log) \ visible :
          /\ Strict => n <= durable
          /\ visible' = visible \cup {n}
          /\ view' = Replay(log, EmptyDb, visible')
    /\ UNCHANGED <<log, durable, open, promised>>

\* Callers are promised only what is durable.
Promise ==
    /\ open
    /\ \E S \in SUBSET (1..durable) : promised' = promised \cup S
    /\ UNCHANGED <<log, durable, open, visible, view>>

\* The process ends.  A suffix of the log that was not durable may be lost; in a strict
\* store what is left is durable, because the next process will show it.
Stop ==
    /\ \E kept \in durable..Len(log) :
          /\ log' = SubSeq(log, 1, kept)
          /\ durable' \in durable..kept
          /\ Strict => durable' = kept
    /\ open' = FALSE /\ visible' = {} /\ view' = EmptyDb
    /\ UNCHANGED promised

\* The next process shows the whole log that is left.
Reopen ==
    /\ ~open /\ open' = TRUE
    /\ visible' = 1..Len(log)
    /\ view' = Replay(log, EmptyDb, visible')
    /\ UNCHANGED <<log, durable, promised>>

Next == LogMutation \/ Persist \/ Show \/ Promise \/ Stop \/ Reopen
Spec == Init /\ [][Next]_vars
=============================================================================
