----------------------------- MODULE DurableLog -----------------------------
(***************************************************************************)
(* What the durable store promises the coordinator, and nothing about how: *)
(* there is one log, it only grows, a coordinator that serves has applied  *)
(* exactly that log, and a crash costs at most the question whether the    *)
(* record being appended at that moment made it.                           *)
(***************************************************************************)
EXTENDS Naturals, Sequences

CONSTANTS
  Payloads,         \* durable records, opaque
  Boot              \* the record with which an incarnation begins to serve

VARIABLES
  log,              \* every durable record, in order
  serving,          \* is there an incarnation that serves
  view              \* what that incarnation has applied

vars == <<log, serving, view>>

Init == log = <<>> /\ serving = FALSE /\ view = <<>>

\* An incarnation begins: it has applied all there is, and its own beginning.
Begin ==
  /\ ~serving
  /\ serving' = TRUE
  /\ log' = Append(log, Boot)
  /\ view' = log'

\* A mutation is acknowledged: it is durable and applied.
Commit(p) ==
  /\ serving
  /\ log' = Append(log, p)
  /\ view' = Append(view, p)
  /\ UNCHANGED serving

\* The incarnation ends, whatever it was doing.
End(p) ==
  /\ log' \in {log, Append(log, p)}
  /\ serving' = FALSE
  /\ view' = <<>>

Next == Begin \/ (\E p \in Payloads : Commit(p)) \/ (\E p \in Payloads \cup {Boot} : End(p))

Spec == Init /\ [][Next]_vars

=============================================================================
