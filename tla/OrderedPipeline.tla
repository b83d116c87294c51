-------------------------- MODULE OrderedPipeline --------------------------
(***************************************************************************)
(* What every framework of threads-lib promises its caller: run() hands    *)
(* each item made by the generator to a processor exactly once, and hands  *)
(* the items to the consumer in the order they were made, each exactly     *)
(* once and with the value its processor returned; no more than Capacity   *)
(* items are in flight; run() returns only when nothing is left.           *)
(*                                                                         *)
(* Items are numbered in the order of generation.  The concrete modules    *)
(* keep the two histories below beside the variables of the code.          *)
(***************************************************************************)
EXTENDS Naturals, Sequences

CONSTANTS
  Results,   \* the values a processor may return
  Pending,   \* the outcome of an item that no processor has handled yet
  Capacity   \* the largest number of items made and not yet consumed

VARIABLES
  running,   \* a call of run() is in progress
  outcome,   \* outcome[i]: what the processor returned for item i
  delivered  \* the consumer's calls, as <<item, return value>> pairs

absVars == <<running, outcome, delivered>>

AbsInit ==
  /\ running = FALSE
  /\ outcome = <<>>
  /\ delivered = <<>>

Start ==
  /\ ~running
  /\ running' = TRUE
  /\ UNCHANGED <<outcome, delivered>>

Make ==
  /\ running
  /\ Len(outcome) - Len(delivered) < Capacity
  /\ outcome' = Append(outcome, Pending)
  /\ UNCHANGED <<running, delivered>>

Work ==
  /\ running
  /\ \E i \in 1 .. Len(outcome), r \in Results :
       /\ outcome[i] = Pending
       /\ outcome' = [outcome EXCEPT ![i] = r]
  /\ UNCHANGED <<running, delivered>>

Deliver ==
  LET next == Len(delivered) + 1 IN
  /\ running
  /\ next <= Len(outcome)
  /\ outcome[next] # Pending
  /\ delivered' = Append(delivered, <<next, outcome[next]>>)
  /\ UNCHANGED <<running, outcome>>

Finish ==
  /\ running
  /\ Len(delivered) = Len(outcome)
  /\ running' = FALSE
  /\ UNCHANGED <<outcome, delivered>>

AbsNext == Start \/ Make \/ Work \/ Deliver \/ Finish

AbsSpec == AbsInit /\ [][AbsNext]_absVars
=============================================================================
