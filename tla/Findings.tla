------------------------------ MODULE Findings ------------------------------
(* What every evidence collector is built from.  A collector asks the cloud   *)
(* for lists and for details of the listed items; each read may fail, and the *)
(* collector goes on with what it holds.  A finding is then computed from     *)
(* what is held, and core/findings.ts refuses a failing finding that names no *)
(* affected resource.                                                         *)
(*                                                                            *)
(* A view v is what a collector holds when it computes a finding: v.n[q] how  *)
(* many items of quantity q it holds, v.ok[q] whether the read of q ended     *)
(* without an error.  A count "over n" (overTwenty...) is the number of items *)
(* beyond a threshold of the code.                                            *)
EXTENDS Naturals

(* How a quantity is read.                                                    *)
(*   Whole    one caught call that answers in full: an error leaves nothing   *)
(*   Scan     a caught loop to the last page: an error keeps those read       *)
(*   Page     a caught read that may end before the last page: one call       *)
(*            whose marker of a next page nobody looks at, or a loop that     *)
(*            gives up; an error leaves nothing                               *)
(*   Skim     a Page whose error keeps what was read before it: a loop over   *)
(*            several such calls, or one capped at a number of pages          *)
(*   Bare     an uncaught call: an error ends the collector, or the check     *)
(*            when the check has a try of its own                             *)
(*   Peek     a Bare call that may end before the last page                   *)
(*   Each(p)  those of p's items with some trait, found by a loop over what   *)
(*            is held of p; an item whose own read fails is passed over       *)
(*   Part(p)  those of p's items with some trait that p's own read shows      *)
(*   Last(p)  whether the last of p's items that could be read has a trait:   *)
(*            the loop over them overwrites what it found for the one before  *)
(*   Given    a setting of the run, not read from the cloud                   *)
Given   == [how |-> "given", of |-> "run"]
Whole   == [how |-> "whole", of |-> "cloud"]
Scan    == [how |-> "scan",  of |-> "cloud"]
Page    == [how |-> "page",  of |-> "cloud"]
Skim    == [how |-> "skim",  of |-> "cloud"]
Bare    == [how |-> "bare",  of |-> "cloud"]
Peek    == [how |-> "peek",  of |-> "cloud"]
Each(p) == [how |-> "each",  of |-> p]
Part(p) == [how |-> "part",  of |-> p]
Last(p) == [how |-> "last",  of |-> p]

(* The reads of a collector that one of its findings looks at.                *)
Of(reads, Q) == [q \in Q |-> reads[q]]

(* finding(): a failing finding that names nothing is an exception.           *)
Finding(passed, named) == [passed |-> passed, named |-> named]
Throws(f) == ~f.passed /\ ~f.named

(* Math.round((n / t) * 100). *)
Percent(n, t) == (200 * n + t) \div (2 * t)

(* The gate forgotten. *)
GateLeftOpen(clean, reached) == clean

(* gatePass: a clean list counts only when the reads behind it succeeded. *)
GatePass(clean, reached) == reached /\ clean

Held(v, q) == v.n[q] > 0
None(v, q) == v.n[q] = 0
=============================================================================
