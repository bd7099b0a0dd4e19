---- MODULE MCReads ----
(***************************************************************************)
(* A small instance of the reads: two submits and a batch of two rows meet *)
(* on a clock slow enough that stamps are equal.                           *)
(***************************************************************************)
EXTENDS Reads, TLC

CONSTANTS x1, x2, x3

ThreeWriters == (x1 :> <<1>>) @@ (x2 :> <<-1>>) @@ (x3 :> <<2, -1>>)
====
