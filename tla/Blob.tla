-------------------------------- MODULE Blob --------------------------------
(***************************************************************************)
(* An output blob of a layer: an array that the framework allocated and    *)
(* that the loops of execute store into.                                   *)
(***************************************************************************)
EXTENDS Ranking, SequencesExt, FiniteSetsExt

Cells(size) == 0..(size - 1)

Old   == [fn |-> "old"]     \* what a cell held before
Clash == [fn |-> "clash"]   \* two iterations stored different values

Blob(size) == [d \in Cells(size) |-> Old]

(* The blob after some stores <<cell, value>>, in any order.  A cell       *)
(* outside the blob is not part of the result.                             *)
Stored(blob, stores) ==
  LET at(d) == {s[2] : s \in {p \in stores : p[1] = d}}
  IN  [d \in DOMAIN blob |->
         IF at(d) = {} THEN blob[d]
         ELSE IF Cardinality(at(d)) = 1 THEN CHOOSE v \in at(d) : TRUE
         ELSE Clash]

(* The blob after each iteration i of a loop has stored value(i) in        *)
(* cell(i).                                                                *)
Fill(blob, iterations, cell(_), value(_)) ==
  Stored(blob, {<<cell(i), value(i)>> : i \in iterations})
=============================================================================
